-------------------------- MODULE RouteLink_proofs --------------------------
(***************************************************************************)
(* Proofs about RouteLink, for any number of providers, links, leases,     *)
(* syncs and faults.  OpenKept is the argument for a step that is not the  *)
(* link's own: it takes registrations of the link away at most.            *)
(***************************************************************************)
EXTENDS RouteLink, FiniteSetTheorems, TLAPS

\* The threads: a worker per link, and the operator, which is none of them.
LEMMA Threads == Link \subseteq Thread /\ 0 \in Thread /\ 0 \notin Link /\ NoProv \notin Provider
  BY LinkAssumption DEF Thread, Link

\* TypeOK and what else the types of the round-local state need.
Typed ==
    /\ TypeOK
    /\ want \in [Thread -> Provider \cup Link \cup {0}] /\ used \in 0..MaxLease
    /\ \A x \in alive : lprov[x] \in Provider

\* A grant of a lease by the executor keeps the types of what it keeps.
LEMMA GrantTyped ==
    ASSUME Typed, conf # NoProv, Activate(conf)
    PROVE  /\ used' \in 0..MaxLease /\ used' \in Lease /\ alive' \subseteq Lease
           /\ lprov' \in [Lease -> Provider \cup {NoProv}]
           /\ \A x \in alive' : lprov'[x] \in Provider
<1>1. MaxLease \in Nat
  BY LinkAssumption
<1>2. used' \in 0..MaxLease /\ used' \in Lease
  BY <1>1 DEF Typed, Lease, Activate
<1>3. PICK u \in Lease : u = used'
  BY <1>2
<1>4. conf \in Provider
  BY DEF Typed, TypeOK
<1> QED
  BY <1>2, <1>3, <1>4 DEF Typed, TypeOK, Activate

\* The end of a lease does, too.
LEMMA RetiredTyped ==
    ASSUME Typed, NEW x, Retired(x)
    PROVE  alive' \subseteq alive /\ notices' \subseteq Provider
  BY DEF Retired, Typed, TypeOK

\* Links are made in order: the next one has not been born.
LEMMA NextUnborn ==
    ASSUME InOrder
    PROVE  /\ Cardinality(Born) \in Nat
           /\ Cardinality(Born) + 1 \notin Born
           /\ 1..Cardinality(Born) \subseteq Born
<1>1. MaxLink \in Nat /\ Born \subseteq 1..MaxLink /\ IsFiniteSet(1..MaxLink)
  BY LinkAssumption, FS_Interval DEF Born, Link
<1>2. IsFiniteSet(Born) /\ Cardinality(Born) \in Nat
  BY <1>1, FS_Subset, FS_CardinalityType
<1>3. PICK n \in Nat : n = Cardinality(Born)
  BY <1>2
<1>4. n + 1 \notin Born
  <2>1. SUFFICES ASSUME n + 1 \in Born PROVE FALSE
    OBVIOUS
  <2>2. 1..(n + 1) \subseteq Born
    BY <2>1 DEF InOrder
  <2>3. Cardinality(1..(n + 1)) <= Cardinality(Born)
    BY <1>2, <2>2, FS_Subset
  <2>4. Cardinality(1..(n + 1)) = n + 1
    BY FS_Interval
  <2> QED
    BY <1>3, <2>3, <2>4
<1>5. ASSUME NEW k \in 1..n, k \notin Born PROVE FALSE
  <2>1. \A l \in Born : l \in Nat /\ l < k /\ l >= 1
    BY <1>1, <1>5 DEF InOrder
  <2>2. Born \subseteq 1..(k - 1)
    BY <2>1
  <2>3. IsFiniteSet(1..(k - 1)) /\ Cardinality(1..(k - 1)) = k - 1
    BY FS_Interval
  <2>4. Cardinality(Born) <= k - 1
    BY <2>2, <2>3, FS_Subset
  <2> QED
    BY <1>3, <2>4
<1> QED
  BY <1>3, <1>4, <1>5

\* A step of a thread leaves the set of links made as it is, unless it makes one.
LEMMA BornKept ==
    ASSUME Typed, NEW t \in Thread, NEW s, s # "unborn", pc[t] # "unborn", Goto(t, s)
    PROVE  Born' = Born
<1>1. \A l \in Link : (pc'[l] = "unborn") <=> (pc[l] = "unborn")
  BY Threads DEF Goto, Typed, TypeOK
<1> QED
  BY <1>1 DEF Born

\* Every step but the making of a link keeps the links in order.
LEMMA OrderKept ==
    ASSUME LinkInv, [Next]_vars, ~SyncLink
    PROVE  InOrder'
<1>0. /\ Typed /\ InOrder /\ 0 \in Thread /\ Link \subseteq Thread /\ 0 \notin Link
  BY Threads DEF LinkInv, Typed
<1>1. ASSUME NEW t \in Thread,
             \/ TearWithdraw(t) \/ TearShut(t) \/ TearRelease(t)
      PROVE  InOrder'
  <2>1. UNCHANGED <<closed, cur>> /\ Born' = Born
    BY <1>0, <1>1, BornKept DEF TearWithdraw, TearShut, TearRelease, linkVars
  <2> QED
    BY <1>0, <2>1 DEF InOrder
<1>2. ASSUME NEW l \in Link, Worker(l) \/ SessionLost(l) PROVE InOrder'
  <2>1. CASE \/ WorkerEnds(l) \/ Connect(l) \/ Connected(l) \/ ObtainLease(l) \/ AttachFails(l)
             \/ Ready(l) \/ NeverReady(l) \/ Reconcile(l) \/ Register(l)
    <3>1. UNCHANGED <<closed, cur>> /\ Born' = Born
      BY <1>0, <2>1, BornKept DEF WorkerEnds, Connect, Connected, ObtainLease, AttachFails, Ready,
         NeverReady, Reconcile, Register, Retry, linkVars
    <3> QED
      BY <1>0, <3>1 DEF InOrder
  <2>2. CASE MonitorCheck(l) \/ Monitor(l) \/ Renew(l)
    <3>1. UNCHANGED <<closed, cur>> /\ pc[l] # "unborn"
      BY <2>2 DEF MonitorCheck, Monitor, Renew, linkVars
    <3>2. \E s \in {"idle", "monitor", "renew", "slept", "withdraw", "check"} : Goto(l, s)
      BY <2>2 DEF MonitorCheck, Monitor, Renew
    <3>3. Born' = Born
      BY <1>0, <3>1, <3>2, BornKept
    <3> QED
      BY <1>0, <3>1, <3>3 DEF InOrder
  <2>3. CASE SessionLost(l)
    BY <1>0, <2>3 DEF SessionLost, InOrder, Born
  <2> QED
    BY <1>0, <1>1, <1>2, <2>1, <2>2, <2>3 DEF Worker
<1>3. CASE \/ UNCHANGED vars
           \/ \E x \in Lease : LeaseExpires(x) \/ LeaseRevoked(x)
           \/ \E p \in Provider : Notice(p)
  BY <1>0, <1>3 DEF vars, LeaseExpires, LeaseRevoked, Notice, linkVars, InOrder, Born
<1>4. CASE SyncRemove
  <2>1. /\ Born' = Born
        /\ closed' \cup ({cur'} \ {0}) \subseteq closed \cup ({cur} \ {0})
    BY <1>0, <1>4, BornKept DEF SyncRemove
  <2> QED
    BY <1>0, <2>1 DEF InOrder
<1>5. CASE Shutdown
  <2>1. /\ Born' = Born
        /\ closed' \cup ({cur'} \ {0}) \subseteq closed \cup ({cur} \ {0})
    BY <1>0, <1>5, BornKept DEF Shutdown
  <2> QED
    BY <1>0, <2>1 DEF InOrder
<1>6. ASSUME NEW c \in Provider \cup {NoProv}, SyncRoutes(c) PROVE InOrder'
  <2>1. UNCHANGED <<closed, cur>> /\ Born' = Born
    BY <1>0, <1>6, BornKept DEF SyncRoutes, linkVars
  <2> QED
    BY <1>0, <2>1 DEF InOrder
<1> QED
  BY <1>0, <1>1, <1>2, <1>3, <1>4, <1>5, <1>6 DEF Next, Operator

\* The making of a link, or the reuse of the one the peer has.
LEMMA OrderExtended ==
    ASSUME LinkInv, SyncLink
    PROVE  /\ InOrder'
           /\ cur' \in Link /\ (cur' \in closed => closing)
<1>0. Typed /\ InOrder /\ 0 \in Thread /\ Link \subseteq Thread /\ 0 \notin Link
  BY Threads DEF LinkInv, Typed
<1>1. /\ pc[0] = "sync" /\ UNCHANGED <<closed, closing>>
      /\ cur' = IF cur = 0 THEN Cardinality(Born) + 1 ELSE cur
      /\ cur' \in Link
      /\ pc' = [pc EXCEPT ![0] = "idle", ![cur'] = IF cur = 0 THEN "idle" ELSE @]
  BY DEF SyncLink, Born
<1>2. PICK m \in Link : m = cur'
  BY <1>1
<1>3. CASE cur # 0
  <2>1. m = cur /\ m \in Born
    BY <1>0, <1>1, <1>2, <1>3 DEF InOrder
  <2>2. \A l \in Link : (pc'[l] = "unborn") <=> (pc[l] = "unborn")
    BY <1>0, <1>1, <1>2, <1>3, <2>1 DEF Typed, TypeOK
  <2>3. Born' = Born
    BY <2>2 DEF Born
  <2> QED
    BY <1>0, <1>1, <1>2, <2>1, <2>3 DEF InOrder, Typed, TypeOK
<1>4. CASE cur = 0
  <2>1. m = Cardinality(Born) + 1 /\ m \notin Born
    BY <1>0, <1>1, <1>2, <1>4, NextUnborn
  <2>2. \A k \in 1..m : k \in Born \/ k = m
    <3>1. PICK n \in Nat : n = Cardinality(Born)
      BY <1>0, NextUnborn
    <3>2. 1..n \subseteq Born
      BY <1>0, <3>1, NextUnborn
    <3> QED
      BY <2>1, <3>1, <3>2
  <2>3. \A l \in Link : (pc'[l] = "unborn") <=> (pc[l] = "unborn" /\ l # m)
    BY <1>0, <1>1, <1>2, <1>4 DEF Typed, TypeOK
  <2>4. Born' = Born \cup {m}
    BY <2>3 DEF Born
  <2>5. \A l \in Born' : 1..l \subseteq Born'
    <3>1. ASSUME NEW l \in Born' PROVE 1..l \subseteq Born'
      <4>1. CASE l = m
        BY <2>2, <2>4, <4>1
      <4>2. CASE l \in Born
        BY <1>0, <2>4, <4>2 DEF InOrder
      <4> QED
        BY <2>4, <3>1, <4>1, <4>2
    <3> QED
      BY <3>1
  <2>6. closed' \cup ({cur'} \ {0}) \subseteq Born'
    BY <1>0, <1>1, <1>2, <2>4 DEF InOrder
  <2>7. m \notin closed
    BY <1>0, <2>1 DEF InOrder
  <2> QED
    BY <1>1, <1>2, <2>5, <2>6, <2>7 DEF InOrder
<1> QED
  BY <1>3, <1>4

\* The steps of a worker before it monitors keep the types.
LEMMA AttachTyped ==
    ASSUME Typed, NEW l \in Link,
           \/ WorkerEnds(l) \/ Connect(l) \/ Connected(l) \/ ObtainLease(l) \/ AttachFails(l)
           \/ Ready(l) \/ NeverReady(l) \/ Reconcile(l) \/ Register(l)
    PROVE  Typed'
<1>0. l \in Thread
  BY Threads
<1>u. UNCHANGED <<conf, closing, cur, closed, provider>>
  BY DEF WorkerEnds, Connect, Connected, ObtainLease, AttachFails, Ready, NeverReady, Reconcile,
     Register, linkVars
<1>1. CASE WorkerEnds(l) \/ Connect(l)
  BY <1>0, <1>1 DEF WorkerEnds, Connect, Goto, Typed, TypeOK, linkVars, workVars, execVars
<1>2. CASE Connected(l)
  BY <1>0, <1>2 DEF Connected, Goto, Typed, TypeOK, workVars, execVars
<1>3. CASE ObtainLease(l)
  <2>1. /\ want' \in [Thread -> Provider \cup Link \cup {0}]
        /\ pc' \in [Thread -> {"unborn", "idle", "ended", "connect", "lease", "ready", "reconcile",
                               "register", "check", "monitor", "slept", "renew", "withdraw", "shut",
                               "release", "sync"}]
    BY <1>0, <1>3 DEF ObtainLease, Goto, Typed, TypeOK
  <2>2. CASE UNCHANGED <<alive, lprov, used>> /\ token' = [token EXCEPT ![l] = lease[l]]
    <3>1. token' \in [Link -> Lease \cup {0}]
      BY <1>3, <2>2 DEF ObtainLease, Typed, TypeOK
    <3> QED
      BY <1>3, <2>1, <2>2, <3>1 DEF ObtainLease, Typed, TypeOK, linkVars
  <2>3. CASE Activate(conf) /\ token' = [token EXCEPT ![l] = used']
    <3>1. conf # NoProv
      BY <1>3 DEF ObtainLease
    <3>2. /\ used' \in 0..MaxLease /\ used' \in Lease /\ alive' \subseteq Lease
          /\ lprov' \in [Lease -> Provider \cup {NoProv}]
          /\ \A x \in alive' : lprov'[x] \in Provider
      BY <2>3, <3>1, GrantTyped
    <3>3. token' \in [Link -> Lease \cup {0}]
      BY <2>3, <3>2 DEF Typed, TypeOK
    <3> QED
      BY <1>3, <2>1, <3>2, <3>3 DEF ObtainLease, Typed, TypeOK, linkVars
  <2> QED
    BY <1>3, <2>2, <2>3 DEF ObtainLease
<1>4. CASE AttachFails(l)
  <2>1. /\ want' \in [Thread -> Provider \cup Link \cup {0}]
        /\ token' \in [Link -> Lease \cup {0}]
        /\ pc' \in [Thread -> {"unborn", "idle", "ended", "connect", "lease", "ready", "reconcile",
                               "register", "check", "monitor", "slept", "renew", "withdraw", "shut",
                               "release", "sync"}]
    BY <1>0, <1>4 DEF AttachFails, Retry, Leave, Goto, Typed, TypeOK
  <2>2. CASE UNCHANGED <<alive, lprov, used>>
    BY <1>4, <2>1, <2>2 DEF AttachFails, Typed, TypeOK, linkVars
  <2>3. CASE ~UNCHANGED <<alive, lprov, used>>
    <3>1. conf # NoProv /\ Activate(conf)
      BY <1>4, <2>3 DEF AttachFails
    <3>2. /\ used' \in 0..MaxLease /\ alive' \subseteq Lease
          /\ lprov' \in [Lease -> Provider \cup {NoProv}]
          /\ \A x \in alive' : lprov'[x] \in Provider
      BY <3>1, GrantTyped
    <3> QED
      BY <1>4, <2>1, <3>2 DEF AttachFails, Typed, TypeOK, linkVars
  <2> QED
    BY <2>2, <2>3
<1>5. CASE Ready(l)
  BY <1>0, <1>5 DEF Ready, Goto, Typed, TypeOK, workVars, execVars
<1>6. CASE NeverReady(l)
  <2>1. alive' \subseteq alive /\ notices' \subseteq Provider
    BY <1>6, RetiredTyped DEF NeverReady, Typed, TypeOK
  <2> QED
    BY <1>0, <1>6, <2>1 DEF NeverReady, Retry, Leave, Goto, Typed, TypeOK, linkVars
<1>7. CASE Reconcile(l)
  <2>1. reg' \in [Provider -> Link \cup {0}]
    BY <1>7 DEF Reconcile, Publish, Typed, TypeOK
  <2> QED
    BY <1>0, <1>7, <2>1 DEF Reconcile, Retry, Leave, Goto, Typed, TypeOK, linkVars, workVars, execVars
<1>8. CASE Register(l)
  BY <1>0, <1>8 DEF Register, Publish, Leave, Goto, Typed, TypeOK, linkVars, execVars
<1> QED
  BY <1>1, <1>2, <1>3, <1>4, <1>5, <1>6, <1>7, <1>8

\* The steps of monitor_link, teardown_link, the operator, the executor and the network
\* keep the types.
LEMMA OtherTyped ==
    ASSUME Typed,
           pc[0] \in {"withdraw", "shut", "release"} => want[0] \in Link,
           SyncLink => (cur' \in closed => closing),
           \/ \E l \in Link : MonitorCheck(l) \/ Monitor(l) \/ Renew(l) \/ SessionLost(l)
           \/ \E t \in Thread : TearWithdraw(t) \/ TearShut(t) \/ TearRelease(t)
           \/ \E c \in Provider \cup {NoProv} : SyncRoutes(c)
           \/ SyncRemove \/ SyncLink \/ Shutdown
           \/ \E x \in Lease : LeaseExpires(x) \/ LeaseRevoked(x)
           \/ \E p \in Provider : Notice(p)
    PROVE  Typed'
<1>0. 0 \in Thread /\ Link \subseteq Thread
  BY Threads
<1>1. ASSUME NEW l \in Link, MonitorCheck(l) \/ Monitor(l) \/ Renew(l) PROVE Typed'
  <2>1. /\ UNCHANGED <<conf, closing, linkVars, workVars, reg, execVars>>
        /\ pc' \in [Thread -> {"unborn", "idle", "ended", "connect", "lease", "ready", "reconcile",
                               "register", "check", "monitor", "slept", "renew", "withdraw", "shut",
                               "release", "sync"}]
    BY <1>0, <1>1 DEF MonitorCheck, Monitor, Renew, Goto, Typed, TypeOK
  <2> QED
    BY <2>1 DEF Typed, TypeOK, linkVars, workVars, execVars
<1>2. ASSUME NEW l \in Link, SessionLost(l) PROVE Typed'
  BY <1>2 DEF SessionLost, Typed, TypeOK, workVars, execVars
<1>3. ASSUME NEW t \in Thread, TearWithdraw(t) \/ TearShut(t) \/ TearRelease(t) PROVE Typed'
  <2>1. Torn(t) \in Link
    BY <1>3, Threads DEF Torn, TearWithdraw, TearShut, TearRelease, Thread
  <2>2. /\ UNCHANGED <<conf, closing, cur, closed, provider, orphan, lprov, used, token>>
        /\ pc' \in [Thread -> {"unborn", "idle", "ended", "connect", "lease", "ready", "reconcile",
                               "register", "check", "monitor", "slept", "renew", "withdraw", "shut",
                               "release", "sync"}]
        /\ want' \in [Thread -> Provider \cup Link \cup {0}]
    BY <1>3 DEF TearWithdraw, TearShut, TearRelease, Goto, Typed, TypeOK, linkVars, workVars,
       execVars
  <2>3. /\ reg' \in [Provider -> Link \cup {0}]
        /\ sess' \in [Link -> {"none", "live", "dead"}]
        /\ lease' \in [Link -> Lease \cup {0}]
        /\ alive' \subseteq alive /\ notices' \subseteq Provider
    BY <1>3, <2>1, RetiredTyped DEF TearWithdraw, TearShut, TearRelease, Typed, TypeOK, linkVars, execVars
  <2> QED
    BY <2>2, <2>3 DEF Typed, TypeOK
<1>4. ASSUME NEW c \in Provider \cup {NoProv}, SyncRoutes(c) PROVE Typed'
  <2>1. reg' \in [Provider -> Link \cup {0}]
    BY <1>4 DEF SyncRoutes, Typed, TypeOK
  <2> QED
    BY <1>0, <1>4, <2>1 DEF SyncRoutes, Goto, Typed, TypeOK, linkVars, workVars, execVars
<1>5. CASE SyncRemove
  <2>1. cur' \in Link \cup {0} /\ closed' \subseteq Link /\ (cur' \in closed' => closing')
    BY <1>5, Threads DEF SyncRemove, Typed, TypeOK
  <2>2. /\ UNCHANGED <<conf, closing, provider, sess, orphan, lease, token, reg, execVars>>
        /\ pc' \in [Thread -> {"unborn", "idle", "ended", "connect", "lease", "ready", "reconcile",
                               "register", "check", "monitor", "slept", "renew", "withdraw", "shut",
                               "release", "sync"}]
        /\ want' \in [Thread -> Provider \cup Link \cup {0}]
    BY <1>0, <1>5 DEF SyncRemove, Goto, Typed, TypeOK
  <2> QED
    BY <2>1, <2>2 DEF Typed, TypeOK, execVars
<1>6. CASE SyncLink
  <2> DEFINE new == Cardinality({k \in Link : pc[k] # "unborn"}) + 1
  <2>1. PICK l \in Link : /\ l = IF cur = 0 THEN new ELSE cur
                          /\ cur' = l
                          /\ provider' = [provider EXCEPT ![l] = conf]
                          /\ pc' = [pc EXCEPT ![0] = "idle", ![l] = IF cur = 0 THEN "idle" ELSE @]
    BY <1>6 DEF SyncLink
  <2> HIDE DEF new
  <2>2. pc' \in [Thread -> {"unborn", "idle", "ended", "connect", "lease", "ready", "reconcile",
                            "register", "check", "monitor", "slept", "renew", "withdraw", "shut",
                            "release", "sync"}]
    BY <1>0, <2>1 DEF Typed, TypeOK
  <2>3. reg' \in [Provider -> Link \cup {0}]
    BY <1>6 DEF SyncLink, Pruned, Typed, TypeOK
  <2>4. provider' \in [Link -> Provider \cup {NoProv}]
    BY <2>1 DEF Typed, TypeOK
  <2> QED
    BY <1>6, <2>1, <2>2, <2>3, <2>4 DEF SyncLink, Typed, TypeOK, workVars, execVars
<1>7. CASE Shutdown
  <2>1. closed' \subseteq Link /\ closing' = TRUE
    BY <1>7 DEF Shutdown, Typed, TypeOK
  <2> QED
    BY <1>0, <1>7, <2>1 DEF Shutdown, Goto, Typed, TypeOK, execVars
<1>8. ASSUME NEW x \in Lease, LeaseExpires(x) \/ LeaseRevoked(x) PROVE Typed'
  <2>1. alive' \subseteq alive /\ notices' \subseteq Provider
    BY <1>8, RetiredTyped DEF LeaseExpires, LeaseRevoked
  <2> QED
    BY <1>8, <2>1 DEF LeaseExpires, LeaseRevoked, Typed, TypeOK, linkVars, workVars
<1>9. ASSUME NEW p \in Provider, Notice(p) PROVE Typed'
  BY <1>9 DEF Notice, Typed, TypeOK, linkVars, workVars
<1> QED
  BY <1>1, <1>2, <1>3, <1>4, <1>5, <1>6, <1>7, <1>8, <1>9

\* Every step keeps the types.
LEMMA TypedInv ==
    ASSUME LinkInv, [Next]_vars
    PROVE  Typed'
<1>0. /\ Typed
      /\ pc[0] \in {"withdraw", "shut", "release"} => want[0] \in Link
      /\ SyncLink => (cur' \in closed => closing)
  BY OrderExtended DEF LinkInv, Typed
<1>1. CASE UNCHANGED vars
  BY <1>0, <1>1 DEF vars, Typed, TypeOK, linkVars, workVars, execVars
<1>2. 0 \in Thread /\ Link \subseteq Thread
  BY Threads
<1> QED
  BY <1>0, <1>1, <1>2, AttachTyped, OtherTyped DEF Next, Worker, Operator

\* A closed link stays closed, and the operator tears closed links down only.
LEMMA ClosedInv ==
    ASSUME LinkInv, [Next]_vars
    PROVE  /\ \A l \in Link : Closed(l) => Closed(l)'
           /\ pc'[0] \in {"withdraw", "shut", "release"} => want'[0] \in Link /\ Closed(want[0])'
<1>0. /\ Typed /\ 0 \in Thread /\ Link \subseteq Thread /\ 0 \notin Link
      /\ pc[0] \in {"withdraw", "shut", "release"} => want[0] \in Link /\ Closed(want[0])
  BY Threads DEF LinkInv, Typed
<1>1. ASSUME NEW l \in Link, Worker(l) \/ SessionLost(l)
      PROVE  /\ UNCHANGED <<closing, closed>>
             /\ pc'[0] = pc[0] /\ want'[0] = want[0]
  <2>1. 0 # l
    BY <1>0
  <2>2. CASE \/ WorkerEnds(l) \/ Connect(l) \/ Connected(l) \/ ObtainLease(l) \/ AttachFails(l)
             \/ Ready(l) \/ NeverReady(l) \/ Reconcile(l) \/ Register(l)
    BY <1>0, <2>1, <2>2 DEF WorkerEnds, Connect, Connected, ObtainLease, AttachFails, Ready,
       NeverReady, Reconcile, Register, Retry, Leave, Goto, linkVars, workVars, Typed, TypeOK
  <2>3. CASE MonitorCheck(l) \/ Monitor(l) \/ Renew(l) \/ SessionLost(l)
    BY <1>0, <2>1, <2>3 DEF MonitorCheck, Monitor, Renew, SessionLost, Goto, linkVars, workVars,
       Typed, TypeOK
  <2>4. CASE TearWithdraw(l) \/ TearShut(l) \/ TearRelease(l)
    BY <1>0, <2>1, <2>4 DEF TearWithdraw, TearShut, TearRelease, Goto, linkVars, workVars,
       Typed, TypeOK
  <2> QED
    BY <1>1, <2>2, <2>3, <2>4 DEF Worker
<1>2. CASE \/ UNCHANGED vars
           \/ \E x \in Lease : LeaseExpires(x) \/ LeaseRevoked(x)
           \/ \E p \in Provider : Notice(p)
  <2>1. UNCHANGED <<closing, closed, pc, want>>
    BY <1>2 DEF vars, LeaseExpires, LeaseRevoked, Notice, linkVars, workVars
  <2> QED
    BY <1>0, <2>1 DEF Closed
<1>3. CASE TearWithdraw(0) \/ TearShut(0) \/ TearRelease(0)
  BY <1>0, <1>3 DEF TearWithdraw, TearShut, TearRelease, Goto, linkVars, workVars, Closed,
     Typed, TypeOK
<1>4. CASE SyncRemove
  <2>1. CASE cur = 0
    <3>1. pc'[0] = "idle" /\ UNCHANGED <<closing, closed>>
      BY <1>0, <1>4, <2>1 DEF SyncRemove, Goto, Typed, TypeOK
    <3> QED
      BY <3>1 DEF Closed
  <2>2. CASE cur # 0
    <3>1. /\ want'[0] = cur /\ cur \in Link /\ closed' = closed \cup {cur} /\ closing' = closing
      BY <1>0, <1>4, <2>2 DEF SyncRemove, Typed, TypeOK
    <3> QED
      BY <3>1 DEF Closed
  <2> QED
    BY <2>1, <2>2
<1>5. CASE Shutdown
  <2>1. closing' = TRUE /\ want'[0] = cur /\ (pc'[0] = "withdraw" => cur \in Link)
        /\ pc'[0] \in {"idle", "withdraw"}
    BY <1>0, <1>5 DEF Shutdown, Goto, Typed, TypeOK
  <2> QED
    BY <2>1 DEF Closed
<1>6. CASE SyncLink \/ \E c \in Provider \cup {NoProv} : SyncRoutes(c)
  <2>1. pc'[0] \in {"idle", "sync"} /\ UNCHANGED <<closing, closed>>
    BY <1>0, <1>6 DEF SyncLink, SyncRoutes, Goto, linkVars, Typed, TypeOK
  <2> QED
    BY <2>1 DEF Closed
<1> QED
  BY <1>0, <1>1, <1>2, <1>3, <1>4, <1>5, <1>6 DEF Next, Operator, Closed

\* A step that is not the link's own takes registrations of it away, at most.
LEMMA OpenKept ==
    ASSUME NEW l \in Link, OpenLink(l),
           pc'[l] = pc[l], cur' = cur, provider'[l] = provider[l],
           sess'[l] = "none" => sess[l] = "none",
           \A p \in Provider : reg'[p] = l => /\ reg[p] = l
                                              /\ p \in stale => p \in stale'
    PROVE  OpenLink(l)'
  BY DEF OpenLink, OnlyStale

\* The steps of the link's own worker.
LEMMA OwnStep ==
    ASSUME LinkInv, NEW l \in Link, OpenLink(l), ~Closed(l), Worker(l)
    PROVE  OpenLink(l)'
<1>0. Typed /\ l \in Thread
  BY Threads DEF LinkInv, Typed
<1>1. CASE \/ WorkerEnds(l) \/ Connect(l) \/ ObtainLease(l) \/ AttachFails(l)
           \/ Ready(l) \/ NeverReady(l)
  <2>1. /\ UNCHANGED <<cur, provider, sess, reg, stale>>
        /\ pc'[l] \notin {"unborn", "shut", "register"} /\ pc[l] # "unborn"
    BY <1>0, <1>1 DEF WorkerEnds, Connect, ObtainLease, AttachFails, Ready,
       NeverReady, Retry, Goto, linkVars, history, Typed, TypeOK
  <2> QED
    BY <2>1 DEF OpenLink, OnlyStale
<1>2. CASE Connected(l)
  BY <1>0, <1>2 DEF Connected, Goto, history, OpenLink, OnlyStale, Typed, TypeOK
<1>3. CASE Reconcile(l)
  <2>1. /\ UNCHANGED <<cur, provider, sess>> /\ l = cur
        /\ \/ sess[l] # "live" /\ pc'[l] = "idle" /\ UNCHANGED <<reg, stale>>
           \/ sess[l] = "live" /\ pc'[l] = "register"
    BY <1>0, <1>3 DEF Reconcile, Retry, Goto, linkVars, OpenLink, Typed, TypeOK
  <2>2. \A p \in Provider : reg'[p] = l => p = provider[l] \/ p \in stale'
    BY <1>0, <1>3 DEF Reconcile, Publish, OpenLink, Typed, TypeOK
  <2> QED
    BY <2>1, <2>2 DEF OpenLink, OnlyStale
<1>4. CASE Register(l)
  <2>1. /\ pc'[l] = "check" /\ sess[l] # "none" /\ l = cur
        /\ UNCHANGED <<cur, provider, sess>>
    BY <1>0, <1>4 DEF Register, Goto, linkVars, OpenLink, Typed, TypeOK
  <2>2. \A p \in Provider : reg'[p] = l => p = provider[l] \/ p \in stale'
    BY <1>0, <1>4 DEF Register, Publish, OpenLink, Typed, TypeOK
  <2> QED
    BY <2>1, <2>2 DEF OpenLink, OnlyStale
<1>5. CASE MonitorCheck(l) \/ Monitor(l) \/ Renew(l)
  <2>1. /\ UNCHANGED <<cur, provider, sess, reg, stale>>
        /\ pc'[l] \notin {"unborn", "shut", "register"} /\ pc[l] # "unborn"
    BY <1>0, <1>5 DEF MonitorCheck, Monitor, Renew, Goto, linkVars, history, Typed, TypeOK
  <2> QED
    BY <2>1 DEF OpenLink, OnlyStale
<1>6. CASE TearWithdraw(l)
  <2>1. Torn(l) = l
    BY Threads DEF Torn
  <2>2. \A p \in Provider : reg'[p] = l => reg[p] = l /\ p # provider[l]
    BY <1>0, <1>6, <2>1, Threads DEF TearWithdraw, Typed, TypeOK
  <2>3. UNCHANGED <<cur, provider, sess, stale>> /\ pc'[l] = "shut" /\ pc[l] # "unborn"
    BY <1>0, <1>6 DEF TearWithdraw, Goto, linkVars, Typed, TypeOK
  <2> QED
    BY <2>2, <2>3 DEF OpenLink, OnlyStale
<1>7. CASE TearShut(l)
  <2>1. UNCHANGED <<cur, provider, reg, stale>> /\ pc'[l] = "release" /\ pc[l] = "shut"
    BY <1>0, <1>7 DEF TearShut, Goto, history, Typed, TypeOK
  <2> QED
    BY <2>1 DEF OpenLink, OnlyStale
<1>8. CASE TearRelease(l)
  <2>1. UNCHANGED <<cur, provider, sess, reg, stale>> /\ pc'[l] = "idle" /\ pc[l] = "release"
    BY <1>0, <1>8 DEF TearRelease, Goto, history, Typed, TypeOK
  <2> QED
    BY <2>1 DEF OpenLink, OnlyStale
<1> QED
  BY <1>1, <1>2, <1>3, <1>4, <1>5, <1>6, <1>7, <1>8 DEF Worker

\* The steps of other workers and of the network.
LEMMA OtherWorkers ==
    ASSUME LinkInv, NEW l \in Link, OpenLink(l), ~Closed(l),
           \/ \E k \in Link : (k # l /\ Worker(k)) \/ SessionLost(k)
           \/ \E x \in Lease : LeaseExpires(x) \/ LeaseRevoked(x)
           \/ \E p \in Provider : Notice(p)
    PROVE  OpenLink(l)'
<1>0. Typed /\ l \in Thread
  BY Threads DEF LinkInv, Typed
<1>1. ASSUME NEW k \in Link, SessionLost(k) PROVE OpenLink(l)'
  <2>1. /\ UNCHANGED <<pc, cur, provider, reg, stale>>
        /\ sess'[l] = "none" => sess[l] = "none"
    BY <1>0, <1>1 DEF SessionLost, history, Typed, TypeOK
  <2> QED
    BY <2>1, OpenKept
<1>2. ASSUME NEW x \in Lease, LeaseExpires(x) \/ LeaseRevoked(x) PROVE OpenLink(l)'
  BY <1>2, OpenKept DEF LeaseExpires, LeaseRevoked, linkVars, history
<1>3. ASSUME NEW p \in Provider, Notice(p) PROVE OpenLink(l)'
  <2>1. \A q \in Provider : reg'[q] = l => reg[q] = l
    BY <1>0, <1>3, Threads DEF Notice, Typed, TypeOK
  <2> QED
    BY <1>3, <2>1, OpenKept DEF Notice, linkVars
<1>4. ASSUME NEW k \in Link, k # l, Worker(k) PROVE OpenLink(l)'
  <2>0. k \in Thread
    BY Threads
  <2>1. CASE \/ WorkerEnds(k) \/ Connect(k) \/ Connected(k) \/ ObtainLease(k) \/ AttachFails(k)
             \/ Ready(k) \/ NeverReady(k)
    <3>1. UNCHANGED <<cur, provider, reg, stale>> /\ pc'[l] = pc[l] /\ sess'[l] = sess[l]
      BY <1>0, <1>4, <2>0, <2>1 DEF WorkerEnds, Connect, Connected, ObtainLease, AttachFails,
         Ready, NeverReady, Retry, Goto, linkVars, history, Typed, TypeOK
    <3> QED
      BY <3>1, OpenKept
  <2>2. CASE MonitorCheck(k) \/ Monitor(k) \/ Renew(k)
    <3>1. UNCHANGED <<cur, provider, reg, stale>> /\ pc'[l] = pc[l] /\ sess'[l] = sess[l]
      BY <1>0, <1>4, <2>0, <2>2 DEF MonitorCheck, Monitor, Renew, Goto, linkVars, history,
         Typed, TypeOK
    <3> QED
      BY <3>1, OpenKept
  <2>3. CASE Register(k) \/ Reconcile(k)
    <3>1. UNCHANGED <<cur, provider, sess>> /\ pc'[l] = pc[l]
      BY <1>0, <1>4, <2>0, <2>3 DEF Register, Reconcile, Retry, Goto, linkVars, Typed, TypeOK
    <3>2. UNCHANGED <<reg, stale>> \/ \E q : Publish(k, q)
      BY <2>3 DEF Register, Reconcile
    <3>3. ASSUME NEW q, Publish(k, q) PROVE OpenLink(l)'
      <4>1. \A p \in Provider : reg'[p] = l => reg[p] = l /\ p # q
        BY <1>0, <1>4, <3>3 DEF Publish, Typed, TypeOK
      <4>2. \A p \in Provider : p \in stale /\ p # q => p \in stale'
        BY <3>3 DEF Publish
      <4> QED
        BY <3>1, <4>1, <4>2, OpenKept
    <3> QED
      BY <3>1, <3>2, <3>3, OpenKept
  <2>4. CASE TearWithdraw(k) \/ TearShut(k) \/ TearRelease(k)
    <3>1. Torn(k) = k
      BY Threads DEF Torn
    <3>2. UNCHANGED <<cur, provider, stale>> /\ pc'[l] = pc[l] /\ sess'[l] = sess[l]
      BY <1>0, <1>4, <2>0, <2>4, <3>1 DEF TearWithdraw, TearShut, TearRelease, Goto, linkVars,
         history, Typed, TypeOK
    <3>3. \A p \in Provider : reg'[p] = l => reg[p] = l
      BY <1>0, <2>4, Threads DEF TearWithdraw, TearShut, TearRelease, Typed, TypeOK
    <3> QED
      BY <3>2, <3>3, OpenKept
  <2> QED
    BY <1>4, <2>1, <2>2, <2>3, <2>4 DEF Worker
<1> QED
  BY <1>1, <1>2, <1>3, <1>4

\* The steps of the operator: it tears down no open link, and an edit of the route of a
\* link prunes what the link registered beside it.
LEMMA OperatorStep ==
    ASSUME LinkInv, NEW l \in Link, OpenLink(l), ~Closed(l), Operator, ~Closed(l)'
    PROVE  OpenLink(l)'
<1>0. /\ Typed /\ 0 \in Thread /\ l \in Thread /\ l # 0
      /\ pc[0] \in {"withdraw", "shut", "release"} => want[0] \in Link /\ Closed(want[0])
  BY Threads DEF LinkInv, Typed
<1>1. ASSUME NEW c \in Provider \cup {NoProv}, SyncRoutes(c) PROVE OpenLink(l)'
  <2>1. UNCHANGED <<cur, provider, sess, stale>> /\ pc'[l] = pc[l]
    BY <1>0, <1>1 DEF SyncRoutes, Goto, linkVars, Typed, TypeOK
  <2>2. \A p \in Provider : reg'[p] = l => reg[p] = l
    BY <1>0, <1>1 DEF SyncRoutes
  <2> QED
    BY <2>1, <2>2, OpenKept
<1>2. CASE TearWithdraw(0) \/ TearShut(0) \/ TearRelease(0)
  <2>1. Torn(0) # l
    BY <1>0, <1>2 DEF Torn, TearWithdraw, TearShut, TearRelease
  <2>2. UNCHANGED <<cur, provider, stale>> /\ pc'[l] = pc[l] /\ sess'[l] = sess[l]
    BY <1>0, <1>2, <2>1 DEF TearWithdraw, TearShut, TearRelease, Goto, linkVars, history,
       Typed, TypeOK
  <2>3. \A p \in Provider : reg'[p] = l => reg[p] = l
    BY <1>0, <1>2 DEF TearWithdraw, TearShut, TearRelease, Typed, TypeOK
  <2> QED
    BY <2>2, <2>3, OpenKept
<1>3. CASE SyncRemove
  <2>1. UNCHANGED <<provider, sess, reg, stale>> /\ pc'[l] = pc[l]
    BY <1>0, <1>3 DEF SyncRemove, Goto, history, Typed, TypeOK
  <2>2. l # cur \/ cur' = cur
    BY <1>3 DEF SyncRemove, Closed
  <2> QED
    BY <2>1, <2>2 DEF OpenLink, OnlyStale
<1>4. CASE Shutdown
  BY <1>4 DEF Shutdown, Closed
<1>5. CASE SyncLink
  <2> DEFINE new == Cardinality({k \in Link : pc[k] # "unborn"}) + 1
  <2>1. PICK m \in Link : /\ m = IF cur = 0 THEN new ELSE cur
                          /\ cur' = m
                          /\ provider' = [provider EXCEPT ![m] = conf]
                          /\ pc' = [pc EXCEPT ![0] = "idle", ![m] = IF cur = 0 THEN "idle" ELSE @]
    BY <1>5 DEF SyncLink
  <2> HIDE DEF new
  <2>2. /\ \A p \in Provider : reg'[p] = l => reg[p] = l /\ p = conf
        /\ stale' = stale \cap {conf} /\ UNCHANGED sess
    BY <1>0, <1>5 DEF SyncLink, Pruned
  <2>3. cur = 0 => pc[l] = "unborn"
    BY <1>0 DEF OpenLink
  <2>4. CASE l = m
    <3>1. provider'[l] = conf /\ l = cur'
      BY <1>0, <2>1, <2>4 DEF Typed, TypeOK
    <3>2. pc'[l] = pc[l] \/ (pc'[l] = "idle" /\ cur = 0)
      BY <1>0, <2>1, <2>4 DEF Typed, TypeOK
    <3>3. pc'[l] = pc[l] => OpenLink(l)'
      BY <2>2, <3>1 DEF OpenLink, OnlyStale
    <3>4. cur = 0 => \A p \in Provider : reg'[p] # l
      BY <2>2, <2>3 DEF OpenLink
    <3>5. pc'[l] = "idle" /\ cur = 0 => OpenLink(l)'
      BY <3>1, <3>4 DEF OpenLink, OnlyStale
    <3> QED
      BY <3>2, <3>3, <3>5
  <2>5. CASE l # m
    <3>1. pc'[l] = pc[l] /\ provider'[l] = provider[l]
      BY <1>0, <2>1, <2>5 DEF Typed, TypeOK
    <3>2. pc[l] = "unborn"
      BY <2>1, <2>3, <2>5 DEF OpenLink
    <3>3. \A p \in Provider : reg'[p] # l
      BY <2>2, <3>2 DEF OpenLink
    <3> QED
      BY <3>1, <3>2, <3>3 DEF OpenLink, OnlyStale
  <2> QED
    BY <2>4, <2>5
<1> QED
  BY <1>1, <1>2, <1>3, <1>4, <1>5 DEF Operator

\* LinkInv is an invariant.
THEOREM LinkInvariance == Spec => []LinkInv
<1>1. Init => LinkInv
  <2> SUFFICES ASSUME Init PROVE LinkInv
    OBVIOUS
  <2>0. 1 \in Link /\ 0 \in Thread /\ Link \subseteq Thread /\ 0 \notin Link /\ 0 \in 0..MaxLease
    BY Threads, LinkAssumption DEF Link
  <2>1. TypeOK
    BY <2>0, LinkAssumption DEF Init, TypeOK
  <2>2. want \in [Thread -> Provider \cup Link \cup {0}] /\ used \in 0..MaxLease
    BY <2>0 DEF Init
  <2>3. pc[0] = "idle" /\ alive = {}
    BY <2>0 DEF Init
  <2>4. ASSUME NEW l \in Link PROVE OpenLink(l)
    BY <2>0 DEF Init, OpenLink, OnlyStale
  <2>5. InOrder
    <3>1. Born = {1}
      BY <2>0 DEF Init, Born
    <3> QED
      BY <3>1 DEF Init, InOrder
  <2> QED
    BY <2>1, <2>2, <2>3, <2>4, <2>5 DEF LinkInv
<1>2. LinkInv /\ [Next]_vars => LinkInv'
  <2> SUFFICES ASSUME LinkInv, [Next]_vars PROVE LinkInv'
    OBVIOUS
  <2>1. Typed'
    BY TypedInv
  <2>2. /\ \A l \in Link : Closed(l) => Closed(l)'
        /\ pc'[0] \in {"withdraw", "shut", "release"} => want'[0] \in Link /\ Closed(want[0])'
    BY ClosedInv
  <2>3. ASSUME NEW l \in Link, ~Closed(l)' PROVE OpenLink(l)'
    <3>1. ~Closed(l) /\ OpenLink(l)
      BY <2>2, <2>3 DEF LinkInv
    <3>2. CASE UNCHANGED vars
      BY <3>1, <3>2, OpenKept DEF vars, linkVars, history
    <3> QED
      BY <2>3, <3>1, <3>2, OwnStep, OtherWorkers, OperatorStep DEF Next
  <2>4. InOrder'
    BY OrderKept, OrderExtended
  <2> QED
    BY <2>1, <2>2, <2>3, <2>4 DEF LinkInv, Typed
<1> QED
  BY <1>1, <1>2, PTL DEF Spec

\* An open link without a session publishes nothing that its route did not lose, however
\* workers, operator, notices and failures interleave.
THEOREM FailClosedSafety == Spec => []FailClosed
<1>1. LinkInv => FailClosed
  BY DEF LinkInv, OpenLink, OnlyStale, FailClosed
<1> QED
  BY <1>1, LinkInvariance, PTL
=============================================================================
