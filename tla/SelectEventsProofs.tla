------------------------- MODULE SelectEventsProofs -------------------------
(***************************************************************************)
(* The handshake between nv_post_event and select() in SelectEvents, for   *)
(* any set of posters and waiters.  The flag is set without the mutex; a   *)
(* waiter that misses it is in the pool before it looks, so that the       *)
(* poster, who notifies after setting it, still reaches that waiter.       *)
(***************************************************************************)
EXTENDS SelectEvents, TLAPS

\* Whoever looked at the flag is in the pool; a notification that is under way
\* has its poster, who holds the mutex.
PoolInv ==
  /\ \A w \in Waiters : pc[w] \in {"exchange", "wait"} => w \in pool
  /\ targets # {} => \E p \in Posters : pc[p] = "notify"
  /\ targets \subseteq pool

\* Somebody is about to notify w.
Coming(w) == \E p \in Posters : pc[p] = "post" \/ (pc[p] = "notify" /\ w \in targets)

SleeperInv ==
  \A w \in Waiters : pending /\ pc[w] = "wait" /\ w \notin woken => Coming(w)

EventInv == TypeOK /\ PoolInv /\ SleeperInv

LEMMA TypeStep ==
  ASSUME TypeOK, [Next]_vars
  PROVE  TypeOK'
<1> USE DEF TypeOK, Go
<1>1. CASE UNCHANGED vars
  BY <1>1 DEF vars
<1>2. ASSUME NEW p \in Posters, PostDataless(p) \/ PostData(p) \/ PostStep(p) PROVE TypeOK'
  <2>1. CASE PostDataless(p)
    BY <2>1, ActorsAssumption DEF PostDataless
  <2>2. CASE PostData(p)
    BY <2>2, ActorsAssumption DEF PostData
  <2>3. CASE NotifyBegin(p)
    BY <2>3, ActorsAssumption DEF NotifyBegin
  <2>4. CASE NotifyEach(p)
    BY <2>4, ActorsAssumption DEF NotifyEach
  <2>5. CASE NotifyEnd(p)
    BY <2>5, ActorsAssumption DEF NotifyEnd
  <2> QED
    BY <1>2, <2>1, <2>2, <2>3, <2>4, <2>5 DEF PostStep
<1>3. ASSUME NEW w \in Waiters, SelectStep(w) \/ WakeUp(w) \/ TimeOut(w) PROVE TypeOK'
  <2>1. CASE SelectBegin(w)
    BY <2>1, ActorsAssumption DEF SelectBegin
  <2>2. CASE SelectAdd(w) \/ SelectFails(w)
    BY <2>2, ActorsAssumption DEF SelectAdd, SelectFails
  <2>3. CASE SelectExchange(w)
    <3>1. pending' \in BOOLEAN /\ owed' \in BOOLEAN /\ woken' \subseteq Waiters
      BY <2>3 DEF SelectExchange
    <3> QED
      BY <2>3, <3>1, ActorsAssumption DEF SelectExchange
  <2>4. CASE WakeUp(w) \/ TimeOut(w) \/ Deselect(w)
    BY <2>4, ActorsAssumption DEF WakeUp, TimeOut, Deselect
  <2> QED
    BY <1>3, <2>1, <2>2, <2>3, <2>4 DEF SelectStep
<1> QED
  BY <1>1, <1>2, <1>3 DEF Next

LEMMA PoolStep ==
  ASSUME TypeOK, PoolInv, [Next]_vars
  PROVE  PoolInv'
<1> USE DEF TypeOK, PoolInv, Go
<1>1. CASE UNCHANGED vars
  BY <1>1 DEF vars
<1>2. ASSUME NEW p \in Posters, PostDataless(p) \/ PostData(p) \/ PostStep(p) PROVE PoolInv'
  <2>1. CASE PostDataless(p) \/ PostData(p)
    BY <2>1, ActorsAssumption DEF PostDataless, PostData
  <2>2. CASE NotifyBegin(p)
    BY <2>2, ActorsAssumption DEF NotifyBegin
  <2>3. CASE NotifyEach(p)
    BY <2>3, ActorsAssumption DEF NotifyEach
  <2>4. CASE NotifyEnd(p)
    BY <2>4, ActorsAssumption DEF NotifyEnd
  <2> QED
    BY <1>2, <2>1, <2>2, <2>3, <2>4 DEF PostStep
<1>3. ASSUME NEW w \in Waiters, SelectStep(w) \/ WakeUp(w) \/ TimeOut(w) PROVE PoolInv'
  <2>1. CASE SelectBegin(w) \/ SelectAdd(w) \/ SelectFails(w)
    BY <2>1, ActorsAssumption DEF SelectBegin, SelectAdd, SelectFails
  <2>2. CASE SelectExchange(w)
    BY <2>2, ActorsAssumption DEF SelectExchange
  <2>3. CASE WakeUp(w) \/ TimeOut(w)
    BY <2>3, ActorsAssumption DEF WakeUp, TimeOut
  <2>4. CASE Deselect(w)
    <3>1. targets = {}
      BY <2>4, ActorsAssumption DEF Deselect
    <3> QED
      BY <2>4, <3>1, ActorsAssumption DEF Deselect
  <2> QED
    BY <1>3, <2>1, <2>2, <2>3, <2>4 DEF SelectStep
<1> QED
  BY <1>1, <1>2, <1>3 DEF Next

LEMMA SleeperStep ==
  ASSUME TypeOK, PoolInv, SleeperInv, [Next]_vars
  PROVE  SleeperInv'
<1> SUFFICES ASSUME NEW w \in Waiters, pending', pc'[w] = "wait", w \notin woken' PROVE Coming(w)'
  BY DEF SleeperInv
<1> USE DEF TypeOK, PoolInv, SleeperInv, Coming, Go
<1>1. CASE UNCHANGED vars
  BY <1>1 DEF vars
<1>2. ASSUME NEW p \in Posters, PostDataless(p) \/ PostData(p) \/ PostStep(p) PROVE Coming(w)'
  <2>1. CASE PostDataless(p) \/ PostData(p)
    <3>1. pc' = [pc EXCEPT ![p] = "post"]
      BY <2>1 DEF PostDataless, PostData
    <3>2. pc'[p] = "post"
      BY <3>1
    <3> QED
      BY <3>2
  <2>2. CASE NotifyBegin(p)
    <3>1. pc' = [pc EXCEPT ![p] = "notify"] /\ targets' = pool
      BY <2>2 DEF NotifyBegin
    <3>2. pc'[p] = "notify" /\ pc[w] = "wait"
      BY <3>1, ActorsAssumption
    <3> QED
      BY <3>1, <3>2
  <2>3. CASE NotifyEach(p)
    <3>1. PICK v \in targets : targets' = targets \ {v} /\ woken' = woken \cup {v}
      BY <2>3 DEF NotifyEach
    <3>2. pc' = pc /\ pending' = pending
      BY <2>3 DEF NotifyEach
    <3>3. w \notin woken /\ w # v
      BY <3>1
    <3>4. PICK q \in Posters : pc[q] = "post" \/ (pc[q] = "notify" /\ w \in targets)
      BY <3>2, <3>3
    <3> QED
      BY <3>1, <3>2, <3>3, <3>4
  <2>4. CASE NotifyEnd(p)
    BY <2>4, ActorsAssumption DEF NotifyEnd
  <2> QED
    BY <1>2, <2>1, <2>2, <2>3, <2>4 DEF PostStep
<1>3. ASSUME NEW v \in Waiters, SelectStep(v) \/ WakeUp(v) \/ TimeOut(v) PROVE Coming(w)'
  <2>1. CASE SelectBegin(v) \/ SelectAdd(v) \/ SelectFails(v)
    <3>1. \E to \in {"add", "exchange", "idle"} : pc' = [pc EXCEPT ![v] = to]
      BY <2>1 DEF SelectBegin, SelectAdd, SelectFails
    <3>2. UNCHANGED <<pending, targets, woken>>
      BY <2>1 DEF SelectBegin, SelectAdd, SelectFails
    <3>3. pc[w] = "wait" /\ \A p \in Posters : pc'[p] = pc[p]
      BY <3>1, ActorsAssumption
    <3> QED
      BY <3>2, <3>3
  <2>2. CASE SelectExchange(v)
    BY <2>2 DEF SelectExchange
  <2>3. CASE WakeUp(v) \/ TimeOut(v) \/ Deselect(v)
    <3>1. \E to \in {"deselect", "idle"} : pc' = [pc EXCEPT ![v] = to]
      BY <2>3 DEF WakeUp, TimeOut, Deselect
    <3>2. UNCHANGED <<pending, targets>> /\ woken' \in {woken, woken \ {v}}
      BY <2>3 DEF WakeUp, TimeOut, Deselect
    <3>3. pc[w] = "wait" /\ w # v /\ \A p \in Posters : pc'[p] = pc[p]
      BY <3>1, ActorsAssumption
    <3> QED
      BY <3>2, <3>3
  <2> QED
    BY <1>3, <2>1, <2>2, <2>3 DEF SelectStep
<1> QED
  BY <1>1, <1>2, <1>3 DEF Next

THEOREM EventInvariance == Spec => []EventInv
<1>1. Init => TypeOK /\ PoolInv /\ SleeperInv
  <2> SUFFICES ASSUME Init PROVE TypeOK /\ PoolInv /\ SleeperInv
    OBVIOUS
  <2>1. pending \in BOOLEAN /\ owed \in BOOLEAN /\ ~pending
    BY Zenon DEF Init
  <2> QED
    BY <2>1, ActorsAssumption DEF Init, TypeOK, PoolInv, SleeperInv
<1>2. TypeOK /\ PoolInv /\ SleeperInv /\ [Next]_vars => TypeOK' /\ PoolInv' /\ SleeperInv'
  BY TypeStep, PoolStep, SleeperStep
<1> QED
  BY <1>1, <1>2, PTL DEF Spec, EventInv

\* Nobody sleeps in select() beside a flag that is set, for any number of
\* posters and clients.
THEOREM NoSleeper == Spec => []NoSleeperBesideEvent
<1>1. EventInv => NoSleeperBesideEvent
  BY DEF EventInv, SleeperInv, Coming, NoSleeperBesideEvent, PostersDone
<1> QED
  BY <1>1, EventInvariance, PTL

\* A notification reaches no selectsync whose Deselect returned.
THEOREM OnlyRegistered == Spec => []OnlyRegisteredNotified
<1>1. EventInv => OnlyRegisteredNotified
  BY DEF EventInv, PoolInv, OnlyRegisteredNotified
<1> QED
  BY <1>1, EventInvariance, PTL

=============================================================================
