-------------------------- MODULE TimerQueueProofs --------------------------
(***************************************************************************)
(* The reference counts of nvkms_ref_ptr, for any set of timers and        *)
(* pointers: whatever the DPC thread is doing, a count is the number of    *)
(* timers that have still to give their reference back, and one more while *)
(* the owner has its own.                                                  *)
(***************************************************************************)
EXTENDS TimerQueue, FiniteSetTheorems, SequenceTheorems, TLAPS

TimerType ==
  /\ live \subseteq Timers
  /\ ref \in [Timers -> RefPtrs \cup {None}]
  /\ at \in {"idle", "check", "put", "lock", "call", "proc", "delete", "wild"}
  /\ refcnt \in [RefPtrs -> Nat] /\ ptr \in [RefPtrs -> BOOLEAN]
  /\ dropping \in RefPtrs \cup {None}

\* The DPC thread works on a timer that exists, whose reference it gives back
\* once; an owner that is about to give its own back has cleared ptr.
DpcInv ==
  /\ at \notin {"idle", "wild"} => cur \in live
  /\ at \in {"put", "delete"} => ref[cur] # None
  /\ dropping # None => ~ptr[dropping]
  /\ IsFiniteSet(live)

CountInv == TimerType /\ DpcInv /\ RefCountExact

\* The owner's part of a count.
Owner(r) == IF ptr[r] \/ dropping = r THEN 1 ELSE 0

\* The holders of a pointer are some of the live timers.
LEMMA HoldersFinite ==
  ASSUME DpcInv, NEW r \in RefPtrs
  PROVE  IsFiniteSet(Holders(r)) /\ Cardinality(Holders(r)) \in Nat
<1>1. Holders(r) \subseteq live
  BY DEF Holders
<1> QED
  BY <1>1, FS_Subset, FS_CardinalityType DEF DpcInv

\* A step that changes neither who refers to a pointer nor its count keeps it exact.
LEMMA SameCounts ==
  ASSUME RefCountExact, \A r \in RefPtrs : Holders(r)' = Holders(r),
         \A r \in RefPtrs : refcnt'[r] = refcnt[r] /\ Owner(r)' = Owner(r)
  PROVE  RefCountExact'
BY DEF RefCountExact, Owner

\* A timer comes, or goes: one holder more, or one less.
LEMMA OneMore ==
  ASSUME NEW S, NEW t, IsFiniteSet(S), t \notin S
  PROVE  Cardinality(S \cup {t}) = Cardinality(S) + 1
BY FS_AddElement

LEMMA OneLess ==
  ASSUME NEW S, NEW t, IsFiniteSet(S), t \in S
  PROVE  Cardinality(S) = Cardinality(S \ {t}) + 1
<1>1. IsFiniteSet(S \ {t}) /\ (S \ {t}) \cup {t} = S
  BY FS_RemoveElement
<1> QED
  BY <1>1, OneMore

LEMMA TypeStep ==
  ASSUME TimerType, DpcInv, RefCountExact, [Next]_vars
  PROVE  TimerType'
<1> USE NoneAssumption DEF TimerType
<1>1. CASE UNCHANGED vars
  BY <1>1 DEF vars, timerVars, dpcVars, refVars
<1>2. CASE KmsEnter \/ KmsLeave
  BY <1>2 DEF KmsEnter, KmsLeave, timerVars, dpcVars, refVars
<1>3. CASE DropOwnerRef
  <2>1. dropping \in RefPtrs /\ refcnt[dropping] > 0
    BY <1>3, HoldersFinite DEF DropOwnerRef, RefCountExact
  <2>2. refcnt[dropping] - 1 \in Nat
    BY <2>1
  <2> QED
    BY <1>3, <2>2 DEF DropOwnerRef, timerVars, dpcVars
<1>4. ASSUME NEW r \in RefPtrs, AllocRefPtr(r) \/ FreeRefPtr(r) PROVE TimerType'
  <2>1. ptr' \in [RefPtrs -> BOOLEAN] /\ dropping' \in RefPtrs \cup {None}
    <3>1. \E b \in BOOLEAN : ptr' = [ptr EXCEPT ![r] = b]
      BY <1>4 DEF AllocRefPtr, FreeRefPtr
    <3> QED
      BY <1>4, <3>1 DEF AllocRefPtr, FreeRefPtr
  <2>2. refcnt' \in [RefPtrs -> Nat]
    BY <1>4 DEF AllocRefPtr, FreeRefPtr
  <2> QED
    BY <1>4, <2>1, <2>2 DEF AllocRefPtr, FreeRefPtr, timerVars, dpcVars
<1>5. ASSUME NEW t \in Timers, NEW r \in Payloads, NEW d \in Delays, AllocTimer(t, r, d) PROVE TimerType'
  <2>1. r \in RefPtrs \cup {None}
    BY DEF Payloads
  <2>2. ref' \in [Timers -> RefPtrs \cup {None}] /\ live' \subseteq Timers
    BY <1>5, <2>1 DEF AllocTimer
  <2>3. refcnt' \in [RefPtrs -> Nat]
    BY <1>5 DEF AllocTimer
  <2> QED
    BY <1>5, <2>2, <2>3 DEF AllocTimer, dpcVars
<1>6. ASSUME NEW t \in Timers, FreeTimer(t) PROVE TimerType'
  BY <1>6 DEF FreeTimer, Deleted, refVars
<1>7. CASE DpcTake
  BY <1>7 DEF DpcTake, refVars
<1>8. CASE DpcCheck
  BY <1>8 DEF DpcCheck, refVars
<1>9. CASE DpcPut
  <2>1. cur \in live /\ ref[cur] \in RefPtrs
    BY <1>9 DEF DpcPut, DpcInv
  <2>2. cur \in Holders(ref[cur])
    BY <1>9, <2>1 DEF DpcPut, Holders
  <2>3. Cardinality(Holders(ref[cur])) # 0
    BY <2>1, <2>2, HoldersFinite, FS_EmptySet
  <2>4. refcnt[ref[cur]] > 0
    BY <2>1, <2>3, HoldersFinite DEF RefCountExact
  <2>5. refcnt[ref[cur]] - 1 \in Nat
    BY <2>1, <2>4
  <2> QED
    BY <1>9, <2>5 DEF DpcPut, timerVars
<1>10. CASE DpcLock \/ DpcCall \/ DpcReturn \/ DpcDelete
  BY <1>10 DEF DpcLock, DpcCall, DpcReturn, DpcDelete, timerVars, refVars
<1>11. ASSUME NEW t \in Timers, TimerHook(t) PROVE TimerType'
  BY <1>11 DEF TimerHook, dpcVars, refVars
<1> QED
  BY <1>1, <1>2, <1>3, <1>4, <1>5, <1>6, <1>7, <1>8, <1>9, <1>10, <1>11 DEF Next, Kms, Dpc

LEMMA DpcStep ==
  ASSUME TimerType, DpcInv, [Next]_vars
  PROVE  DpcInv'
<1> USE NoneAssumption DEF TimerType, DpcInv
<1>1. CASE UNCHANGED vars
  BY <1>1 DEF vars, timerVars, dpcVars, refVars
<1>2. CASE KmsEnter \/ KmsLeave \/ DropOwnerRef
  BY <1>2 DEF KmsEnter, KmsLeave, DropOwnerRef, timerVars, dpcVars, refVars
<1>3. ASSUME NEW r \in RefPtrs, AllocRefPtr(r) \/ FreeRefPtr(r) PROVE DpcInv'
  BY <1>3 DEF AllocRefPtr, FreeRefPtr, InKms, timerVars, dpcVars
<1>4. ASSUME NEW t \in Timers, NEW r \in Payloads, NEW d \in Delays, AllocTimer(t, r, d) PROVE DpcInv'
  <2>1. IsFiniteSet(live')
    BY <1>4, FS_AddElement DEF AllocTimer
  <2>2. \A s \in live : ref'[s] = ref[s]
    BY <1>4 DEF AllocTimer
  <2> QED
    BY <1>4, <2>1, <2>2 DEF AllocTimer, dpcVars
<1>5. ASSUME NEW t \in Timers, FreeTimer(t) PROVE DpcInv'
  <2>1. IsFiniteSet(live')
    BY <1>5, FS_RemoveElement DEF FreeTimer, Deleted
  <2> QED
    BY <1>5, <2>1 DEF FreeTimer, Deleted, refVars
<1>6. CASE DpcTake \/ DpcCheck
  BY <1>6 DEF DpcTake, DpcCheck, refVars
<1>7. CASE DpcPut \/ DpcLock \/ DpcCall \/ DpcReturn
  BY <1>7 DEF DpcPut, DpcLock, DpcCall, DpcReturn, timerVars, refVars
<1>8. CASE DpcDelete
  <2>1. IsFiniteSet(live')
    BY <1>8, FS_RemoveElement DEF DpcDelete
  <2> QED
    BY <1>8, <2>1 DEF DpcDelete, refVars
<1>9. ASSUME NEW t \in Timers, TimerHook(t) PROVE DpcInv'
  BY <1>9 DEF TimerHook, dpcVars, refVars
<1> QED
  BY <1>1, <1>2, <1>3, <1>4, <1>5, <1>6, <1>7, <1>8, <1>9 DEF Next, Kms, Dpc

LEMMA CountStep ==
  ASSUME TimerType, DpcInv, RefCountExact, [Next]_vars
  PROVE  RefCountExact'
<1> USE NoneAssumption DEF TimerType
<1>1. CASE UNCHANGED vars
  BY <1>1, SameCounts DEF vars, timerVars, dpcVars, refVars, Holders, Owner
<1>2. CASE KmsEnter \/ KmsLeave
  BY <1>2, SameCounts DEF KmsEnter, KmsLeave, timerVars, dpcVars, refVars, Holders, Owner
<1>3. CASE DropOwnerRef
  <2>1. dropping \in RefPtrs /\ ~ptr[dropping]
    BY <1>3 DEF DropOwnerRef, DpcInv
  <2>2. /\ refcnt' = [refcnt EXCEPT ![dropping] = @ - 1] /\ ptr' = ptr
        /\ dropping' = None
    BY <1>3 DEF DropOwnerRef
  <2>3. \A r \in RefPtrs : Holders(r)' = Holders(r)
    BY <1>3 DEF DropOwnerRef, timerVars, dpcVars, Holders
  <2>4. ASSUME NEW r \in RefPtrs
        PROVE  refcnt'[r] = Cardinality(Holders(r)) + Owner(r)'
    <3>1. Cardinality(Holders(r)) \in Nat
      BY HoldersFinite
    <3>2. CASE r = dropping
      BY <2>1, <2>2, <3>1, <3>2 DEF RefCountExact, Owner
    <3>3. CASE r # dropping
      BY <2>1, <2>2, <3>1, <3>3 DEF RefCountExact, Owner
    <3> QED
      BY <3>2, <3>3
  <2> QED
    BY <2>3, <2>4 DEF RefCountExact, Owner
<1>4. ASSUME NEW s \in RefPtrs, AllocRefPtr(s) PROVE RefCountExact'
  <2>1. /\ refcnt[s] = 0 /\ refcnt' = [refcnt EXCEPT ![s] = 1]
        /\ ptr' = [ptr EXCEPT ![s] = TRUE] /\ UNCHANGED <<timerVars, dpcVars, dropping>>
    BY <1>4 DEF AllocRefPtr
  <2>2. \A r \in RefPtrs : Holders(r)' = Holders(r)
    BY <2>1 DEF timerVars, dpcVars, Holders
  <2>3. Cardinality(Holders(s)) = 0 /\ ~ptr[s] /\ dropping # s
    BY <2>1, HoldersFinite DEF RefCountExact
  <2>4. ASSUME NEW r \in RefPtrs
        PROVE  refcnt'[r] = Cardinality(Holders(r)) + Owner(r)'
    <3>1. CASE r = s
      BY <2>1, <2>3, <3>1 DEF Owner
    <3>2. CASE r # s
      BY <2>1, <3>2 DEF RefCountExact, Owner
    <3> QED
      BY <3>1, <3>2
  <2> QED
    BY <2>2, <2>4 DEF RefCountExact, Owner
<1>5. ASSUME NEW s \in RefPtrs, FreeRefPtr(s) PROVE RefCountExact'
  <2>1. /\ ptr[s] /\ dropping = None /\ refcnt' = refcnt
        /\ ptr' = [ptr EXCEPT ![s] = FALSE] /\ dropping' = s
        /\ UNCHANGED <<timerVars, dpcVars>>
    BY <1>5 DEF FreeRefPtr, InKms
  <2>2. \A r \in RefPtrs : Holders(r)' = Holders(r)
    BY <2>1 DEF timerVars, dpcVars, Holders
  <2>3. \A r \in RefPtrs : Owner(r)' = Owner(r)
    BY <2>1 DEF Owner
  <2> QED
    BY <2>1, <2>2, <2>3, SameCounts
<1>6. ASSUME NEW t \in Timers, NEW p \in Payloads, NEW d \in Delays, AllocTimer(t, p, d)
      PROVE  RefCountExact'
  <2>1. /\ t \notin live /\ live' = live \cup {t} /\ ref' = [ref EXCEPT ![t] = p]
        /\ refcnt' = [r \in RefPtrs |-> IF r = p THEN refcnt[r] + 1 ELSE refcnt[r]]
        /\ UNCHANGED <<dpcVars, ptr, dropping>>
    BY <1>6 DEF AllocTimer
  <2>2. t = cur => at \in {"idle", "wild"}
    BY <2>1 DEF DpcInv
  <2>3. ASSUME NEW r \in RefPtrs
        PROVE  refcnt'[r] = Cardinality(Holders(r)') + Owner(r)'
    <3>1. Cardinality(Holders(r)) \in Nat /\ IsFiniteSet(Holders(r)) /\ Owner(r)' = Owner(r)
      BY <2>1, HoldersFinite DEF Owner
    <3>2. t \notin Holders(r)
      BY <2>1 DEF Holders
    <3>3. CASE r = p
      <4>1. Holders(r)' = Holders(r) \cup {t}
        BY <2>1, <2>2, <3>3 DEF Holders, dpcVars
      <4> QED
        BY <2>1, <3>1, <3>2, <3>3, <4>1, OneMore DEF RefCountExact, Owner
    <3>4. CASE r # p
      <4>1. Holders(r)' = Holders(r)
        BY <2>1, <3>4 DEF Holders, dpcVars
      <4> QED
        BY <2>1, <3>1, <3>4, <4>1 DEF RefCountExact, Owner
    <3> QED
      BY <3>3, <3>4
  <2> QED
    BY <2>3 DEF RefCountExact, Owner
<1>7. ASSUME NEW t \in Timers, FreeTimer(t) PROVE RefCountExact'
  <2>1. /\ ref[t] = None /\ live' = live \ {t} /\ UNCHANGED <<ref, cur, refVars>>
        /\ at' = IF t = cur /\ at # "idle" THEN "wild" ELSE at
    BY <1>7 DEF FreeTimer, Deleted
  <2>2. \A r \in RefPtrs : Holders(r)' = Holders(r)
    BY <2>1 DEF Holders
  <2> QED
    BY <2>1, <2>2, SameCounts DEF refVars, Owner
<1>8. CASE DpcTake
  <2>1. /\ at = "idle" /\ at' \in {"check", "wild"} /\ UNCHANGED <<live, ref, refVars>>
    BY <1>8 DEF DpcTake
  <2>2. \A r \in RefPtrs : Holders(r)' = Holders(r)
    BY <2>1 DEF Holders
  <2> QED
    BY <2>1, <2>2, SameCounts DEF refVars, Owner
<1>9. CASE DpcCheck
  <2>1. /\ at = "check" /\ UNCHANGED <<live, ref, cur, refVars>>
    BY <1>9 DEF DpcCheck
  <2>2. at' \in {"idle", "put"} \/ (at' = "lock" /\ ref[cur] = None)
    BY <1>9 DEF DpcCheck
  <2>3. \A r \in RefPtrs : Holders(r)' = Holders(r)
    BY <2>1, <2>2 DEF Holders
  <2> QED
    BY <2>1, <2>3, SameCounts DEF refVars, Owner
<1>10. CASE DpcPut
  <2>1. /\ at = "put" /\ at' \in {"lock", "delete"}
        /\ refcnt' = [refcnt EXCEPT ![ref[cur]] = @ - 1]
        /\ UNCHANGED <<live, ref, cur, ptr, dropping>>
    BY <1>10 DEF DpcPut, timerVars
  <2>2. cur \in live /\ ref[cur] \in RefPtrs
    BY <2>1 DEF DpcInv
  <2>3. ASSUME NEW r \in RefPtrs
        PROVE  refcnt'[r] = Cardinality(Holders(r)') + Owner(r)'
    <3>1. IsFiniteSet(Holders(r)) /\ Owner(r)' = Owner(r)
      BY <2>1, HoldersFinite DEF Owner
    <3>2. CASE r = ref[cur]
      <4>1. cur \in Holders(r) /\ Holders(r)' = Holders(r) \ {cur}
        BY <2>1, <2>2, <3>2 DEF Holders
      <4>2. Cardinality(Holders(r)) = Cardinality(Holders(r) \ {cur}) + 1
        BY <3>1, <4>1, OneLess
      <4>3. Cardinality(Holders(r) \ {cur}) \in Nat
        BY <3>1, FS_RemoveElement, FS_CardinalityType
      <4>4. refcnt'[r] = refcnt[r] - 1
        BY <2>1, <3>2
      <4>5. refcnt[r] = Cardinality(Holders(r)) + Owner(r) /\ Owner(r) \in Nat
        BY DEF RefCountExact, Owner
      <4> QED
        BY <3>1, <4>1, <4>2, <4>3, <4>4, <4>5
    <3>3. CASE r # ref[cur]
      <4>1. Holders(r)' = Holders(r)
        BY <2>1, <3>3 DEF Holders
      <4>2. refcnt'[r] = refcnt[r]
        BY <2>1, <2>2, <3>3
      <4> QED
        BY <3>1, <4>1, <4>2 DEF RefCountExact, Owner
    <3> QED
      BY <3>2, <3>3
  <2> QED
    BY <2>3 DEF RefCountExact, Owner
<1>11. CASE DpcLock \/ DpcCall
  <2>1. /\ at \in {"lock", "call"} /\ at' \in {"call", "proc"} /\ UNCHANGED <<live, ref, cur, refVars>>
    BY <1>11 DEF DpcLock, DpcCall, timerVars
  <2>2. \A r \in RefPtrs : Holders(r)' = Holders(r)
    BY <2>1 DEF Holders
  <2> QED
    BY <2>1, <2>2, SameCounts DEF refVars, Owner
<1>12. CASE DpcReturn
  <2>1. /\ at = "proc" /\ UNCHANGED <<live, ref, cur, refVars>>
        /\ (at' = "idle" /\ ref[cur] = None) \/ at' = "delete"
    BY <1>12 DEF DpcReturn, timerVars
  <2>2. \A r \in RefPtrs : Holders(r)' = Holders(r)
    BY <2>1 DEF Holders
  <2> QED
    BY <2>1, <2>2, SameCounts DEF refVars, Owner
<1>13. CASE DpcDelete
  <2>1. /\ at = "delete" /\ at' = "idle" /\ live' = live \ {cur} /\ UNCHANGED <<ref, cur, refVars>>
    BY <1>13 DEF DpcDelete
  <2>2. \A r \in RefPtrs : Holders(r)' = Holders(r)
    BY <2>1 DEF Holders
  <2> QED
    BY <2>1, <2>2, SameCounts DEF refVars, Owner
<1>14. ASSUME NEW t \in Timers, TimerHook(t) PROVE RefCountExact'
  BY <1>14, SameCounts DEF TimerHook, dpcVars, refVars, Holders, Owner
<1> QED
  BY <1>1, <1>2, <1>3, <1>4, <1>5, <1>6, <1>7, <1>8, <1>9, <1>10, <1>11, <1>12, <1>13, <1>14
     DEF Next, Kms, Dpc

THEOREM CountInvariance == Spec => []CountInv
<1>1. Init => CountInv
  <2> SUFFICES ASSUME Init PROVE CountInv
    OBVIOUS
  <2>1. TimerType /\ DpcInv
    BY FS_EmptySet DEF Init, TimerType, DpcInv
  <2>2. \A r \in RefPtrs : Holders(r) = {} /\ refcnt[r] = 0 /\ ~ptr[r] /\ dropping # r
    BY NoneAssumption DEF Init, Holders
  <2>3. RefCountExact
    BY <2>2, FS_EmptySet DEF RefCountExact
  <2> QED
    BY <2>1, <2>3 DEF CountInv
<1>2. CountInv /\ [Next]_vars => CountInv'
  BY TypeStep, DpcStep, CountStep DEF CountInv
<1> QED
  BY <1>1, <1>2, PTL DEF Spec

\* A nvkms_ref_ptr is given back exactly when its owner and the last timer have
\* let go of it (nvkms_free_ref_ptr, DoDPC), in whatever order they do.
THEOREM RefCountCorrect == Spec => []RefCountExact
<1>1. CountInv => RefCountExact
  BY DEF CountInv
<1> QED
  BY <1>1, CountInvariance, PTL

-----------------------------------------------------------------------------
(* What is deleted is pending nowhere.                                     *)

\* The callbacks of a queue, and that none is there twice.
In(q, u) == \E i \in DOMAIN q : q[i] = u
Distinct(q) == \A i, j \in DOMAIN q : q[i] = q[j] => i = j

\* A live timer waits for its interrupt or has a deferred call to come, never
\* both (Schedule, which only the constructor calls); the DPC queue holds it at
\* most once, and only for a deferred call to come or because TimerHook put it
\* there; past its check, the DPC thread has a timer that waits for nothing.
PendInv ==
  /\ queue \in Seq(Timers) /\ Distinct(queue)
  /\ timerScheduled \in [Timers -> BOOLEAN] /\ dpcScheduled \in [Timers -> BOOLEAN]
  /\ cur \in Timers
  /\ \A t \in Timers : t \in armed <=> timerScheduled[t]
  /\ \A t \in armed : t \in live /\ ~dpcScheduled[t]
  /\ \A t \in Timers : dpcScheduled[t] => t \in live
  /\ \A t \in Timers : Queued(t) => dpcScheduled[t] \/ t \in hooked
  /\ at = "check" => (Queued(cur) => cur \in hooked)
  /\ at \in {"put", "lock", "call", "proc", "delete"} =>
       cur \notin armed /\ ~dpcScheduled[cur]

LEMMA TakenQueue ==
  ASSUME NEW q \in Seq(Timers), Distinct(q), q # <<>>
  PROVE  /\ Head(q) \in Timers /\ Tail(q) \in Seq(Timers) /\ Distinct(Tail(q))
         /\ \A u : In(Tail(q), u) <=> In(q, u) /\ u # Head(q)
<1>1. /\ Len(q) \in Nat /\ Len(q) > 0 /\ Head(q) = q[1] /\ Tail(q) \in Seq(Timers)
      /\ Len(Tail(q)) = Len(q) - 1 /\ DOMAIN q = 1 .. Len(q)
      /\ DOMAIN Tail(q) = 1 .. Len(q) - 1
      /\ \A i \in 1 .. Len(q) - 1 : Tail(q)[i] = q[i + 1]
  BY HeadTailProperties, EmptySeq, LenProperties
<1>2. Head(q) \in Timers
  BY <1>1, ElementOfSeq
<1>3. Distinct(Tail(q))
  BY <1>1 DEF Distinct
<1>4. ASSUME NEW u PROVE In(Tail(q), u) <=> In(q, u) /\ u # Head(q)
  <2>1. ASSUME In(Tail(q), u) PROVE In(q, u) /\ u # Head(q)
    <3>1. PICK i \in 1 .. Len(q) - 1 : q[i + 1] = u
      BY <1>1, <2>1 DEF In
    <3>2. i + 1 \in 1 .. Len(q) /\ 1 \in 1 .. Len(q) /\ i + 1 # 1
      BY <1>1
    <3> QED
      BY <1>1, <3>1, <3>2 DEF In, Distinct
  <2>2. ASSUME In(q, u), u # Head(q) PROVE In(Tail(q), u)
    <3>1. PICK i \in 1 .. Len(q) : q[i] = u
      BY <1>1, <2>2 DEF In
    <3>2. i - 1 \in 1 .. Len(q) - 1 /\ (i - 1) + 1 = i
      BY <1>1, <2>2, <3>1
    <3>3. Tail(q)[i - 1] = u
      BY <1>1, <3>1, <3>2
    <3> QED
      BY <1>1, <3>2, <3>3 DEF In
  <2> QED
    BY <2>1, <2>2
<1> QED
  BY <1>1, <1>2, <1>3, <1>4

LEMMA AddedQueue ==
  ASSUME queue \in Seq(Timers), Distinct(queue), NEW t \in Timers
  PROVE  /\ Add(t) \in Seq(Timers) /\ Distinct(Add(t))
         /\ \A u : In(Add(t), u) <=> Queued(u) \/ u = t
<1>1. CASE Queued(t)
  BY <1>1 DEF Add, In, Queued
<1>2. CASE ~Queued(t)
  <2> DEFINE n == Len(queue)
             q == Append(queue, t)
  <2>1. /\ n \in Nat /\ q \in Seq(Timers) /\ DOMAIN queue = 1 .. n /\ DOMAIN q = 1 .. n + 1
        /\ q[n + 1] = t /\ \A i \in 1 .. n : q[i] = queue[i]
    BY AppendProperties, LenProperties
  <2>2. \A i \in 1 .. n : queue[i] # t
    BY <1>2, <2>1 DEF Queued
  <2>3. 1 .. n + 1 = (1 .. n) \cup {n + 1}
    BY <2>1
  <2>4. Add(t) = q
    BY <1>2 DEF Add
  <2> HIDE DEF q, n
  <2>5. Distinct(q)
    BY <2>1, <2>2, <2>3 DEF Distinct
  <2>6. \A u : In(q, u) <=> Queued(u) \/ u = t
    BY <2>1, <2>3 DEF In, Queued
  <2> QED
    BY <2>1, <2>4, <2>5, <2>6
<1> QED
  BY <1>1, <1>2

LEMMA CancelledQueue ==
  ASSUME queue \in Seq(Timers), Distinct(queue), NEW t \in Timers
  PROVE  /\ Cancel(t) \in Seq(Timers) /\ Distinct(Cancel(t))
         /\ \A u : In(Cancel(t), u) <=> Queued(u) /\ u # t
<1>1. CASE ~Queued(t)
  BY <1>1 DEF Cancel, In, Queued
<1>2. CASE Queued(t)
  <2> DEFINE k == CHOOSE i \in DOMAIN queue : queue[i] = t
             n == Len(queue)
             q == RemoveAt(queue, k)
  <2>1. n \in Nat /\ DOMAIN queue = 1 .. n /\ k \in 1 .. n /\ queue[k] = t
    BY <1>2, LenProperties DEF Queued
  <2>2. Cancel(t) = q
    BY <1>2 DEF Cancel
  <2> HIDE DEF k
  <2>3. /\ q \in Seq(Timers) /\ Len(q) = n - 1
        /\ \A i \in 1 .. n - 1 : q[i] = IF i < k THEN queue[i] ELSE queue[i + 1]
    <3> DEFINE a == SubSeq(queue, 1, k - 1)
               b == SubSeq(queue, k + 1, n)
    <3>1. /\ a \in Seq(Timers) /\ Len(a) = k - 1
          /\ \A i \in 1 .. k - 1 : a[i] = queue[i]
      <4>1. \A i \in 1 .. k - 1 : queue[i] \in Timers
        BY <2>1, ElementOfSeq
      <4>2. \A i \in 1 .. k - 1 : a[i] = queue[1 + i - 1]
        BY <2>1, <4>1, SubSeqProperties
      <4> QED
        BY <2>1, <4>1, <4>2, SubSeqProperties
    <3>2. /\ b \in Seq(Timers) /\ Len(b) = n - k
          /\ \A i \in 1 .. n - k : b[i] = queue[i + k]
      <4>1. \A i \in k + 1 .. n : queue[i] \in Timers
        BY <2>1, ElementOfSeq
      <4>2. \A i \in 1 .. n - k : b[i] = queue[(k + 1) + i - 1]
        BY <2>1, <4>1, SubSeqProperties
      <4>3. \A i \in 1 .. n - k : (k + 1) + i - 1 = i + k
        BY <2>1
      <4>4. b \in Seq(Timers) /\ Len(b) = IF k + 1 <= n THEN n - (k + 1) + 1 ELSE 0
        BY <2>1, <4>1, SubSeqProperties
      <4>5. (k + 1 <= n => n - (k + 1) + 1 = n - k) /\ (~(k + 1 <= n) => 0 = n - k)
        <5> HIDE DEF n
        <5> QED
          BY <2>1
      <4> QED
        BY <4>2, <4>3, <4>4, <4>5
    <3>3. q = a \o b
      BY DEF RemoveAt
    <3> HIDE DEF a, b, q, n
    <3>4. /\ a \o b \in Seq(Timers) /\ Len(a \o b) = (k - 1) + (n - k)
          /\ \A i \in 1 .. n - 1 : (a \o b)[i] = IF i <= k - 1 THEN a[i] ELSE b[i - (k - 1)]
      <4>1. a \in Seq(Timers) /\ b \in Seq(Timers) /\ Len(a) = k - 1 /\ Len(b) = n - k
        BY <3>1, <3>2
      <4>2. (k - 1) + (n - k) = n - 1
        BY <2>1
      <4> QED
        BY ONLY <4>1, <4>2, ConcatProperties
    <3>5. \A i \in 1 .. n - 1 : (a \o b)[i] = IF i < k THEN queue[i] ELSE queue[i + 1]
      <4> TAKE i \in 1 .. n - 1
      <4>1. CASE i < k
        BY <2>1, <3>1, <3>4, <4>1
      <4>2. CASE ~(i < k)
        <5>1. i - (k - 1) \in 1 .. n - k /\ (i - (k - 1)) + k = i + 1
          BY <2>1, <4>2
        <5>2. b[i - (k - 1)] = queue[i + 1]
          BY <3>2, <5>1
        <5> QED
          BY <2>1, <3>4, <4>2, <5>2
      <4> QED
        BY <4>1, <4>2
    <3> QED
      BY <2>1, <3>3, <3>4, <3>5
  <2>4. DOMAIN q = 1 .. n - 1
    BY <2>1, <2>3, LenProperties
  <2> HIDE DEF q, n
  <2>5. Distinct(q)
    <3>1. SUFFICES ASSUME NEW i \in 1 .. n - 1, NEW j \in 1 .. n - 1, q[i] = q[j]
                   PROVE  i = j
      BY <2>4 DEF Distinct
    <3> DEFINE x == IF i < k THEN i ELSE i + 1
               y == IF j < k THEN j ELSE j + 1
    <3>2. x \in 1 .. n /\ y \in 1 .. n /\ queue[x] = q[i] /\ queue[y] = q[j]
      BY <2>1, <2>3
    <3>3. x = y
      <4> HIDE DEF x, y
      <4> QED
        BY <2>1, <3>1, <3>2 DEF Distinct
    <3> QED
      BY <2>1, <3>3
  <2>6. ASSUME NEW u PROVE In(q, u) <=> Queued(u) /\ u # t
    <3>1. ASSUME In(q, u) PROVE Queued(u) /\ u # t
      <4>1. PICK i \in 1 .. n - 1 : q[i] = u
        BY <2>4, <3>1 DEF In
      <4>2. \E j \in 1 .. n : j # k /\ queue[j] = u
        <5>1. CASE i < k
          BY <2>1, <2>3, <4>1, <5>1
        <5>2. CASE ~(i < k)
          <6>1. i + 1 \in 1 .. n /\ i + 1 # k /\ queue[i + 1] = u
            BY <2>1, <2>3, <4>1, <5>2
          <6> QED
            BY <6>1
        <5> QED
          BY <5>1, <5>2
      <4> QED
        BY <2>1, <4>2 DEF Queued, Distinct
    <3>2. ASSUME Queued(u), u # t PROVE In(q, u)
      <4>1. PICK j \in 1 .. n : queue[j] = u
        BY <2>1, <3>2 DEF Queued
      <4>2. CASE j < k
        <5>1. j \in 1 .. n - 1 /\ q[j] = u
          BY <2>1, <2>3, <4>1, <4>2
        <5> QED
          BY <2>4, <5>1 DEF In
      <4>3. CASE k < j
        <5>1. j - 1 \in 1 .. n - 1 /\ ~(j - 1 < k) /\ (j - 1) + 1 = j
          BY <2>1, <4>1, <4>3
        <5>2. q[j - 1] = u
          BY <2>3, <4>1, <5>1
        <5> QED
          BY <2>4, <5>1, <5>2 DEF In
      <4> QED
        BY <2>1, <3>2, <4>1, <4>2, <4>3
    <3> QED
      BY <3>1, <3>2
  <2> QED
    BY <2>2, <2>3, <2>5, <2>6
<1> QED
  BY <1>1, <1>2

\* What a step leaves as it is.
LEMMA PendSame ==
  ASSUME PendInv,
         UNCHANGED <<queue, cur, live, armed, timerScheduled, dpcScheduled, hooked>>,
         at' = at \/ at' \in {"idle", "wild"}
           \/ (at # "check" /\ at \in {"put", "lock", "call", "proc", "delete"}
                /\ at' \in {"put", "lock", "call", "proc", "delete"})
  PROVE  PendInv'
BY DEF PendInv, Queued

\* A timer is allocated: Schedule arms it or queues its deferred call.
LEMMA PendAlloc ==
  ASSUME TimerType, DpcInv, PendInv,
         NEW t \in Timers, NEW r \in Payloads, NEW d \in Delays, AllocTimer(t, r, d)
  PROVE  PendInv'
<1>1. /\ t \notin live /\ live' = live \cup {t}
      /\ UNCHANGED <<at, cur, hooked>>
      /\ dpcScheduled' = [dpcScheduled EXCEPT ![t] = d = "now"]
      /\ timerScheduled' = [timerScheduled EXCEPT ![t] = ~(d = "now")]
      /\ queue' = IF d = "now" THEN Add(t) ELSE queue
      /\ armed' = IF d = "now" THEN armed ELSE armed \cup {t}
  BY DEF AllocTimer, Schedule, dpcVars
<1>2. /\ queue' \in Seq(Timers) /\ Distinct(queue')
      /\ \A u : In(queue', u) => Queued(u) \/ (u = t /\ d = "now")
  <2>1. CASE d = "now"
    BY <1>1, <2>1, AddedQueue DEF PendInv
  <2>2. CASE d # "now"
    BY <1>1, <2>2 DEF PendInv, In, Queued
  <2> QED
    BY <2>1, <2>2
<1>3. t \notin armed /\ ~dpcScheduled[t] /\ (Queued(t) => t \in hooked)
  BY <1>1 DEF PendInv
<1>4. at \notin {"idle", "wild"} => t # cur
  BY <1>1 DEF DpcInv
<1>5. \A u : Queued(u)' <=> In(queue', u)
  BY DEF Queued, In
<1>6. \A u \in Timers \ {t} : /\ dpcScheduled'[u] = dpcScheduled[u]
                              /\ timerScheduled'[u] = timerScheduled[u]
                              /\ u \in armed' <=> u \in armed
  BY <1>1 DEF PendInv
<1>7. dpcScheduled'[t] <=> d = "now"
  BY <1>1 DEF PendInv
<1>8. timerScheduled'[t] <=> t \in armed'
  BY <1>1, <1>3 DEF PendInv
<1>9. /\ timerScheduled' \in [Timers -> BOOLEAN] /\ dpcScheduled' \in [Timers -> BOOLEAN]
      /\ cur' \in Timers
  BY <1>1 DEF PendInv
<1>10. \A u \in Timers : u \in armed' <=> timerScheduled'[u]
  BY <1>6, <1>8 DEF PendInv
<1>11. \A u \in armed' : u \in live' /\ ~dpcScheduled'[u]
  <2>1. \A u \in armed : u # t /\ u \in Timers /\ u \in live /\ ~dpcScheduled[u]
    BY <1>3 DEF PendInv, TimerType
  <2> QED
    BY <1>1, <1>6, <1>7, <2>1
<1>12. \A u \in Timers : dpcScheduled'[u] => u \in live'
  BY <1>1, <1>6 DEF PendInv
<1>13. \A u \in Timers : Queued(u)' => dpcScheduled'[u] \/ u \in hooked'
  BY <1>1, <1>2, <1>3, <1>5, <1>6, <1>7 DEF PendInv
<1>14. at' = "check" => (Queued(cur)' => cur' \in hooked')
  BY <1>1, <1>2, <1>4, <1>5 DEF PendInv
<1>15. at' \in {"put", "lock", "call", "proc", "delete"} => cur' \notin armed' /\ ~dpcScheduled'[cur']
  BY <1>1, <1>4, <1>6 DEF PendInv
<1> QED
  BY <1>2, <1>9, <1>10, <1>11, <1>12, <1>13, <1>14, <1>15 DEF PendInv, Queued

\* A timer is freed: Free takes it out of the list and of the queue it is in.
LEMMA PendFree ==
  ASSUME TimerType, PendInv, NEW t \in Timers, FreeTimer(t)
  PROVE  PendInv'
<1>1. /\ live' = live \ {t} /\ UNCHANGED <<cur, hooked>>
      /\ dpcScheduled' = [dpcScheduled EXCEPT ![t] = FALSE]
      /\ timerScheduled' = [timerScheduled EXCEPT ![t] = FALSE]
      /\ queue' = IF dpcScheduled[t] THEN Cancel(t) ELSE queue
      /\ armed' = IF timerScheduled[t] THEN armed \ {t} ELSE armed
      /\ at' = at \/ at' = "wild"
      /\ t = cur /\ at # "idle" => at' = "wild"
  BY DEF FreeTimer, Deleted
<1>2. /\ queue' \in Seq(Timers) /\ Distinct(queue')
      /\ \A u : In(queue', u) => Queued(u)
      /\ In(queue', t) => t \in hooked
  <2>1. CASE dpcScheduled[t]
    BY <1>1, <2>1, CancelledQueue DEF PendInv
  <2>2. CASE ~dpcScheduled[t]
    BY <1>1, <2>2 DEF PendInv, In, Queued
  <2> QED
    BY <2>1, <2>2
<1>3. armed' = armed \ {t}
  BY <1>1 DEF PendInv
<1>4. \A u : Queued(u)' <=> In(queue', u)
  BY DEF Queued, In
<1>5. \A u \in Timers \ {t} : /\ dpcScheduled'[u] = dpcScheduled[u]
                              /\ timerScheduled'[u] = timerScheduled[u]
  BY <1>1 DEF PendInv
<1>6. ~dpcScheduled'[t] /\ ~timerScheduled'[t]
  BY <1>1 DEF PendInv
<1>7. /\ timerScheduled' \in [Timers -> BOOLEAN] /\ dpcScheduled' \in [Timers -> BOOLEAN]
      /\ cur' \in Timers
  BY <1>1 DEF PendInv
<1>8. \A u \in Timers : u \in armed' <=> timerScheduled'[u]
  BY <1>3, <1>5, <1>6 DEF PendInv
<1>9. \A u \in armed' : u \in live' /\ ~dpcScheduled'[u]
  BY <1>1, <1>3, <1>5 DEF PendInv, TimerType
<1>10. \A u \in Timers : dpcScheduled'[u] => u \in live'
  BY <1>1, <1>5, <1>6 DEF PendInv
<1>11. \A u \in Timers : Queued(u)' => dpcScheduled'[u] \/ u \in hooked'
  BY <1>1, <1>2, <1>4, <1>5 DEF PendInv
<1>12. at' = "check" => (Queued(cur)' => cur' \in hooked')
  BY <1>1, <1>2, <1>4 DEF PendInv
<1>13. at' \in {"put", "lock", "call", "proc", "delete"} => cur' \notin armed' /\ ~dpcScheduled'[cur']
  BY <1>1, <1>3, <1>5 DEF PendInv
<1> QED
  BY <1>2, <1>7, <1>8, <1>9, <1>10, <1>11, <1>12, <1>13 DEF PendInv, Queued

\* The interrupt: armed gives way to a deferred call that is remembered in hooked.
LEMMA PendHook ==
  ASSUME TimerType, PendInv, NEW t \in Timers, TimerHook(t)
  PROVE  PendInv'
<1>1. /\ t \in armed /\ armed' = armed \ {t} /\ queue' = Add(t)
      /\ timerScheduled' = [timerScheduled EXCEPT ![t] = FALSE]
      /\ hooked' = hooked \cup {t}
      /\ UNCHANGED <<live, dpcScheduled, at, cur>>
  BY DEF TimerHook, PendInv, dpcVars
<1>2. /\ queue' \in Seq(Timers) /\ Distinct(queue')
      /\ \A u : In(queue', u) <=> Queued(u) \/ u = t
  BY <1>1, AddedQueue DEF PendInv
<1>3. \A u : Queued(u)' <=> Queued(u) \/ u = t
  BY <1>2 DEF Queued, In
<1>4. /\ timerScheduled' \in [Timers -> BOOLEAN] /\ ~timerScheduled'[t]
      /\ \A u \in Timers \ {t} : timerScheduled'[u] = timerScheduled[u]
  BY <1>1 DEF PendInv
<1> QED
  BY <1>1, <1>2, <1>3, <1>4 DEF PendInv

\* The DPC thread takes the first deferred call: the queue holds it no longer.
LEMMA PendTake ==
  ASSUME TimerType, PendInv, DpcTake
  PROVE  PendInv'
<1>1. /\ queue # <<>> /\ cur' = Head(queue) /\ queue' = Tail(queue)
      /\ hooked' = hooked \ {cur'} /\ at' \in {"check", "wild"}
      /\ UNCHANGED <<live, armed, timerScheduled, dpcScheduled>>
  BY DEF DpcTake
<1>2. /\ cur' \in Timers /\ queue' \in Seq(Timers) /\ Distinct(queue')
      /\ \A u : In(queue', u) <=> In(queue, u) /\ u # cur'
  BY <1>1, TakenQueue DEF PendInv
<1>3. \A u : Queued(u)' <=> Queued(u) /\ u # cur'
  BY <1>2 DEF Queued, In
<1>4. ~Queued(cur)'
  BY <1>2 DEF Queued, In
<1> QED
  BY <1>1, <1>2, <1>3, <1>4 DEF PendInv

\* DoDPC starts: its timer waits for nothing any more.
LEMMA PendCheck ==
  ASSUME TimerType, PendInv, DpcCheck
  PROVE  PendInv'
<1>1. /\ at = "check" /\ UNCHANGED <<live, armed, queue, cur, hooked, timerScheduled>>
      /\ \A u : Queued(u)' <=> Queued(u)
  BY DEF DpcCheck, Queued
<1>2. CASE ~dpcScheduled[cur]
  <2>1. at' = "idle" /\ dpcScheduled' = dpcScheduled
    BY <1>2 DEF DpcCheck
  <2> QED
    BY <1>1, <2>1, PendSame
<1>3. CASE dpcScheduled[cur]
  <2>1. dpcScheduled' = [dpcScheduled EXCEPT ![cur] = FALSE] /\ at' \in {"lock", "put"}
    BY <1>3 DEF DpcCheck
  <2>2. cur \notin armed
    BY <1>3 DEF PendInv
  <2>3. /\ dpcScheduled' \in [Timers -> BOOLEAN] /\ ~dpcScheduled'[cur]
        /\ \A u \in Timers \ {cur} : dpcScheduled'[u] = dpcScheduled[u]
    BY <2>1 DEF PendInv
  <2> QED
    BY <1>1, <2>1, <2>2, <2>3 DEF PendInv, TimerType
<1> QED
  BY <1>2, <1>3 DEF PendInv

LEMMA PendStep ==
  ASSUME TimerType, DpcInv, PendInv, [Next]_vars
  PROVE  PendInv'
<1>1. CASE UNCHANGED vars
  BY <1>1, PendSame DEF vars, timerVars, dpcVars
<1>2. CASE KmsEnter \/ KmsLeave \/ DropOwnerRef
  BY <1>2, PendSame DEF KmsEnter, KmsLeave, DropOwnerRef, timerVars, dpcVars
<1>3. ASSUME NEW r \in RefPtrs, AllocRefPtr(r) \/ FreeRefPtr(r) PROVE PendInv'
  BY <1>3, PendSame DEF AllocRefPtr, FreeRefPtr, timerVars, dpcVars
<1>4. CASE DpcPut \/ DpcLock \/ DpcCall \/ DpcReturn
  BY <1>4, PendSame DEF DpcPut, DpcLock, DpcCall, DpcReturn, timerVars, dpcVars
<1>5. CASE DpcDelete
  <2>1. /\ at = "delete" /\ at' = "idle" /\ live' = live \ {cur}
        /\ UNCHANGED <<armed, queue, cur, hooked, timerScheduled, dpcScheduled>>
    BY <1>5 DEF DpcDelete
  <2>2. cur \notin armed /\ ~dpcScheduled[cur]
    BY <2>1 DEF PendInv
  <2>3. \A u : Queued(u)' <=> Queued(u)
    BY <2>1 DEF Queued
  <2> QED
    BY <2>1, <2>2, <2>3 DEF PendInv
<1> QED
  BY <1>1, <1>2, <1>3, <1>4, <1>5, PendAlloc, PendFree, PendHook, PendTake, PendCheck
     DEF Next, Kms, Dpc

THEOREM PendInvariance == Spec => []PendInv
<1>1. Init => PendInv
  BY EmptySeq DEF Init, PendInv, Queued, Distinct
<1>2. CountInv /\ PendInv /\ [Next]_vars => PendInv'
  BY PendStep DEF CountInv
<1> QED
  BY <1>1, <1>2, CountInvariance, PTL DEF Spec

\* A timer that Free or DoDPC has deleted is in no timer list, and in the DPC
\* queue only if TimerHook has put it there.
THEOREM DeletedIsPendingNowhere == Spec => []NothingPendingWhenDeleted
<1>1. PendInv => NothingPendingWhenDeleted
  BY DEF PendInv, NothingPendingWhenDeleted
<1> QED
  BY <1>1, PendInvariance, PTL

=============================================================================
