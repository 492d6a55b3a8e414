----------------------- MODULE NvHaikuKmsDeviceProofs -----------------------
(***************************************************************************)
(* The files of the modeset driver, for any set of them: Locker() makes    *)
(* the thread inside NVKMS the only one that can be about to make a        *)
(* callback, so that between calls fEventsAvailable tells what is queued.  *)
(***************************************************************************)
EXTENDS NvHaikuKmsDevice, TLAPS

\* A callback is made under Locker(), to a handle that has a client.
CallbackInv ==
  \A h \in Handles : callback[h] # Nobody =>
    locker = h /\ pc[h] \in {"ioctl", "close"} /\ client[callback[h]]

ClientInv == ClientsMatchHandles /\ \A h \in Handles : ~client[h] => queue[h] = 0

\* Who is in select() is in the pool; the flag follows the queue, but for a
\* callback that is under way.
SelectInv ==
  \A h \in Handles :
    /\ spc[h] # "idle" => pc[h] \in {"ready", "ioctl"} /\ inPool[h]
    /\ pc[h] \in {"alloc", "open"} => ~available[h]
    /\ client[h] /\ ~TellingAbout(h) => (available[h] <=> queue[h] > 0)

KmsInv == TypeOK /\ CallbackInv /\ ClientInv /\ SelectInv /\ NoSleeperBesideEvent

\* Inside NVKMS and outside a callback nobody is told anything.
LEMMA OnlyHolderTells ==
  ASSUME TypeOK, CallbackInv, NEW h \in Handles, locker = h \/ locker = Nobody, callback[h] = Nobody
  PROVE  \A g \in Handles : callback[g] = Nobody /\ ~TellingAbout(g)
BY NobodyAssumption DEF CallbackInv, TellingAbout, TypeOK

LEMMA TypeStep ==
  ASSUME TypeOK, [Next]_vars
  PROVE  TypeOK'
<1> USE DEF TypeOK, Go, userVars, selVars, kmsVars, InKms
<1>0. 0 \in 0 .. MaxEvents
  BY MaxEventsAssumption
<1>1. CASE UNCHANGED vars
  BY <1>1 DEF vars
<1>2. ASSUME NEW h \in Handles, OpenBegin(h) PROVE TypeOK'
  BY <1>2 DEF OpenBegin
<1>3. ASSUME NEW h \in Handles, OpenLock(h) \/ IoctlBegin(h) \/ FreeLock(h) PROVE TypeOK'
  <2>1. /\ locker' = h /\ UNCHANGED <<cookie, callback, selVars, kmsVars>> /\ pc[h] \notin {"open", "ioctl", "close"}
        /\ locker = Nobody /\ \E to \in {"open", "ioctl", "close"} : pc' = [pc EXCEPT ![h] = to]
    BY <1>3 DEF OpenLock, IoctlBegin, FreeLock
  <2>2. \A g \in Handles : locker' = g <=> pc'[g] \in {"open", "ioctl", "close"}
    BY <2>1, NobodyAssumption
  <2> QED
    BY <2>1, <2>2
<1>4. ASSUME NEW h \in Handles, OpenDone(h) PROVE TypeOK'
  <2>1. /\ locker = h /\ locker' = Nobody /\ UNCHANGED <<callback, selVars, queue>>
        /\ \E to \in {"ready", "free"} : pc' = [pc EXCEPT ![h] = to]
    BY <1>4 DEF OpenDone
  <2>2. \A g \in Handles : locker' = g <=> pc'[g] \in {"open", "ioctl", "close"}
    <3>1. \A g \in Handles \ {h} : pc[g] \notin {"open", "ioctl", "close"}
      BY <2>1
    <3>2. \A g \in Handles : pc'[g] \notin {"open", "ioctl", "close"}
      BY <2>1, <3>1
    <3> QED
      BY <2>1, <3>2, NobodyAssumption
  <2>3. client' \in [Handles -> BOOLEAN] /\ cookie' \in [Handles -> BOOLEAN]
    BY <1>4 DEF OpenDone
  <2>4. pc' \in [Handles -> {"none", "alloc", "open", "ready", "ioctl", "free", "close"}]
    BY <2>1
  <2> QED
    BY <2>1, <2>2, <2>3, <2>4
<1>5. ASSUME NEW h \in Handles, IoctlEnd(h) \/ FreeBegin(h) \/ FreeUnopened(h) PROVE TypeOK'
  BY <1>5, NobodyAssumption DEF IoctlEnd, FreeBegin, FreeUnopened
<1>6. ASSUME NEW h \in Handles, FreeDone(h) PROVE TypeOK'
  BY <1>0, <1>6, NobodyAssumption DEF FreeDone
<1>7. ASSUME NEW h \in Handles, KmsQueueEvent(h) PROVE TypeOK'
  <2>1. PICK g \in Handles : queue[g] < MaxEvents /\ queue' = [queue EXCEPT ![g] = @ + 1]
                             /\ callback' = [callback EXCEPT ![h] = g]
    BY <1>7 DEF KmsQueueEvent
  <2>2. queue[g] + 1 \in 0 .. MaxEvents
    BY <2>1, MaxEventsAssumption
  <2> QED
    BY <1>7, <2>1, <2>2 DEF KmsQueueEvent
<1>8. ASSUME NEW h \in Handles, KmsNextEvent(h) PROVE TypeOK'
  <2>1. queue[h] - 1 \in 0 .. MaxEvents
    BY <1>8, MaxEventsAssumption DEF KmsNextEvent
  <2> QED
    BY <1>8, <2>1 DEF KmsNextEvent
<1>9. ASSUME NEW h \in Handles, EventQueueChanged(h) PROVE TypeOK'
  <2>1. available' \in [Handles -> BOOLEAN]
    BY <1>9 DEF EventQueueChanged
  <2>2. woken' \in [Handles -> BOOLEAN]
    BY <1>9 DEF EventQueueChanged
  <2> QED
    BY <1>9, <2>1, <2>2 DEF EventQueueChanged
<1>10. ASSUME NEW h \in Handles, SelectAdd(h) \/ Deselect(h) PROVE TypeOK'
  BY <1>10 DEF SelectAdd, Deselect
<1>11. ASSUME NEW h \in Handles, SelectCheck(h) PROVE TypeOK'
  <2>1. woken' \in [Handles -> BOOLEAN]
    BY <1>11 DEF SelectCheck
  <2> QED
    BY <1>11, <2>1 DEF SelectCheck
<1> QED
  BY <1>1, <1>2, <1>3, <1>4, <1>5, <1>6, <1>7, <1>8, <1>9, <1>10, <1>11 DEF Next, Proceed

\* What one handle does leaves the clients of the others as they were.
LEMMA OneClient ==
  ASSUME ClientInv, NEW h \in Handles,
         \A g \in Handles \ {h} : /\ pc'[g] = pc[g] /\ client'[g] = client[g]
                                 /\ cookie'[g] = cookie[g] /\ queue'[g] = queue[g],
         client'[h] = cookie'[h],
         pc'[h] \in {"none", "alloc", "open"} => ~client'[h],
         pc'[h] \in {"ready", "ioctl", "close"} => client'[h],
         ~client'[h] => queue'[h] = 0
  PROVE  ClientInv'
<1> SUFFICES ASSUME NEW g \in Handles
             PROVE  /\ client'[g] = cookie'[g]
                    /\ pc'[g] \in {"none", "alloc", "open"} => ~client'[g]
                    /\ pc'[g] \in {"ready", "ioctl", "close"} => client'[g]
                    /\ ~client'[g] => queue'[g] = 0
  BY DEF ClientInv, ClientsMatchHandles
<1>1. CASE g = h
  BY <1>1
<1>2. CASE g # h
  BY <1>2 DEF ClientInv, ClientsMatchHandles
<1> QED
  BY <1>1, <1>2

\* Callbacks and clients: what the handles and NVKMS know of each other.
LEMMA ClientStep ==
  ASSUME TypeOK, CallbackInv, ClientInv, [Next]_vars
  PROVE  CallbackInv' /\ ClientInv'
<1> USE DEF TypeOK, CallbackInv, ClientInv, ClientsMatchHandles, Go, userVars, selVars, kmsVars, InKms
<1>1. CASE UNCHANGED vars
  BY <1>1 DEF vars
<1>2. ASSUME NEW h \in Handles, OpenBegin(h) \/ OpenLock(h) \/ FreeBegin(h) \/ FreeUnopened(h)
      PROVE  CallbackInv' /\ ClientInv'
  <2>1. UNCHANGED <<cookie, callback, client, queue>>
    BY <1>2 DEF OpenBegin, OpenLock, FreeBegin, FreeUnopened
  <2>2. /\ locker' = locker \/ locker = Nobody
        /\ \A g \in Handles \ {h} : pc'[g] = pc[g]
    BY <1>2 DEF OpenBegin, OpenLock, FreeBegin, FreeUnopened
  <2>3. \/ pc'[h] \in {"alloc", "open", "none"} /\ ~client[h]
        \/ pc'[h] = "free" /\ pc[h] = "ready"
    BY <1>2 DEF OpenBegin, OpenLock, FreeBegin, FreeUnopened
  <2>4. pc[h] \notin {"ioctl", "close"}
    BY <1>2 DEF OpenBegin, OpenLock, FreeBegin, FreeUnopened
  <2>5. CallbackInv'
    BY <2>1, <2>2, <2>4, NobodyAssumption
  <2>6. ClientInv'
    BY <2>1, <2>2, <2>3
  <2> QED
    BY <2>5, <2>6
<1>3. ASSUME NEW h \in Handles, OpenDone(h) PROVE CallbackInv' /\ ClientInv'
  <2>1. locker = h /\ pc[h] = "open"
    BY <1>3 DEF OpenDone
  <2>2. \A g \in Handles : callback'[g] = Nobody
    BY <1>3, <2>1, NobodyAssumption DEF OpenDone
  <2>3. /\ queue' = queue
        /\ \A g \in Handles \ {h} : /\ pc'[g] = pc[g] /\ client'[g] = client[g]
                                    /\ cookie'[g] = cookie[g]
    BY <1>3 DEF OpenDone
  <2>4. \/ pc'[h] = "ready" /\ client'[h] = TRUE /\ cookie'[h] = TRUE
        \/ pc'[h] = "free" /\ client'[h] = client[h] /\ cookie'[h] = cookie[h]
    BY <1>3 DEF OpenDone
  <2>5. ClientInv'
    <3>1. /\ client'[h] = cookie'[h]
          /\ pc'[h] \in {"none", "alloc", "open"} => ~client'[h]
          /\ pc'[h] \in {"ready", "ioctl", "close"} => client'[h]
          /\ ~client'[h] => queue'[h] = 0
      BY <2>1, <2>3, <2>4
    <3> QED
      BY ONLY ClientInv, h \in Handles, <2>3, <3>1, OneClient
  <2> QED
    BY <2>2, <2>5
<1>4. ASSUME NEW h \in Handles, IoctlBegin(h) \/ IoctlEnd(h) \/ FreeLock(h) PROVE CallbackInv' /\ ClientInv'
  <2>1. UNCHANGED <<cookie, callback, client, queue>>
    BY <1>4 DEF IoctlBegin, IoctlEnd, FreeLock
  <2>2. ClientInv'
    <3>1. /\ pc'[h] \in {"ioctl", "ready", "close"} /\ pc[h] \in {"ready", "ioctl", "free"}
          /\ pc[h] = "free" => cookie[h]
          /\ \A g \in Handles \ {h} : pc'[g] = pc[g]
      BY <1>4 DEF IoctlBegin, IoctlEnd, FreeLock
    <3> QED
      BY <2>1, <3>1
  <2>3. CASE IoctlBegin(h) \/ FreeLock(h)
    <3>1. locker = Nobody
      BY <2>3 DEF IoctlBegin, FreeLock
    <3>2. \A g \in Handles : callback[g] = Nobody
      BY <3>1, NobodyAssumption
    <3> QED
      BY <2>1, <2>2, <3>2
  <2>4. CASE IoctlEnd(h)
    <3>1. locker = h /\ callback[h] = Nobody
      BY <2>4 DEF IoctlEnd
    <3>2. \A g \in Handles : callback[g] = Nobody
      BY <3>1, OnlyHolderTells
    <3> QED
      BY <2>1, <2>2, <3>2
  <2> QED
    BY <1>4, <2>3, <2>4
<1>5. ASSUME NEW h \in Handles, FreeDone(h) PROVE CallbackInv' /\ ClientInv'
  <2>1. \A g \in Handles : callback[g] = Nobody
    BY <1>5, OnlyHolderTells DEF FreeDone
  <2>2. callback' = callback
    BY <1>5 DEF FreeDone
  <2>3. /\ pc'[h] = "none" /\ client'[h] = FALSE /\ cookie'[h] = FALSE /\ queue'[h] = 0
        /\ \A g \in Handles \ {h} : /\ pc'[g] = pc[g] /\ client'[g] = client[g]
                                    /\ cookie'[g] = cookie[g] /\ queue'[g] = queue[g]
    BY <1>5 DEF FreeDone
  <2>4. ClientInv'
    <3>1. /\ client'[h] = cookie'[h]
          /\ pc'[h] \in {"none", "alloc", "open"} => ~client'[h]
          /\ pc'[h] \in {"ready", "ioctl", "close"} => client'[h]
          /\ ~client'[h] => queue'[h] = 0
      BY ONLY <2>3
    <3> QED
      BY ONLY ClientInv, h \in Handles, <2>3, <3>1, OneClient
  <2> QED
    BY <2>1, <2>2, <2>4
<1>6. ASSUME NEW h \in Handles, KmsQueueEvent(h) PROVE CallbackInv' /\ ClientInv'
  BY <1>6 DEF KmsQueueEvent
<1>7. ASSUME NEW h \in Handles, KmsNextEvent(h) PROVE CallbackInv' /\ ClientInv'
  <2>1. client[h] /\ locker = h
    BY <1>7 DEF KmsNextEvent
  <2>2. /\ callback'[h] \in {h, Nobody} /\ \A g \in Handles \ {h} : callback'[g] = callback[g] /\ queue'[g] = queue[g]
    BY <1>7 DEF KmsNextEvent
  <2>3. UNCHANGED <<pc, locker, cookie, client>>
    BY <1>7 DEF KmsNextEvent
  <2>4. pc[h] = "ioctl"
    BY <1>7 DEF KmsNextEvent
  <2> QED
    BY <2>1, <2>2, <2>3, <2>4
<1>8. ASSUME NEW h \in Handles, EventQueueChanged(h) PROVE CallbackInv' /\ ClientInv'
  BY <1>8 DEF EventQueueChanged
<1>9. ASSUME NEW h \in Handles, SelectAdd(h) \/ SelectCheck(h) \/ Deselect(h) PROVE CallbackInv' /\ ClientInv'
  BY <1>9 DEF SelectAdd, SelectCheck, Deselect
<1> QED
  BY <1>1, <1>2, <1>3, <1>4, <1>5, <1>6, <1>7, <1>8, <1>9 DEF Next, Proceed

LEMMA SelectStep ==
  ASSUME TypeOK, CallbackInv, ClientInv, SelectInv, NoSleeperBesideEvent, [Next]_vars
  PROVE  SelectInv' /\ NoSleeperBesideEvent'
<1> USE DEF TypeOK, ClientInv, ClientsMatchHandles, SelectInv, NoSleeperBesideEvent, TellingAbout,
            Go, userVars, selVars, kmsVars, InKms
<1>1. CASE UNCHANGED vars
  BY <1>1 DEF vars
<1>2. ASSUME NEW h \in Handles, OpenBegin(h) \/ OpenLock(h) \/ FreeBegin(h) \/ FreeUnopened(h)
      PROVE  SelectInv' /\ NoSleeperBesideEvent'
  BY <1>2 DEF OpenBegin, OpenLock, FreeBegin, FreeUnopened
<1>3. ASSUME NEW h \in Handles, OpenDone(h) PROVE SelectInv' /\ NoSleeperBesideEvent'
  BY <1>3 DEF OpenDone
<1>4. ASSUME NEW h \in Handles, IoctlBegin(h) \/ IoctlEnd(h) \/ FreeLock(h)
      PROVE  SelectInv' /\ NoSleeperBesideEvent'
  BY <1>4 DEF IoctlBegin, IoctlEnd, FreeLock
<1>5. ASSUME NEW h \in Handles, FreeDone(h) PROVE SelectInv' /\ NoSleeperBesideEvent'
  BY <1>5 DEF FreeDone
<1>6. ASSUME NEW h \in Handles, KmsQueueEvent(h) PROVE SelectInv' /\ NoSleeperBesideEvent'
  <2>1. \A g \in Handles : ~TellingAbout(g)
    BY <1>6, OnlyHolderTells DEF KmsQueueEvent
  <2> QED
    BY <1>6, <2>1 DEF KmsQueueEvent
<1>7. ASSUME NEW h \in Handles, KmsNextEvent(h) PROVE SelectInv' /\ NoSleeperBesideEvent'
  <2>1. \A g \in Handles : ~TellingAbout(g) /\ callback[g] = Nobody
    BY <1>7, OnlyHolderTells DEF KmsNextEvent
  <2>2. client[h] /\ available[h] /\ queue[h] > 0
    BY <1>7, <2>1 DEF KmsNextEvent
  <2>3. CASE queue[h] = 1
    <3>1. TellingAbout(h)'
      BY <1>7, <2>3 DEF KmsNextEvent
    <3>2. \A g \in Handles \ {h} : ~TellingAbout(g)' /\ queue'[g] = queue[g]
      BY <1>7, <2>1, <2>3, NobodyAssumption DEF KmsNextEvent
    <3>3. UNCHANGED <<pc, spc, inPool, available, woken, client>>
      BY <1>7 DEF KmsNextEvent
    <3> HIDE DEF TellingAbout
    <3> QED
      BY <2>1, <3>1, <3>2, <3>3
  <2>4. CASE queue[h] # 1
    <3>1. queue'[h] > 0 /\ \A g \in Handles \ {h} : queue'[g] = queue[g]
      BY <1>7, <2>2, <2>4, MaxEventsAssumption DEF KmsNextEvent
    <3>2. \A g \in Handles : ~TellingAbout(g)'
      BY <1>7, <2>1, <2>4, NobodyAssumption DEF KmsNextEvent
    <3>3. UNCHANGED <<pc, spc, inPool, available, woken, client>>
      BY <1>7 DEF KmsNextEvent
    <3>4. spc[h] = "wait" => woken[h]
      BY <2>1, <2>2
    <3> HIDE DEF TellingAbout
    <3> QED
      BY <2>1, <2>2, <3>1, <3>2, <3>3, <3>4
  <2> QED
    BY <2>3, <2>4
<1>8. ASSUME NEW h \in Handles, EventQueueChanged(h) PROVE SelectInv' /\ NoSleeperBesideEvent'
  <2>1. PICK g \in Handles : g = callback[h] /\ client[g] /\ locker = h
    BY <1>8 DEF EventQueueChanged, CallbackInv
  <2>2. /\ available' = [available EXCEPT ![g] = queue[g] > 0]
        /\ woken' = [woken EXCEPT ![g] = @ \/ (queue[g] > 0 /\ inPool[g])]
        /\ UNCHANGED <<pc, spc, inPool, queue, client>>
    BY <1>8, <2>1 DEF EventQueueChanged
  <2>3. \A f \in Handles \ {g} : ~TellingAbout(f)
    BY <2>1, NobodyAssumption DEF CallbackInv
  <2>4. /\ available'[g] = (queue[g] > 0)
        /\ woken'[g] = (woken[g] \/ (queue[g] > 0 /\ inPool[g]))
        /\ \A f \in Handles \ {g} : available'[f] = available[f] /\ woken'[f] = woken[f]
    <3>1. available \in [Handles -> BOOLEAN] /\ woken \in [Handles -> BOOLEAN]
      OBVIOUS
    <3> HIDE DEF TypeOK, ClientInv, ClientsMatchHandles, SelectInv, NoSleeperBesideEvent, TellingAbout
    <3> QED
      BY <2>2, <3>1, Zenon
  <2>5. pc[g] \notin {"alloc", "open"}
    BY <2>1
  <2> HIDE DEF TellingAbout
  <2>6. ASSUME NEW f \in Handles
        PROVE  /\ spc[f] # "idle" => pc[f] \in {"ready", "ioctl"} /\ inPool[f]
               /\ pc[f] \in {"alloc", "open"} => ~available'[f]
               /\ client[f] => (available'[f] <=> queue[f] > 0)
               /\ spc[f] = "wait" /\ ~woken'[f] => queue[f] = 0
    <3>1. CASE f = g
      <4>1. (available'[f] <=> queue[f] > 0) /\ (queue[f] > 0 /\ inPool[f] => woken'[f])
        BY <2>4, <3>1, Zenon
      <4> QED
        BY <2>5, <3>1, <4>1, MaxEventsAssumption
    <3>2. CASE f # g
      BY <2>3, <2>4, <3>2
    <3> QED
      BY <3>1, <3>2
  <2> QED
    BY <2>2, <2>6
<1>9. ASSUME NEW h \in Handles, SelectAdd(h) \/ Deselect(h) PROVE SelectInv' /\ NoSleeperBesideEvent'
  BY <1>9 DEF SelectAdd, Deselect
<1>10. ASSUME NEW h \in Handles, SelectCheck(h) PROVE SelectInv' /\ NoSleeperBesideEvent'
  <2>1. /\ UNCHANGED <<pc, callback, available, inPool, client, queue>> /\ spc[h] = "check"
        /\ spc' = [spc EXCEPT ![h] = "wait"]
    BY <1>10 DEF SelectCheck
  <2>2. /\ available[h] => woken'[h]
        /\ \A g \in Handles \ {h} : woken'[g] = woken[g]
    BY <1>10 DEF SelectCheck
  <2>3. client[h] /\ \A g \in Handles : TellingAbout(g)' <=> TellingAbout(g)
    BY <2>1
  <2> HIDE DEF TellingAbout
  <2> QED
    BY <2>1, <2>2, <2>3, MaxEventsAssumption
<1> QED
  BY <1>1, <1>2, <1>3, <1>4, <1>5, <1>6, <1>7, <1>8, <1>9, <1>10 DEF Next, Proceed

THEOREM KmsInvariance == Spec => []KmsInv
<1>1. Init => TypeOK /\ CallbackInv /\ ClientInv /\ SelectInv /\ NoSleeperBesideEvent
  BY NobodyAssumption, MaxEventsAssumption
     DEF Init, TypeOK, CallbackInv, ClientInv, ClientsMatchHandles, SelectInv, NoSleeperBesideEvent
<1>2. TypeOK /\ CallbackInv /\ ClientInv /\ SelectInv /\ NoSleeperBesideEvent /\ [Next]_vars
        => TypeOK' /\ CallbackInv' /\ ClientInv' /\ SelectInv' /\ NoSleeperBesideEvent'
  BY TypeStep, ClientStep, SelectStep
<1> QED
  BY <1>1, <1>2, PTL DEF Spec, KmsInv

\* NVKMS has a client exactly for the handles with a cookie, for any number of
\* open files.
THEOREM ClientsCorrect == Spec => []ClientsMatchHandles
<1>1. KmsInv => ClientsMatchHandles
  BY DEF KmsInv, ClientInv
<1> QED
  BY <1>1, KmsInvariance, PTL

\* No callback reaches a handle that was deleted.
THEOREM CallbacksCorrect == Spec => []NoCallbackToDeadHandle
<1>1. KmsInv => NoCallbackToDeadHandle
  BY DEF KmsInv, TypeOK, CallbackInv, ClientInv, ClientsMatchHandles, NoCallbackToDeadHandle
<1> QED
  BY <1>1, KmsInvariance, PTL

\* Nobody sleeps in select() beside a queued event.
THEOREM SleepersCorrect == Spec => []NoSleeperBesideEvent
<1>1. KmsInv => NoSleeperBesideEvent
  BY DEF KmsInv
<1> QED
  BY <1>1, KmsInvariance, PTL

=============================================================================
