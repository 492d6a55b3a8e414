-------------------------- MODULE NvHaikuKmsDevice --------------------------
(***************************************************************************)
(* Open files of the modeset driver (nvidia_gsp/nvidia-modeset): every     *)
(* call into NVKMS runs under the driver's one mutex, Locker().  Inside    *)
(* such a call NVKMS calls back, for the same or another open file, to say *)
(* that its event queue is no longer empty or has run empty; the callback  *)
(* takes the select mutex of that file.  NVKMS itself is not part of the   *)
(* sources: its clients and queues are modelled from these calls.          *)
(***************************************************************************)
EXTENDS Naturals

CONSTANTS
  Handles,    \* the open files; each has a user thread and a select() thread
  Nobody,     \* a free lock; no callback
  MaxEvents   \* bound on the events queued for one client

ASSUME NobodyAssumption == Nobody \notin Handles
ASSUME MaxEventsAssumption == MaxEvents \in Nat \ {0}

VARIABLES
  pc,         \* where the user thread of each handle is
  locker,     \* whose user thread holds Locker()
  cookie,     \* fCookie # NULL
  callback,   \* the nvkms_event_queue_changed the thread is about to make
  spc,        \* where the select() thread is
  selMutex,   \* fSelectPoolMutex is held
  available,  \* fEventsAvailable
  inPool,     \* the select() thread is in fSelectPool
  woken,      \* its selectsync was notified
  client,     \* external: NVKMS has an open client for the handle
  queue       \* external: the events queued for that client

userVars == <<pc, locker, cookie, callback>>
selVars == <<spc, selMutex, available, inPool, woken>>
kmsVars == <<client, queue>>
vars == <<userVars, selVars, kmsVars>>

Go(h, to) == pc' = [pc EXCEPT ![h] = to]

\* The thread is inside NVKMS, with Locker() held.
InKms(h) == pc[h] \in {"ioctl", "close"} /\ callback[h] = Nobody

-----------------------------------------------------------------------------
(* Open, Control and the destructor of a handle.                           *)

\* NvHaikuKmsDevice::Open allocates the handle and waits for the lock.
OpenBegin(h) ==
  /\ pc[h] = "none"
  /\ Go(h, "alloc")
  /\ available' = [available EXCEPT ![h] = FALSE]
  /\ UNCHANGED <<locker, cookie, callback, spc, selMutex, inPool, woken, kmsVars>>

OpenLock(h) ==
  /\ pc[h] = "alloc"
  /\ locker = Nobody /\ locker' = h
  /\ Go(h, "open")
  /\ UNCHANGED <<cookie, callback, selVars, kmsVars>>

\* Mutant: the result of nvKmsOpen is not stored in the handle.
OpenDoneForgets(h) ==
  /\ pc[h] = "open"
  /\ locker' = Nobody
  /\ client' = [client EXCEPT ![h] = TRUE]
  /\ Go(h, "ready")
  /\ UNCHANGED <<cookie, callback, selVars, queue>>

\* nvKmsOpen; a nullptr result makes Open delete the handle again.
OpenDone(h) ==
  /\ pc[h] = "open"
  /\ locker' = Nobody
  /\ \/ /\ client' = [client EXCEPT ![h] = TRUE]
        /\ cookie' = [cookie EXCEPT ![h] = TRUE]
        /\ Go(h, "ready")
     \/ Go(h, "free") /\ UNCHANGED <<client, cookie>>
  /\ UNCHANGED <<callback, selVars, queue>>

\* Control: nvKmsIoctl under the lock.
IoctlBegin(h) ==
  /\ pc[h] = "ready"
  /\ locker = Nobody /\ locker' = h
  /\ Go(h, "ioctl")
  /\ UNCHANGED <<cookie, callback, selVars, kmsVars>>

\* Mutant: the call returns with the lock held.
IoctlEndLocked(h) ==
  /\ pc[h] = "ioctl" /\ InKms(h)
  /\ Go(h, "ready")
  /\ UNCHANGED <<locker, cookie, callback, selVars, kmsVars>>

IoctlEnd(h) ==
  /\ pc[h] = "ioctl" /\ InKms(h)
  /\ locker' = Nobody
  /\ Go(h, "ready")
  /\ UNCHANGED <<cookie, callback, selVars, kmsVars>>

\* The file is freed when no call uses it any more: Close() does nothing, the
\* destructor calls nvKmsClose if there is a cookie.
FreeBegin(h) ==
  /\ pc[h] = "ready" /\ spc[h] = "idle"
  /\ Go(h, "free")
  /\ UNCHANGED <<locker, cookie, callback, selVars, kmsVars>>

\* Mutant: nvKmsClose without the lock.
FreeUnlocked(h) ==
  /\ pc[h] = "free" /\ cookie[h]
  /\ client' = [client EXCEPT ![h] = FALSE]
  /\ queue' = [queue EXCEPT ![h] = 0]
  /\ cookie' = [cookie EXCEPT ![h] = FALSE]
  /\ Go(h, "none")
  /\ UNCHANGED <<locker, callback, selVars>>

FreeLock(h) ==
  /\ pc[h] = "free" /\ cookie[h]
  /\ locker = Nobody /\ locker' = h
  /\ Go(h, "close")
  /\ UNCHANGED <<cookie, callback, selVars, kmsVars>>

FreeDone(h) ==
  /\ pc[h] = "close" /\ InKms(h)
  /\ client' = [client EXCEPT ![h] = FALSE]
  /\ queue' = [queue EXCEPT ![h] = 0]
  /\ cookie' = [cookie EXCEPT ![h] = FALSE]
  /\ locker' = Nobody
  /\ Go(h, "none")
  /\ UNCHANGED <<callback, selVars>>

FreeUnopened(h) ==
  /\ pc[h] = "free" /\ ~cookie[h]
  /\ Go(h, "none")
  /\ UNCHANGED <<locker, cookie, callback, selVars, kmsVars>>

-----------------------------------------------------------------------------
(* NVKMS, inside a call: it queues an event for any of its clients, or the *)
(* caller takes the next one; then it calls nvkms_event_queue_changed.     *)

KmsQueueEvent(h) ==
  /\ InKms(h)
  /\ \E g \in Handles :
       /\ client[g] /\ queue[g] < MaxEvents
       /\ queue' = [queue EXCEPT ![g] = @ + 1]
       /\ callback' = [callback EXCEPT ![h] = g]
  /\ UNCHANGED <<pc, locker, cookie, selVars, client>>

KmsNextEvent(h) ==
  /\ pc[h] = "ioctl" /\ InKms(h)
  /\ queue[h] > 0
  /\ queue' = [queue EXCEPT ![h] = @ - 1]
  /\ callback' = [callback EXCEPT ![h] = IF queue[h] = 1 THEN h ELSE Nobody]
  /\ UNCHANGED <<pc, locker, cookie, selVars, client>>

\* NvHaikuKmsDeviceHandle::EventQueueChanged, under the select mutex.
EventQueueChanged(h) ==
  /\ callback[h] # Nobody
  /\ LET g == callback[h] IN
       /\ ~selMutex[g]
       /\ available' = [available EXCEPT ![g] = queue[g] > 0]
       /\ woken' = [woken EXCEPT ![g] = @ \/ (queue[g] > 0 /\ inPool[g])]
  /\ callback' = [callback EXCEPT ![h] = Nobody]
  /\ UNCHANGED <<pc, locker, cookie, spc, selMutex, inPool, kmsVars>>

-----------------------------------------------------------------------------
(* Select, the client's sleep, and Deselect.                               *)

SelectAdd(h) ==
  /\ pc[h] = "ready" \/ pc[h] = "ioctl"
  /\ spc[h] = "idle"
  /\ ~selMutex[h] /\ selMutex' = [selMutex EXCEPT ![h] = TRUE]
  /\ inPool' = [inPool EXCEPT ![h] = TRUE]
  /\ spc' = [spc EXCEPT ![h] = "check"]
  /\ UNCHANGED <<userVars, available, woken, kmsVars>>

\* Mutant: events that are there already are not looked for.
SelectCheckNothing(h) ==
  /\ spc[h] = "check"
  /\ selMutex' = [selMutex EXCEPT ![h] = FALSE]
  /\ spc' = [spc EXCEPT ![h] = "wait"]
  /\ UNCHANGED <<userVars, available, inPool, woken, kmsVars>>

SelectCheck(h) ==
  /\ spc[h] = "check"
  /\ woken' = [woken EXCEPT ![h] = @ \/ available[h]]
  /\ selMutex' = [selMutex EXCEPT ![h] = FALSE]
  /\ spc' = [spc EXCEPT ![h] = "wait"]
  /\ UNCHANGED <<userVars, available, inPool, kmsVars>>

\* The client's select() ends: notified, timed out or interrupted.
Deselect(h) ==
  /\ spc[h] = "wait"
  /\ ~selMutex[h]
  /\ inPool' = [inPool EXCEPT ![h] = FALSE]
  /\ woken' = [woken EXCEPT ![h] = FALSE]
  /\ spc' = [spc EXCEPT ![h] = "idle"]
  /\ UNCHANGED <<userVars, selMutex, available, kmsVars>>

-----------------------------------------------------------------------------

Init ==
  /\ pc = [h \in Handles |-> "none"]
  /\ locker = Nobody
  /\ cookie = [h \in Handles |-> FALSE]
  /\ callback = [h \in Handles |-> Nobody]
  /\ spc = [h \in Handles |-> "idle"]
  /\ selMutex = [h \in Handles |-> FALSE]
  /\ available = [h \in Handles |-> FALSE]
  /\ inPool = [h \in Handles |-> FALSE]
  /\ woken = [h \in Handles |-> FALSE]
  /\ client = [h \in Handles |-> FALSE]
  /\ queue = [h \in Handles |-> 0]

\* What a thread that is under way does next.
Proceed(h) ==
  \/ OpenLock(h) \/ OpenDone(h) \/ IoctlEnd(h)
  \/ FreeLock(h) \/ FreeDone(h) \/ FreeUnopened(h)
  \/ EventQueueChanged(h) \/ SelectCheck(h)

Next == \E h \in Handles :
  \/ OpenBegin(h) \/ IoctlBegin(h) \/ FreeBegin(h) \/ Proceed(h)
  \/ KmsQueueEvent(h) \/ KmsNextEvent(h)
  \/ SelectAdd(h) \/ Deselect(h)

Spec == Init /\ [][Next]_vars

\* Threads under way go on, calls into NVKMS return, and who waits for a mutex
\* gets it in the end (Haiku's mutexes queue their waiters).
FairSpec == Spec /\ \A h \in Handles :
  /\ WF_vars(SelectCheck(h))
  /\ SF_vars(EventQueueChanged(h))
  /\ SF_vars(IoctlEnd(h)) /\ SF_vars(FreeDone(h)) /\ WF_vars(OpenDone(h))
  /\ SF_vars(OpenLock(h)) /\ SF_vars(FreeLock(h)) /\ WF_vars(FreeUnopened(h))

-----------------------------------------------------------------------------

\* Every variable keeps to its type, and Locker() is held exactly by the thread
\* that is inside NVKMS.
TypeOK ==
  /\ pc \in [Handles -> {"none", "alloc", "open", "ready", "ioctl", "free", "close"}]
  /\ locker \in Handles \cup {Nobody}
  /\ \A h \in Handles : locker = h <=> pc[h] \in {"open", "ioctl", "close"}
  /\ cookie \in [Handles -> BOOLEAN]
  /\ callback \in [Handles -> Handles \cup {Nobody}]
  /\ spc \in [Handles -> {"idle", "check", "wait"}]
  /\ selMutex \in [Handles -> BOOLEAN] /\ available \in [Handles -> BOOLEAN]
  /\ inPool \in [Handles -> BOOLEAN] /\ woken \in [Handles -> BOOLEAN]
  /\ client \in [Handles -> BOOLEAN] /\ queue \in [Handles -> 0 .. MaxEvents]

\* NVKMS has a client exactly for the handles that hold a cookie: none leaks
\* when its file goes away, none is closed twice.
ClientsMatchHandles ==
  \A h \in Handles :
    /\ client[h] = cookie[h]
    /\ pc[h] \in {"none", "alloc", "open"} => ~client[h]
    /\ pc[h] \in {"ready", "ioctl", "close"} => client[h]

\* A callback never reaches a handle that was deleted, although it is made by
\* the thread of another file.
NoCallbackToDeadHandle ==
  \A h \in Handles : callback[h] # Nobody => pc[callback[h]] # "none"

\* NVKMS has changed g's queue and is about to call its handle.
TellingAbout(g) == \E h \in Handles : callback[h] = g

\* Nobody sleeps in select() beside a queued event.
NoSleeperBesideEvent ==
  \A h \in Handles :
    spc[h] = "wait" /\ ~woken[h] /\ ~TellingAbout(h) => queue[h] = 0

\* The file's owner gets through: open and close are never stuck behind the
\* lock, the callbacks and the select mutexes for ever.
OpenAndCloseEnd ==
  \A h \in Handles : pc[h] \in {"alloc", "open", "free", "close"} ~>
                     pc[h] \in {"none", "ready"}

=============================================================================
