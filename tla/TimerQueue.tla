----------------------------- MODULE TimerQueue -----------------------------
(***************************************************************************)
(* NVKMS timers (nvidia_gsp/nvidia-modeset/TimerQueue.cpp) and the         *)
(* reference counted pointers some of them carry (nvkms-haiku.cpp).  A     *)
(* timer is allocated, and freed, by whoever holds the driver's Locker();  *)
(* its kernel timer fires in an interrupt and queues a deferred call, the  *)
(* DPC thread runs the deferred calls one by one.  The critical sections   *)
(* under a timer's own spinlock are single steps; what happens between     *)
(* them is interleaved.  When a timer is freed under the DPC thread, what   *)
(* DoDPC does with the deleted object has no defined outcome: the thread   *)
(* goes "wild" there and does nothing more.                                *)
(*                                                                         *)
(* The module is the class as it is written; nvkms_alloc_timer only calls  *)
(* it in builds with NV_TIMER_QUEUE_ENABLED.                               *)
(***************************************************************************)
EXTENDS Naturals, FiniteSets, SequencesExt

CONSTANTS
  Timers,      \* memory for nvkms_timer_t objects
  RefPtrs,     \* memory for nvkms_ref_ptr objects
  None,
  Kinds,       \* the timers NVKMS asks for: "plain", "ref"
  Delays       \* "now" (usec = 0), "later"

ASSUME NoneAssumption == None \notin RefPtrs /\ None \notin Timers
ASSUME KindsAssumption == Kinds \subseteq {"plain", "ref"}
ASSUME DelaysAssumption == Delays \subseteq {"now", "later"}

VARIABLES
  live,            \* the timers allocated and not yet deleted
  ref,             \* fDataPtr of a timer with fIsRefPtr, None for a plain one
  timerScheduled,  \* fTimerScheduled
  dpcScheduled,    \* fDpcScheduled
  armed,           \* external: the timers in the kernel's timer list
  queue,           \* external: the DPC queue
  at,              \* where the DPC thread is
  cur,             \* the timer it works on
  data,            \* dataPtr # NULL, as it read it
  locker,          \* who holds Locker(): "kms", "dpc" or None
  refcnt,          \* 0: the nvkms_ref_ptr is not allocated
  ptr,             \* ptr # NULL
  dropping,        \* the ref_ptr whose owner has cleared ptr and not yet put
  hooked           \* history: the timers that TimerHook has queued

timerVars == <<live, ref, timerScheduled, dpcScheduled, armed, queue>>
dpcVars == <<at, cur, data>>
refVars == <<refcnt, ptr, dropping>>
vars == <<timerVars, dpcVars, locker, refVars, hooked>>

\* NVKMS code runs: a call from a file, or a timer's fProc.
InKms == dropping = None /\ (locker = "kms" \/ at = "proc")

\* The timer's callback is in the DPC queue.
Queued(t) == \E i \in DOMAIN queue : queue[i] = t

\* external: DPCQueue::Add does nothing with a callback that is queued.
Add(t) == IF Queued(t) THEN queue ELSE Append(queue, t)

\* external: DPCQueue::Cancel takes a callback that is queued out of the list.
Cancel(t) ==
  IF Queued(t) THEN RemoveAt(queue, CHOOSE i \in DOMAIN queue : queue[i] = t) ELSE queue

-----------------------------------------------------------------------------
(* NVKMS, under Locker(): reference pointers and timers.                   *)

KmsEnter ==
  /\ locker = None /\ locker' = "kms"
  /\ UNCHANGED <<timerVars, dpcVars, refVars, hooked>>

KmsLeave ==
  /\ locker = "kms" /\ dropping = None
  /\ locker' = None
  /\ UNCHANGED <<timerVars, dpcVars, refVars, hooked>>

AllocRefPtr(r) ==
  /\ InKms /\ refcnt[r] = 0
  /\ refcnt' = [refcnt EXCEPT ![r] = 1]
  /\ ptr' = [ptr EXCEPT ![r] = TRUE]
  /\ UNCHANGED <<timerVars, dpcVars, locker, dropping, hooked>>

\* nvkms_free_ref_ptr: the pointer is cleared, then the owner's reference is
\* given back.
FreeRefPtr(r) ==
  /\ InKms /\ ptr[r]
  /\ ptr' = [ptr EXCEPT ![r] = FALSE]
  /\ dropping' = r
  /\ UNCHANGED <<timerVars, dpcVars, locker, refcnt, hooked>>

\* Mutant: the ref_ptr is freed although timers still refer to it.
DropOwnerRefAtOnce ==
  /\ dropping # None
  /\ refcnt' = [refcnt EXCEPT ![dropping] = 0]
  /\ dropping' = None
  /\ UNCHANGED <<timerVars, dpcVars, locker, ptr, hooked>>

DropOwnerRef ==
  /\ dropping # None
  /\ refcnt' = [refcnt EXCEPT ![dropping] = @ - 1]
  /\ dropping' = None
  /\ UNCHANGED <<timerVars, dpcVars, locker, ptr, hooked>>

\* nvkms_timer_t::Schedule
Schedule(t, delay) ==
  LET now == delay = "now" IN
  /\ dpcScheduled' = [dpcScheduled EXCEPT ![t] = now]
  /\ timerScheduled' = [timerScheduled EXCEPT ![t] = ~now]
  /\ queue' = IF now THEN Add(t) ELSE queue
  /\ armed' = IF now THEN armed ELSE armed \cup {t}

\* Alloc, and AllocWithRefPtr, whose constructor takes a reference.
AllocTimer(t, r, delay) ==
  /\ InKms /\ t \notin live
  /\ r # None => ptr[r]
  /\ live' = live \cup {t}
  /\ ref' = [ref EXCEPT ![t] = r]
  /\ refcnt' = [s \in RefPtrs |-> IF s = r THEN refcnt[s] + 1 ELSE refcnt[s]]
  /\ Schedule(t, delay)
  /\ UNCHANGED <<dpcVars, locker, ptr, dropping, hooked>>

\* The timer is gone; if the DPC thread is in its DoDPC, see above.
Deleted(t) ==
  LET under == t = cur /\ at # "idle" IN
  /\ live' = live \ {t}
  /\ at' = IF under THEN "wild" ELSE at
  /\ locker' = IF under /\ at = "proc" THEN None ELSE locker

\* Mutant: the deferred call is left in the queue.
FreeTimerQueued(t) ==
  /\ InKms /\ t \in live /\ ref[t] = None
  /\ armed' = IF timerScheduled[t] THEN armed \ {t} ELSE armed
  /\ timerScheduled' = [timerScheduled EXCEPT ![t] = FALSE]
  /\ dpcScheduled' = [dpcScheduled EXCEPT ![t] = FALSE]
  /\ Deleted(t)
  /\ UNCHANGED <<ref, queue, cur, data, refVars, hooked>>

\* nvkms_timer_t::Free; NVKMS has no handle of a timer with a ref_ptr.
FreeTimer(t) ==
  /\ InKms /\ t \in live /\ ref[t] = None
  /\ armed' = IF timerScheduled[t] THEN armed \ {t} ELSE armed
  /\ timerScheduled' = [timerScheduled EXCEPT ![t] = FALSE]
  /\ queue' = IF dpcScheduled[t] THEN Cancel(t) ELSE queue
  /\ dpcScheduled' = [dpcScheduled EXCEPT ![t] = FALSE]
  /\ Deleted(t)
  /\ UNCHANGED <<ref, cur, data, refVars, hooked>>

-----------------------------------------------------------------------------
(* The interrupt and the DPC thread.                                       *)

\* TimerHook: the deferred call is queued, fDpcScheduled is not set.
TimerHook(t) ==
  /\ t \in armed /\ armed' = armed \ {t}
  /\ queue' = IF timerScheduled[t] THEN Add(t) ELSE queue
  /\ timerScheduled' = [timerScheduled EXCEPT ![t] = FALSE]
  /\ hooked' = hooked \cup {t}
  /\ UNCHANGED <<live, ref, dpcScheduled, dpcVars, locker, refVars>>

\* external: the thread takes the first deferred call; the timer may be gone.
DpcTake ==
  /\ at = "idle" /\ queue # <<>>
  /\ cur' = Head(queue) /\ queue' = Tail(queue)
  /\ at' = IF cur' \in live THEN "check" ELSE "wild"
  /\ hooked' = hooked \ {cur'}
  /\ UNCHANGED <<live, ref, timerScheduled, dpcScheduled, armed, data, locker, refVars>>

\* DoDPC up to the read of ref_ptr->ptr.
DpcCheck ==
  /\ at = "check"
  /\ IF ~dpcScheduled[cur] THEN at' = "idle" /\ UNCHANGED <<dpcScheduled, data>>
     ELSE /\ dpcScheduled' = [dpcScheduled EXCEPT ![cur] = FALSE]
          /\ at' = IF ref[cur] = None THEN "lock" ELSE "put"
          /\ data' = IF ref[cur] = None THEN TRUE ELSE ptr[ref[cur]]
  /\ UNCHANGED <<live, ref, timerScheduled, armed, queue, cur, locker, refVars, hooked>>

\* Mutant: the reference is kept when the owner is gone.
DpcPutOnlyIfOwned ==
  /\ at = "put"
  /\ refcnt' = IF data THEN [refcnt EXCEPT ![ref[cur]] = @ - 1] ELSE refcnt
  /\ at' = IF data THEN "lock" ELSE "delete"
  /\ UNCHANGED <<timerVars, cur, data, locker, ptr, dropping, hooked>>

\* nvkms_dec_ref gives the timer's reference back.
DpcPut ==
  /\ at = "put"
  /\ refcnt' = [refcnt EXCEPT ![ref[cur]] = @ - 1]
  /\ at' = IF data THEN "lock" ELSE "delete"
  /\ UNCHANGED <<timerVars, cur, data, locker, ptr, dropping, hooked>>

DpcLock ==
  /\ at = "lock"
  /\ locker = None /\ locker' = "dpc"
  /\ at' = "call"
  /\ UNCHANGED <<timerVars, cur, data, refVars, hooked>>

DpcCall ==
  /\ at = "call" /\ at' = "proc"
  /\ UNCHANGED <<timerVars, cur, data, locker, refVars, hooked>>

DpcReturn ==
  /\ at = "proc" /\ dropping = None
  /\ locker' = None
  /\ at' = IF ref[cur] = None THEN "idle" ELSE "delete"
  /\ UNCHANGED <<timerVars, cur, data, refVars, hooked>>

DpcDelete ==
  /\ at = "delete" /\ at' = "idle"
  /\ live' = live \ {cur}
  /\ UNCHANGED <<ref, timerScheduled, dpcScheduled, armed, queue, cur, data, locker, refVars, hooked>>

-----------------------------------------------------------------------------

Init ==
  /\ live = {} /\ armed = {} /\ queue = <<>>
  /\ ref = [t \in Timers |-> None]
  /\ timerScheduled = [t \in Timers |-> FALSE]
  /\ dpcScheduled = [t \in Timers |-> FALSE]
  /\ at = "idle" /\ cur \in Timers /\ data = FALSE
  /\ locker = None
  /\ refcnt = [r \in RefPtrs |-> 0]
  /\ ptr = [r \in RefPtrs |-> FALSE]
  /\ dropping = None /\ hooked = {}

\* What NVKMS may pass as the data of a new timer.
Payloads == (IF "plain" \in Kinds THEN {None} ELSE {}) \cup
            (IF "ref" \in Kinds THEN RefPtrs ELSE {})

Kms ==
  \/ KmsEnter \/ KmsLeave \/ DropOwnerRef
  \/ \E r \in RefPtrs : AllocRefPtr(r) \/ FreeRefPtr(r)
  \/ \E t \in Timers, r \in Payloads, d \in Delays : AllocTimer(t, r, d)
  \/ \E t \in Timers : FreeTimer(t)

Dpc == DpcTake \/ DpcCheck \/ DpcPut \/ DpcLock \/ DpcCall \/ DpcReturn \/ DpcDelete

Next == Kms \/ Dpc \/ \E t \in Timers : TimerHook(t)

Spec == Init /\ [][Next]_vars

\* The DPC thread runs whenever it can, calls into NVKMS and fProc return, and
\* who waits for Locker() gets it in the end (Haiku's mutexes queue waiters).
FairSpec == Spec
  /\ WF_vars(DpcTake \/ DpcCheck \/ DpcPut \/ DpcCall \/ DpcDelete)
  /\ SF_vars(DpcLock) /\ SF_vars(DpcReturn)
  /\ SF_vars(KmsLeave) /\ WF_vars(DropOwnerRef)
  /\ \A t \in Timers : WF_vars(TimerHook(t))

-----------------------------------------------------------------------------

\* Every variable keeps to its type; a timer waits for its interrupt exactly as
\* long as fTimerScheduled says so.
TypeOK ==
  /\ live \subseteq Timers /\ armed \subseteq Timers
  /\ ref \in [Timers -> RefPtrs \cup {None}]
  /\ timerScheduled \in [Timers -> BOOLEAN] /\ dpcScheduled \in [Timers -> BOOLEAN]
  /\ \A t \in Timers : t \in armed <=> timerScheduled[t]
  /\ queue \in Seq(Timers) /\ Len(queue) <= Cardinality(Timers)
  /\ at \in {"idle", "check", "put", "lock", "call", "proc", "delete", "wild"}
  /\ cur \in Timers /\ data \in BOOLEAN
  /\ locker \in {"kms", "dpc", None}
  /\ locker = "dpc" <=> at \in {"call", "proc"}
  /\ refcnt \in [RefPtrs -> Nat] /\ ptr \in [RefPtrs -> BOOLEAN]
  /\ dropping \in RefPtrs \cup {None}

\* The timers whose reference has not been given back yet.
Holders(r) == {t \in live : ref[t] = r /\ ~(t = cur /\ at \in {"lock", "call", "proc", "delete"})}

\* A ref_ptr lives exactly as long as its owner or a timer refers to it, whoever
\* gives up the last reference: it is never freed under a timer that will
\* read ptr, and never kept when nobody is left.
RefCountExact ==
  \A r \in RefPtrs : refcnt[r] = Cardinality(Holders(r)) +
                                 (IF ptr[r] \/ dropping = r THEN 1 ELSE 0)

\* What was deleted is no longer in the kernel's timer list nor in the DPC queue,
\* where the next interrupt or the DPC thread would pick it up; but for what
\* TimerHook put there, which Free() does not know of.
NothingPendingWhenDeleted ==
  \A t \in Timers \ live :
    t \notin armed /\ (Queued(t) => t \in hooked)

\* DoDPC did nothing for a timer that TimerHook had queued, nothing else will.
Stranded(r) ==
  \E t \in live : /\ ref[t] = r /\ t \notin armed /\ ~Queued(t)
                  /\ t = cur => at = "idle"

\* When its owner has dropped a ref_ptr its memory is given back in the end: the
\* timers that still refer to it are run and deleted, unless a delayed one is
\* stranded or a plain one was freed under the DPC thread.
RefPtrReclaimed ==
  \A r \in RefPtrs : (refcnt[r] > 0 /\ ~ptr[r]) ~> (refcnt[r] = 0 \/ at = "wild" \/ Stranded(r))

=============================================================================
