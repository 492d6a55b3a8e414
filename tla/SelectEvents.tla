---------------------------- MODULE SelectEvents ----------------------------
(***************************************************************************)
(* Events of an open /dev/nvidia file (nvidia_gsp/nvidia/BaseDevice.cpp):  *)
(* the RM posts them from its own threads with nv_post_event, clients wait *)
(* for them with select().  fDatalessEventPending remembers an event that  *)
(* came while nobody waited; it is an atomic that the poster sets without  *)
(* the mutex that guards the pool of waiters.                              *)
(***************************************************************************)
EXTENDS FiniteSets

CONSTANTS
  Posters, Waiters,  \* the RM's threads, and the selectsync of each client
  Nobody             \* the mutex is free

ASSUME ActorsAssumption ==
  Posters \cap Waiters = {} /\ Nobody \notin Posters \cup Waiters

VARIABLES
  pc,       \* where each poster and waiter is
  mutex,    \* holder of fSelectPoolMutex
  pending,  \* fDatalessEventPending
  pool,     \* the waiters in fSelectPool
  targets,  \* those the pool's notification has still to reach
  woken,    \* waiters whose selectsync was notified
  owed      \* history: a dataless event that no waiter was told of yet

vars == <<pc, mutex, pending, pool, targets, woken, owed>>

Go(a, to) == pc' = [pc EXCEPT ![a] = to]

-----------------------------------------------------------------------------
(* nv_post_event.                                                          *)

\* SetDatalessEventPending.
PostDataless(p) ==
  /\ pc[p] = "idle"
  /\ pending' = TRUE
  /\ owed' = TRUE
  /\ Go(p, "post")
  /\ UNCHANGED <<mutex, pool, targets, woken>>

\* An event with data leaves nothing behind: only the pool is notified.
PostData(p) ==
  /\ pc[p] = "idle"
  /\ Go(p, "post")
  /\ UNCHANGED <<mutex, pending, pool, targets, woken, owed>>

\* NotifySelectPool walks the pool under the mutex.
NotifyBegin(p) ==
  /\ pc[p] = "post"
  /\ mutex = Nobody /\ mutex' = p
  /\ targets' = pool
  /\ Go(p, "notify")
  /\ UNCHANGED <<pending, pool, woken, owed>>

NotifyEach(p) ==
  /\ pc[p] = "notify"
  /\ \E w \in targets :
       /\ targets' = targets \ {w}
       /\ woken' = woken \cup {w}
  /\ owed' = FALSE
  /\ UNCHANGED <<pc, mutex, pending, pool>>

NotifyEnd(p) ==
  /\ pc[p] = "notify" /\ targets = {}
  /\ mutex' = Nobody
  /\ Go(p, "idle")
  /\ UNCHANGED <<pending, pool, targets, woken, owed>>

-----------------------------------------------------------------------------
(* Select, the client's sleep, and Deselect.                               *)

SelectBegin(w) ==
  /\ pc[w] = "idle"
  /\ mutex = Nobody /\ mutex' = w
  /\ Go(w, "add")
  /\ UNCHANGED <<pending, pool, targets, woken, owed>>

SelectAdd(w) ==
  /\ pc[w] = "add"
  /\ pool' = pool \cup {w}
  /\ Go(w, "exchange")
  /\ UNCHANGED <<mutex, pending, targets, woken, owed>>

\* add_select_sync_pool_entry runs out of memory.
SelectFails(w) ==
  /\ pc[w] = "add"
  /\ mutex' = Nobody
  /\ Go(w, "idle")
  /\ UNCHANGED <<pending, pool, targets, woken, owed>>

\* Mutant: an event that came before the select() is not looked for.
SelectIgnoresFlag(w) ==
  /\ pc[w] = "exchange"
  /\ mutex' = Nobody
  /\ Go(w, "wait")
  /\ UNCHANGED <<pending, pool, targets, woken, owed>>

\* Mutant: the flag is cleared and nobody is notified.
SelectExchangeDrops(w) ==
  /\ pc[w] = "exchange"
  /\ pending' = FALSE
  /\ mutex' = Nobody
  /\ Go(w, "wait")
  /\ UNCHANGED <<pool, targets, woken, owed>>

\* fDatalessEventPending.exchange(false): the event goes to this waiter.
SelectExchange(w) ==
  /\ pc[w] = "exchange"
  /\ IF pending THEN woken' = woken \cup {w} /\ owed' = FALSE
                ELSE UNCHANGED <<woken, owed>>
  /\ pending' = FALSE
  /\ mutex' = Nobody
  /\ Go(w, "wait")
  /\ UNCHANGED <<pool, targets>>

\* The client wakes up because of an event, or its timeout or a signal.
WakeUp(w) ==
  /\ pc[w] = "wait" /\ w \in woken
  /\ Go(w, "deselect")
  /\ UNCHANGED <<mutex, pending, pool, targets, woken, owed>>

TimeOut(w) ==
  /\ pc[w] = "wait"
  /\ Go(w, "deselect")
  /\ UNCHANGED <<mutex, pending, pool, targets, woken, owed>>

\* Mutant: Deselect without the mutex.
DeselectUnlocked(w) ==
  /\ pc[w] = "deselect"
  /\ pool' = pool \ {w}
  /\ woken' = woken \ {w}
  /\ Go(w, "idle")
  /\ UNCHANGED <<mutex, pending, targets, owed>>

\* Afterwards the client's selectsync is gone.
Deselect(w) ==
  /\ pc[w] = "deselect"
  /\ mutex = Nobody
  /\ pool' = pool \ {w}
  /\ woken' = woken \ {w}
  /\ Go(w, "idle")
  /\ UNCHANGED <<mutex, pending, targets, owed>>

-----------------------------------------------------------------------------

Init ==
  /\ pc = [a \in Posters \cup Waiters |-> "idle"]
  /\ mutex = Nobody
  /\ pending = FALSE
  /\ pool = {} /\ targets = {} /\ woken = {}
  /\ owed = FALSE

PostStep(p) == NotifyBegin(p) \/ NotifyEach(p) \/ NotifyEnd(p)
SelectStep(w) ==
  \/ SelectBegin(w) \/ SelectAdd(w) \/ SelectFails(w) \/ SelectExchange(w)
  \/ Deselect(w)

Next ==
  \/ \E p \in Posters : PostDataless(p) \/ PostData(p) \/ PostStep(p)
  \/ \E w \in Waiters : SelectStep(w) \/ WakeUp(w) \/ TimeOut(w)

Spec == Init /\ [][Next]_vars

\* Posters and clients go on, clients call select() again and again, an entry
\* for the pool is not refused every time, and who waits for the mutex gets it
\* in the end (Haiku's mutexes queue their waiters).  No timeout is needed for
\* a client to wake up.
FairSpec == Spec
  /\ \A p \in Posters : SF_vars(PostStep(p))
  /\ \A w \in Waiters :
       /\ SF_vars(SelectStep(w)) /\ SF_vars(SelectAdd(w))
       /\ WF_vars(WakeUp(w))

-----------------------------------------------------------------------------

\* Every variable keeps to its type, and the mutex is held by whoever is in one
\* of the sections it guards.
TypeOK ==
  /\ pc \in [Posters \cup Waiters ->
              {"idle", "post", "notify", "add", "exchange", "wait", "deselect"}]
  /\ mutex \in Posters \cup Waiters \cup {Nobody}
  /\ \A a \in Posters \cup Waiters :
       mutex = a <=> pc[a] \in {"notify", "add", "exchange"}
  /\ pending \in BOOLEAN /\ owed \in BOOLEAN
  /\ pool \subseteq Waiters /\ targets \subseteq Waiters /\ woken \subseteq Waiters

\* No poster is between setting the flag and the end of its notification.
PostersDone == \A p \in Posters : pc[p] = "idle"

\* No event is lost between the flag and the pool: an event nobody was told of
\* is still in the flag once its poster is done.
EventKept == owed /\ PostersDone => pending

\* And nobody sleeps next to it: a client asleep in select() while the flag is
\* set was notified, or a poster is about to do so.
NoSleeperBesideEvent ==
  pending /\ PostersDone => \A w \in Waiters : pc[w] = "wait" => w \in woken

\* Only a selectsync that is registered is touched: the notification never
\* reaches one whose Deselect returned.
OnlyRegisteredNotified == targets \subseteq pool

\* Every dataless event is told to some client in the end.
EventReachesClient == owed ~> ~owed

=============================================================================
