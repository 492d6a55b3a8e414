---------------------------- MODULE NvHaikuDevice ----------------------------
(***************************************************************************)
(* The life of one GPU (nvidia_gsp/nvidia/Device.cpp): the open count, and *)
(* the hardware that the first opener starts and the last closer stops.    *)
(*                                                                         *)
(* A user is a thread that opens and closes /dev/nvidiaN, or nvkms that    *)
(* calls open_gpu() and close_gpu(); both end up in AcquireRef() and       *)
(* ReleaseRef().  The count is atomic, Start() and Stop() are not, and no  *)
(* lock orders them.                                                       *)
(***************************************************************************)
EXTENDS Integers, FiniteSets

CONSTANTS
  Users,
  StartMayFail, \* TRUE: no MSI, or rm_init_adapter fails
  MaxHandlers   \* bound on interrupt handlers that failed starts leave behind

ASSUME UsersAssumption == IsFiniteSet(Users)
ASSUME FlagAssumption == StartMayFail \in BOOLEAN
ASSUME BoundAssumption == MaxHandlers \in Nat \ {0}

VARIABLES
  pc,           \* where each user is in AcquireRef() or ReleaseRef()
  openCount,    \* fOpenCount
  initHardware, \* fInitHardware
  irq,          \* fIrq # 0
  adapter,      \* the RM has the adapter initialised
  handlers,     \* installed instances of InterruptHandler
  msi,          \* MSI is enabled
  busMaster,    \* PCI_command_master
  overlapped    \* history: two calls of AcquireRef() or ReleaseRef() overlapped

hwVars == <<irq, handlers, msi, busMaster>>
vars == <<pc, openCount, initHardware, adapter, hwVars, overlapped>>

Starting == {"pci", "msi", "init", "started", "failed"}
Stopping == {"shutdown", "down", "irqoff", "pcioff"}

\* Does u count in fOpenCount?
Counted(u) == pc[u] \in Starting \cup {"open"}

NobodyBusy == \A u \in Users : pc[u] \in {"closed", "open"}

Go(u, to) == pc' = [pc EXCEPT ![u] = to]

\* A call begins; is another one under way?
Enter == overlapped' = (overlapped \/ ~NobodyBusy)

-----------------------------------------------------------------------------
(* AcquireRef() and Start().                                               *)

\* Mutant: the second opener starts the hardware too.
AcquireRefUnguarded(u) ==
  /\ pc[u] = "closed"
  /\ Enter
  /\ openCount' = openCount + 1
  /\ Go(u, IF openCount <= 1 THEN "pci" ELSE "open")
  /\ UNCHANGED <<initHardware, adapter, hwVars>>

\* fetch_add: whoever finds zero starts the hardware, the others are done.
AcquireRef(u) ==
  /\ pc[u] = "closed"
  /\ Enter
  /\ openCount' = openCount + 1
  /\ Go(u, IF openCount = 0 THEN "pci" ELSE "open")
  /\ UNCHANGED <<initHardware, adapter, hwVars>>

StartPci(u) ==
  /\ pc[u] = "pci"
  /\ busMaster' = TRUE
  /\ \/ Go(u, "msi")
     \/ StartMayFail /\ Go(u, "failed")    \* get_msi_count() < 1
  /\ UNCHANGED <<openCount, initHardware, adapter, irq, handlers, msi, overlapped>>

\* configure_msi, enable_msi, install_io_interrupt_handler: results unchecked.
StartMsi(u) ==
  /\ pc[u] = "msi"
  /\ handlers < MaxHandlers
  /\ irq' = TRUE /\ msi' = TRUE /\ handlers' = handlers + 1
  /\ Go(u, "init")
  /\ UNCHANGED <<openCount, initHardware, adapter, busMaster, overlapped>>

StartAdapter(u) ==
  /\ pc[u] = "init"
  /\ \/ adapter' = TRUE /\ Go(u, "started")
     \/ StartMayFail /\ Go(u, "failed") /\ UNCHANGED adapter
  /\ UNCHANGED <<openCount, initHardware, hwVars, overlapped>>

StartDone(u) ==
  /\ pc[u] = "started"
  /\ initHardware' = TRUE
  /\ Go(u, "open")
  /\ UNCHANGED <<openCount, adapter, hwVars, overlapped>>

\* Mutant: the failed start keeps its count.
StartFailedKeepsCount(u) ==
  /\ pc[u] = "failed"
  /\ Go(u, "closed")
  /\ UNCHANGED <<openCount, initHardware, adapter, hwVars, overlapped>>

\* Start() failed: the count goes down, the rest stays as it is.
StartFailed(u) ==
  /\ pc[u] = "failed"
  /\ openCount' = openCount - 1
  /\ Go(u, "closed")
  /\ UNCHANGED <<initHardware, adapter, hwVars, overlapped>>

-----------------------------------------------------------------------------
(* ReleaseRef() and Stop().                                                *)

\* Mutant: the comparison is off by one, a user too many stops the hardware.
ReleaseRefEarly(u) ==
  /\ pc[u] = "open"
  /\ Enter
  /\ openCount' = openCount - 1
  /\ Go(u, IF openCount <= 2 THEN "shutdown" ELSE "closed")
  /\ UNCHANGED <<initHardware, adapter, hwVars>>

\* fetch_sub: whoever finds one stops the hardware.
ReleaseRef(u) ==
  /\ pc[u] = "open"
  /\ Enter
  /\ openCount' = openCount - 1
  /\ Go(u, IF openCount = 1 THEN "shutdown" ELSE "closed")
  /\ UNCHANGED <<initHardware, adapter, hwVars>>

StopAdapter(u) ==
  /\ pc[u] = "shutdown"
  /\ IF initHardware THEN adapter' = FALSE /\ Go(u, "down")
                     ELSE UNCHANGED adapter /\ Go(u, "irqoff")
  /\ UNCHANGED <<openCount, initHardware, hwVars, overlapped>>

StopFlag(u) ==
  /\ pc[u] = "down"
  /\ initHardware' = FALSE
  /\ Go(u, "irqoff")
  /\ UNCHANGED <<openCount, adapter, hwVars, overlapped>>

\* Mutant: the handler is removed only when the hardware flag is still set.
StopIrqByFlag(u) ==
  /\ pc[u] = "irqoff"
  /\ IF irq /\ initHardware THEN handlers' = handlers - 1 /\ msi' = FALSE
                            ELSE UNCHANGED <<handlers, msi>>
  /\ Go(u, "pcioff")
  /\ UNCHANGED <<openCount, initHardware, adapter, irq, busMaster, overlapped>>

\* fIrq keeps its value.  Removing a handler that is not there does nothing.
StopIrq(u) ==
  /\ pc[u] = "irqoff"
  /\ IF irq THEN /\ handlers' = IF handlers > 0 THEN handlers - 1 ELSE 0
                 /\ msi' = FALSE
            ELSE UNCHANGED <<handlers, msi>>
  /\ Go(u, "pcioff")
  /\ UNCHANGED <<openCount, initHardware, adapter, irq, busMaster, overlapped>>

StopPci(u) ==
  /\ pc[u] = "pcioff"
  /\ busMaster' = FALSE
  /\ Go(u, "closed")
  /\ UNCHANGED <<openCount, initHardware, adapter, irq, handlers, msi, overlapped>>

-----------------------------------------------------------------------------

Init ==
  /\ pc = [u \in Users |-> "closed"]
  /\ openCount = 0
  /\ initHardware = FALSE /\ irq = FALSE /\ adapter = FALSE
  /\ handlers = 0 /\ msi = FALSE /\ busMaster = FALSE
  /\ overlapped = FALSE

Proceed(u) ==
  \/ StartPci(u) \/ StartMsi(u) \/ StartAdapter(u)
  \/ StartDone(u) \/ StartFailed(u)
  \/ StopAdapter(u) \/ StopFlag(u) \/ StopIrq(u) \/ StopPci(u)

Next == \E u \in Users : AcquireRef(u) \/ ReleaseRef(u) \/ Proceed(u)

Spec == Init /\ [][Next]_vars

-----------------------------------------------------------------------------

\* Every variable keeps to its type; fOpenCount may be any integer here.
TypeOK ==
  /\ pc \in [Users -> {"closed", "open"} \cup Starting \cup Stopping]
  /\ openCount \in Int
  /\ initHardware \in BOOLEAN /\ irq \in BOOLEAN /\ adapter \in BOOLEAN
  /\ handlers \in 0 .. MaxHandlers
  /\ msi \in BOOLEAN /\ busMaster \in BOOLEAN /\ overlapped \in BOOLEAN

\* fOpenCount is the number of users between a fetch_add and the matching
\* decrement, also when starts fail and while Start() and Stop() overlap: it
\* never sticks above zero, which would leave the GPU unstarted for ever.
OpenCountExact == openCount = Cardinality({u \in Users : Counted(u)})

\* Start() is run by one thread at a time, by the count alone.
OneStarter ==
  \A u, v \in Users : pc[u] \in Starting /\ pc[v] \in Starting => u = v

\* A user that holds a reference has a GPU that runs: the adapter is
\* initialised, its interrupt is delivered and it may master the bus.
ReferencedGpuIsUp ==
  NobodyBusy /\ (\E u \in Users : pc[u] = "open") =>
    adapter /\ initHardware /\ handlers > 0 /\ msi /\ busMaster

\* As long as no two opens or closes overlap it does, also after starts that
\* failed.
UpUnlessOverlapped == overlapped \/ ReferencedGpuIsUp

\* Then too, the last close leaves a quiet GPU, whatever starts failed before:
\* Stop() takes back all that Start() did.
OffAfterLastClose ==
  [][\A u \in Users : pc[u] = "pcioff" /\ pc'[u] = "closed" /\ ~overlapped =>
       ~adapter' /\ ~initHardware' /\ ~msi' /\ ~busMaster']_vars

=============================================================================
