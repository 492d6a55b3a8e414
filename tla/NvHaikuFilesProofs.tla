------------------------- MODULE NvHaikuFilesProofs -------------------------
(***************************************************************************)
(* The open files of NvHaikuFiles, for any number of files, threads, pages *)
(* and requests: they use the device as NvHaikuDevice says users do, so    *)
(* that what is proved of its open count and its hardware holds below      *)
(* them; and what a file keeps for its next NV_HAIKU_MAP is what the RM    *)
(* asked for.                                                              *)
(***************************************************************************)
EXTENDS NvHaikuFiles, FiniteSetTheorems, TLAPS

-----------------------------------------------------------------------------
(* The device, for any finite set of users: openCount counts exactly the   *)
(* users between fetch_add and decrement, which is what makes a counter    *)
(* that finds zero a lock around Start().                                  *)

CountInv == TypeOK /\ OpenCountExact /\ OneStarter

Referencing == {u \in Users : Counted(u)}

USE DEF Starting, Stopping, Go, Enter

\* Users are finite, so that their number is a natural number.
LEMMA ReferencingFinite ==
  IsFiniteSet(Referencing) /\ Cardinality(Referencing) \in Nat
BY UsersAssumption, FS_Subset, FS_CardinalityType DEF Referencing

\* A step that keeps who is counted keeps the count exact.
LEMMA SameCount ==
  ASSUME OpenCountExact, openCount' = openCount,
         \A u \in Users : Counted(u)' <=> Counted(u)
  PROVE  OpenCountExact'
<1>1. {u \in Users : Counted(u)}' = {u \in Users : Counted(u)}
  OBVIOUS
<1> QED
  BY <1>1 DEF OpenCountExact

\* A user who joins raises the number by one.
LEMMA OneMore ==
  ASSUME OpenCountExact, NEW u \in Users, ~Counted(u), Counted(u)',
         \A v \in Users \ {u} : Counted(v)' <=> Counted(v),
         openCount' = openCount + 1
  PROVE  OpenCountExact'
<1>1. Referencing' = Referencing \cup {u} /\ u \notin Referencing
  BY DEF Referencing
<1>2. Cardinality(Referencing') = Cardinality(Referencing) + 1
  BY <1>1, ReferencingFinite, FS_AddElement
<1> QED
  BY <1>2 DEF OpenCountExact, Referencing

\* A user who leaves lowers it by one.
LEMMA OneLess ==
  ASSUME OpenCountExact, NEW u \in Users, Counted(u), ~Counted(u)',
         \A v \in Users \ {u} : Counted(v)' <=> Counted(v),
         openCount' = openCount - 1
  PROVE  OpenCountExact'
<1>1. Referencing' = Referencing \ {u} /\ u \in Referencing
  BY DEF Referencing
<1>2. Cardinality(Referencing') = Cardinality(Referencing) - 1
  BY <1>1, ReferencingFinite, FS_RemoveElement
<1> QED
  BY <1>2 DEF OpenCountExact, Referencing

\* Whoever finds the count at zero is alone: nobody is inside Start().
LEMMA ZeroMeansNobody ==
  ASSUME OpenCountExact, openCount = 0
  PROVE  \A u \in Users : ~Counted(u)
<1>1. Referencing = {}
  BY ReferencingFinite, FS_EmptySet DEF OpenCountExact, Referencing
<1> QED
  BY <1>1 DEF Referencing

\* AcquireRef: the only step that brings a user into Start().
LEMMA AcquireStep ==
  ASSUME CountInv, NEW u \in Users, AcquireRef(u)
  PROVE  CountInv'
<1>1. TypeOK'
  BY DEF CountInv, TypeOK, AcquireRef, hwVars
<1>2. OpenCountExact'
  <2>1. ~Counted(u) /\ Counted(u)'
    BY DEF CountInv, TypeOK, AcquireRef, Counted
  <2>2. \A v \in Users \ {u} : Counted(v)' <=> Counted(v)
    BY DEF CountInv, TypeOK, AcquireRef, Counted
  <2> QED
    BY <2>1, <2>2, OneMore DEF CountInv, AcquireRef
<1>3. OneStarter'
  <2>1. CASE openCount = 0
    <3>1. \A v \in Users : pc[v] \notin Starting
      BY <2>1, ZeroMeansNobody DEF CountInv, Counted
    <3>2. \A v \in Users : pc'[v] \in Starting => v = u
      BY <3>1 DEF CountInv, TypeOK, AcquireRef
    <3> QED
      BY <3>2 DEF OneStarter
  <2>2. CASE openCount # 0
    <3>1. \A v \in Users : pc'[v] \in Starting => pc[v] \in Starting
      BY <2>2 DEF CountInv, TypeOK, AcquireRef
    <3> QED
      BY <3>1 DEF CountInv, OneStarter
  <2> QED
    BY <2>1, <2>2
<1> QED
  BY <1>1, <1>2, <1>3 DEF CountInv

\* ReleaseRef: its user is counted out and nobody enters Start().
LEMMA ReleaseStep ==
  ASSUME CountInv, NEW u \in Users, ReleaseRef(u)
  PROVE  CountInv'
<1>1. TypeOK'
  BY DEF CountInv, TypeOK, ReleaseRef, hwVars
<1>2. OpenCountExact'
  <2>1. Counted(u) /\ ~Counted(u)'
    BY DEF CountInv, TypeOK, ReleaseRef, Counted
  <2>2. \A v \in Users \ {u} : Counted(v)' <=> Counted(v)
    BY DEF CountInv, TypeOK, ReleaseRef, Counted
  <2> QED
    BY <2>1, <2>2, OneLess DEF CountInv, ReleaseRef
<1>3. \A v \in Users : pc'[v] \in Starting => pc[v] \in Starting
  BY DEF CountInv, TypeOK, ReleaseRef
<1> QED
  BY <1>1, <1>2, <1>3 DEF CountInv, OneStarter

\* The steps of Start() and Stop() count nobody in, and only the failed start
\* counts its user out.
LEMMA ProceedStep ==
  ASSUME CountInv, NEW u \in Users, Proceed(u)
  PROVE  CountInv'
<1> USE DEF CountInv, TypeOK, Counted, hwVars
<1>1. TypeOK'
  <2>1. CASE StartPci(u)
    BY <2>1 DEF StartPci
  <2>2. CASE StartMsi(u)
    BY <2>2, BoundAssumption DEF StartMsi
  <2>3. CASE StartAdapter(u)
    BY <2>3 DEF StartAdapter
  <2>4. CASE StartDone(u)
    BY <2>4 DEF StartDone
  <2>5. CASE StartFailed(u)
    BY <2>5 DEF StartFailed
  <2>6. CASE StopAdapter(u)
    BY <2>6 DEF StopAdapter
  <2>7. CASE StopFlag(u)
    BY <2>7 DEF StopFlag
  <2>8. CASE StopIrq(u)
    <3>1. handlers' = handlers \/ handlers' = 0 \/ (handlers > 0 /\ handlers' = handlers - 1)
      BY <2>8 DEF StopIrq
    <3>2. handlers' \in 0 .. MaxHandlers
      BY <3>1, BoundAssumption
    <3>3. msi' \in BOOLEAN
      BY <2>8 DEF StopIrq
    <3> QED
      BY <2>8, <3>2, <3>3 DEF StopIrq
  <2>9. CASE StopPci(u)
    BY <2>9 DEF StopPci
  <2> QED
    BY <2>1, <2>2, <2>3, <2>4, <2>5, <2>6, <2>7, <2>8, <2>9 DEF Proceed
<1>2. \A v \in Users : pc'[v] \in Starting => pc[v] \in Starting
  BY DEF Proceed, StartPci, StartMsi, StartAdapter, StartDone, StartFailed,
         StopAdapter, StopFlag, StopIrq, StopPci
<1>3. OpenCountExact'
  <2>1. CASE StartFailed(u)
    <3>1. /\ Counted(u) /\ ~Counted(u)'
          /\ \A v \in Users \ {u} : Counted(v)' <=> Counted(v)
          /\ openCount' = openCount - 1
      BY <2>1 DEF StartFailed
    <3> QED
      BY <3>1, OneLess
  <2>2. CASE ~StartFailed(u)
    <3>1. /\ openCount' = openCount
          /\ \A v \in Users : Counted(v)' <=> Counted(v)
      BY <2>2 DEF Proceed, StartPci, StartMsi, StartAdapter, StartDone,
                  StopAdapter, StopFlag, StopIrq, StopPci
    <3> QED
      BY <3>1, SameCount
  <2> QED
    BY <2>1, <2>2
<1> QED
  BY <1>1, <1>2, <1>3 DEF OneStarter

\* The count is exact and Start() is exclusive in every reachable state.
THEOREM CountInvariance == Spec => []CountInv
<1>1. Init => CountInv
  <2> SUFFICES ASSUME Init PROVE CountInv
    OBVIOUS
  <2>1. TypeOK /\ OneStarter
    <3>1. \A u \in Users : pc[u] = "closed"
      BY DEF Init
    <3>2. OneStarter
      BY <3>1 DEF OneStarter
    <3>3. 0 \in 0 .. MaxHandlers
      BY BoundAssumption
    <3>4. pc \in [Users -> {"closed", "open"} \cup Starting \cup Stopping]
      BY DEF Init
    <3>5. /\ initHardware \in BOOLEAN /\ irq \in BOOLEAN /\ adapter \in BOOLEAN
          /\ msi \in BOOLEAN /\ busMaster \in BOOLEAN /\ overlapped \in BOOLEAN
      BY Zenon DEF Init
    <3>7. openCount \in Int
      BY DEF Init
    <3>6. handlers \in 0 .. MaxHandlers
      BY <3>3 DEF Init
    <3> QED
      BY <3>2, <3>4, <3>5, <3>6, <3>7 DEF TypeOK
  <2>2. OpenCountExact
    <3>1. {u \in Users : Counted(u)} = {}
      BY DEF Init, Counted
    <3> QED
      BY <3>1, FS_EmptySet DEF Init, OpenCountExact
  <2> QED
    BY <2>1, <2>2 DEF CountInv
<1>2. CountInv /\ [Next]_vars => CountInv'
  <2> SUFFICES ASSUME CountInv, [Next]_vars PROVE CountInv'
    OBVIOUS
  <2>1. CASE UNCHANGED vars
    <3>1. \A u \in Users : Counted(u)' <=> Counted(u)
      BY <2>1 DEF vars, Counted
    <3>2. OpenCountExact'
      BY <2>1, <3>1, SameCount DEF vars, CountInv
    <3> QED
      BY <2>1, <3>2 DEF vars, hwVars, CountInv, TypeOK, OneStarter
  <2> QED
    BY <2>1, AcquireStep, ReleaseStep, ProceedStep DEF Next
<1> QED
  BY <1>1, <1>2, PTL DEF Spec

\* fOpenCount is the number of users that hold or are taking a reference.
THEOREM OpenCountCorrect == Spec => []OpenCountExact
<1>1. CountInv => OpenCountExact
  BY DEF CountInv
<1> QED
  BY <1>1, CountInvariance, PTL

\* No two threads are inside Start() at once, for any number of users and even
\* when starts fail.
THEOREM StartExclusive == Spec => []OneStarter
<1>1. CountInv => OneStarter
  BY DEF CountInv
<1> QED
  BY <1>1, CountInvariance, PTL

-----------------------------------------------------------------------------
(* The hardware, while no two calls of AcquireRef() and ReleaseRef()       *)
(* overlap: whoever is inside one is alone with it.                        *)

Busy(u) == pc[u] \in Starting \cup Stopping

Alone == \A u, v \in Users : Busy(u) /\ u # v => pc[v] = "closed"

\* What the hardware is like while u is at each place.
Hardware(u) ==
  /\ pc[u] = "msi" => busMaster
  /\ pc[u] \in {"init", "started", "open", "shutdown"} => handlers > 0 /\ msi /\ busMaster /\ irq
  /\ pc[u] \in {"started", "open", "shutdown"} => adapter
  /\ pc[u] \in {"open", "shutdown"} => initHardware
  /\ pc[u] \in {"down", "irqoff"} => irq
  /\ pc[u] = "pcioff" => ~msi

\* When the adapter and fInitHardware are up, some user accounts for it.
Accounted ==
  /\ adapter => \E u \in Users : pc[u] \in {"started", "open", "shutdown"}
  /\ initHardware => \E u \in Users : pc[u] \in {"open", "shutdown", "down"}

Sequential == ~overlapped => Alone /\ Accounted /\ \A u \in Users : Hardware(u)

DeviceInv == CountInv /\ Sequential

\* A call that overlaps no other finds everybody else outside.
LEMMA SequentialAcquire ==
  ASSUME DeviceInv, NEW u \in Users, AcquireRef(u)
  PROVE  Sequential'
<1> SUFFICES ASSUME ~overlapped' PROVE (Alone /\ Accounted /\ \A v \in Users : Hardware(v))'
  BY DEF Sequential
<1> USE DEF DeviceInv, CountInv, TypeOK
<1>1. ~overlapped /\ NobodyBusy /\ Alone /\ Accounted /\ \A v \in Users : Hardware(v)
  BY DEF AcquireRef, Sequential
<1>2. CASE openCount = 0
  <2>1. \A v \in Users : pc[v] = "closed"
    BY <1>1, <1>2, ZeroMeansNobody DEF NobodyBusy, Counted
  <2>2. pc' = [pc EXCEPT ![u] = "pci"] /\ UNCHANGED <<initHardware, adapter, irq, handlers, msi, busMaster>>
    BY <1>2 DEF AcquireRef, hwVars
  <2>3. Alone'
    BY <2>1, <2>2 DEF Alone, Busy
  <2>4. Accounted'
    BY <1>1, <2>1, <2>2 DEF Accounted
  <2>5. ASSUME NEW v \in Users PROVE Hardware(v)'
    BY <2>1, <2>2 DEF Hardware
  <2> QED
    BY <2>3, <2>4, <2>5
<1>3. CASE openCount # 0
  <2>1. PICK w \in Users : pc[w] = "open"
    <3>1. Referencing # {}
      BY <1>3, FS_EmptySet DEF OpenCountExact, Referencing
    <3> QED
      BY <1>1, <3>1 DEF NobodyBusy, Counted, Referencing
  <2>2. pc' = [pc EXCEPT ![u] = "open"] /\ UNCHANGED <<initHardware, adapter, irq, handlers, msi, busMaster>>
    BY <1>3 DEF AcquireRef, hwVars
  <2>3. Alone'
    BY <1>1, <2>2 DEF Alone, Busy, NobodyBusy
  <2>4. Accounted'
    BY <1>1, <2>2 DEF Accounted, NobodyBusy
  <2>5. ASSUME NEW v \in Users PROVE Hardware(v)'
    BY <1>1, <2>1, <2>2 DEF Hardware
  <2> QED
    BY <2>3, <2>4, <2>5
<1> QED
  BY <1>2, <1>3

\* The last one out finds nobody else in; any other leaves one behind.
LEMMA SequentialRelease ==
  ASSUME DeviceInv, NEW u \in Users, ReleaseRef(u)
  PROVE  Sequential'
<1> SUFFICES ASSUME ~overlapped' PROVE (Alone /\ Accounted /\ \A v \in Users : Hardware(v))'
  BY DEF Sequential
<1> USE DEF DeviceInv, CountInv, TypeOK
<1>1. ~overlapped /\ NobodyBusy /\ Alone /\ Accounted /\ \A v \in Users : Hardware(v)
  BY DEF ReleaseRef, Sequential
<1>2. /\ Referencing = {v \in Users : pc[v] = "open"} /\ u \in Referencing
      /\ Cardinality(Referencing) = openCount
  BY <1>1 DEF Referencing, Counted, NobodyBusy, ReleaseRef, OpenCountExact
<1>3. Cardinality(Referencing \ {u}) = openCount - 1 /\ IsFiniteSet(Referencing \ {u})
  BY <1>2, ReferencingFinite, FS_RemoveElement
<1>4. CASE openCount = 1
  <2>1. Referencing \ {u} = {}
    BY <1>3, <1>4, FS_EmptySet
  <2>2. \A v \in Users \ {u} : pc[v] = "closed"
    BY <1>1, <1>2, <2>1 DEF NobodyBusy
  <2>3. pc' = [pc EXCEPT ![u] = "shutdown"] /\ UNCHANGED <<initHardware, adapter, irq, handlers, msi, busMaster>>
    BY <1>4 DEF ReleaseRef, hwVars
  <2>4. Alone'
    BY <2>2, <2>3 DEF Alone, Busy
  <2>5. Accounted'
    BY <1>1, <2>3 DEF Accounted
  <2>6. ASSUME NEW v \in Users PROVE Hardware(v)'
    BY <1>1, <2>2, <2>3 DEF Hardware, ReleaseRef
  <2> QED
    BY <2>4, <2>5, <2>6
<1>5. CASE openCount # 1
  <2>1. PICK w \in Users : w # u /\ pc[w] = "open"
    <3>1. Referencing \ {u} # {}
      BY <1>3, <1>5, FS_EmptySet
    <3> QED
      BY <1>2, <3>1
  <2>2. pc' = [pc EXCEPT ![u] = "closed"] /\ UNCHANGED <<initHardware, adapter, irq, handlers, msi, busMaster>>
    BY <1>5 DEF ReleaseRef, hwVars
  <2>3. Alone'
    BY <1>1, <2>2 DEF Alone, Busy, NobodyBusy
  <2>4. Accounted'
    BY <1>1, <2>1, <2>2 DEF Accounted
  <2>5. ASSUME NEW v \in Users PROVE Hardware(v)'
    BY <1>1, <2>2 DEF Hardware
  <2> QED
    BY <2>3, <2>4, <2>5
<1> QED
  BY <1>4, <1>5

\* The steps of Start() and Stop(), each by whoever is alone.
LEMMA SequentialProceed ==
  ASSUME DeviceInv, NEW u \in Users, Proceed(u)
  PROVE  Sequential'
<1> SUFFICES ASSUME ~overlapped PROVE (Alone /\ Accounted /\ \A v \in Users : Hardware(v))'
  BY DEF Sequential, Proceed, StartPci, StartMsi, StartAdapter, StartDone, StartFailed,
         StopAdapter, StopFlag, StopIrq, StopPci
<1> USE DEF DeviceInv, CountInv, TypeOK, hwVars
<1>1. Alone /\ Accounted /\ Hardware(u)
  BY DEF Sequential
<1>2. Busy(u) /\ \A v \in Users \ {u} : pc[v] = "closed"
  <2>1. Busy(u)
    BY DEF Proceed, StartPci, StartMsi, StartAdapter, StartDone, StartFailed,
           StopAdapter, StopFlag, StopIrq, StopPci, Busy
  <2> QED
    BY <1>1, <2>1 DEF Alone
<1>3. /\ adapter => pc[u] \in {"started", "shutdown"}
      /\ initHardware => pc[u] \in {"shutdown", "down"}
  BY <1>1, <1>2 DEF Accounted, Busy
<1>4. \A v \in Users \ {u} : pc'[v] = "closed"
  BY <1>2 DEF Proceed, StartPci, StartMsi, StartAdapter, StartDone, StartFailed,
              StopAdapter, StopFlag, StopIrq, StopPci
<1>5. Alone' /\ \A v \in Users \ {u} : Hardware(v)'
  BY <1>4 DEF Alone, Busy, Hardware
<1>6. Hardware(u)' /\ (adapter' => pc'[u] \in {"started", "open", "shutdown"})
                   /\ (initHardware' => pc'[u] \in {"open", "shutdown", "down"})
  <2> USE <1>1, <1>3 DEF Hardware
  <2>1. CASE StartPci(u)
    BY <2>1 DEF StartPci
  <2>2. CASE StartMsi(u)
    BY <2>2 DEF StartMsi
  <2>3. CASE StartAdapter(u)
    BY <2>3 DEF StartAdapter
  <2>4. CASE StartDone(u)
    BY <2>4 DEF StartDone
  <2>5. CASE StartFailed(u)
    BY <2>5 DEF StartFailed
  <2>6. CASE StopAdapter(u)
    BY <2>6 DEF StopAdapter
  <2>7. CASE StopFlag(u)
    BY <2>7 DEF StopFlag
  <2>8. CASE StopIrq(u)
    BY <2>8 DEF StopIrq
  <2>9. CASE StopPci(u)
    BY <2>9 DEF StopPci
  <2> QED
    BY <2>1, <2>2, <2>3, <2>4, <2>5, <2>6, <2>7, <2>8, <2>9 DEF Proceed
<1>7. Accounted'
  BY <1>6 DEF Accounted
<1> QED
  BY <1>5, <1>6, <1>7

THEOREM DeviceInvariance == Spec => []DeviceInv
<1>1. Init => Sequential
  BY DEF Init, Sequential, Alone, Busy, Accounted, Hardware
<1>2. CountInv /\ Sequential /\ [Next]_vars => Sequential'
  <2> SUFFICES ASSUME DeviceInv, [Next]_vars PROVE Sequential'
    BY DEF DeviceInv
  <2>1. CASE UNCHANGED vars
    BY <2>1 DEF vars, hwVars, DeviceInv, Sequential, Alone, Busy, Accounted, Hardware
  <2> QED
    BY <2>1, SequentialAcquire, SequentialRelease, SequentialProceed DEF Next
<1> QED
  BY <1>1, <1>2, CountInvariance, PTL DEF Spec, DeviceInv

\* A user that holds a reference has a GPU that runs, for any number of users
\* and starts that fail, unless two opens or closes overlapped.
THEOREM UpCorrect == Spec => []UpUnlessOverlapped
<1>1. DeviceInv => UpUnlessOverlapped
  BY DEF DeviceInv, Sequential, Hardware, UpUnlessOverlapped, ReferencedGpuIsUp
<1> QED
  BY <1>1, DeviceInvariance, PTL

\* The last close leaves the adapter, MSI and bus mastering off.
THEOREM OffCorrect == Spec => OffAfterLastClose
<1>1. DeviceInv /\ [Next]_vars =>
        [\A u \in Users : pc[u] = "pcioff" /\ pc'[u] = "closed" /\ ~overlapped =>
           ~adapter' /\ ~initHardware' /\ ~msi' /\ ~busMaster']_vars
  <2> SUFFICES ASSUME DeviceInv, Next, NEW u \in Users, pc[u] = "pcioff", pc'[u] = "closed", ~overlapped
               PROVE  ~adapter' /\ ~initHardware' /\ ~msi' /\ ~busMaster'
    OBVIOUS
  <2>1. StopPci(u)
    <3>1. PICK v \in Users : AcquireRef(v) \/ ReleaseRef(v) \/ Proceed(v)
      BY DEF Next
    <3>2. v = u
      BY <3>1 DEF DeviceInv, CountInv, TypeOK, AcquireRef, ReleaseRef, Proceed, StartPci, StartMsi,
                  StartAdapter, StartDone, StartFailed, StopAdapter, StopFlag, StopIrq, StopPci
    <3> QED
      BY <3>1, <3>2 DEF AcquireRef, ReleaseRef, Proceed, StartPci, StartMsi, StartAdapter, StartDone,
                        StartFailed, StopAdapter, StopFlag, StopIrq
  <2>2. Alone /\ Accounted /\ Hardware(u)
    BY DEF DeviceInv, Sequential
  <2>3. ~adapter /\ ~initHardware /\ ~msi
    BY <2>2 DEF Alone, Busy, Accounted, Hardware
  <2> QED
    BY <2>1, <2>3 DEF StopPci
<1> QED
  BY <1>1, DeviceInvariance, PTL DEF Spec, OffAfterLastClose

HIDE DEF Starting, Stopping, Go, Enter

-----------------------------------------------------------------------------
(* The files implement the users of the device.                            *)

LEMMA StepIsDeviceStep == [FilesNext]_allVars => [Next]_vars
<1> SUFFICES ASSUME [FilesNext]_allVars PROVE [Next]_vars
  OBVIOUS
<1>1. CASE UNCHANGED allVars
  BY <1>1 DEF allVars
<1>2. ASSUME NEW t \in Threads, ThreadStep(t) PROVE [Next]_vars
  <2>1. ASSUME NEW f \in Files, OpenBegin(t, f) PROVE [Next]_vars
    BY <2>1, FilesAssumption DEF OpenBegin, Next
  <2>2. ASSUME NEW f \in Files, CloseBegin(t, f) PROVE [Next]_vars
    BY <2>2, FilesAssumption DEF CloseBegin, Next
  <2>3. ASSUME NEW f \in Files, NEW q \in Requests, MapLookup(t, f, q) PROVE [Next]_vars
    BY <2>3 DEF MapLookup
  <2>4. ASSUME NEW f \in Files, NEW op \in {"rm", "map"}, ControlBegin(t, f, op) PROVE [Next]_vars
    BY <2>4 DEF ControlBegin
  <2>5. CASE \/ OpenDone(t) \/ OpenFails(t) \/ CloseDone(t)
             \/ MapCheck(t) \/ MapFillAlloc(t) \/ MapFillRanges(t) \/ MapFillFails(t)
             \/ MapValid(t) \/ MapCaching(t)
             \/ ControlClosed(t) \/ ControlRm(t) \/ ControlRmDone(t)
             \/ ControlMap(t) \/ ControlMapDone(t)
    BY <2>5 DEF OpenDone, OpenFails, CloseDone, MapCheck, MapFillAlloc, MapFillRanges, MapFillFails,
                MapValid, MapCaching, ControlClosed, ControlRm, ControlRmDone, ControlMap, ControlMapDone
  <2> QED
    BY <1>2, <2>1, <2>2, <2>3, <2>4, <2>5 DEF ThreadStep
<1>3. ASSUME NEW f \in Files, OpenControl(f) \/ CloseControl(f) \/ Free(f) PROVE [Next]_vars
  BY <1>3 DEF OpenControl, CloseControl, Free
<1>4. ASSUME NEW a \in Allocs, nv_free_pages(a) \/ \E c \in Cachings : nv_alloc_pages(a, c)
      PROVE  [Next]_vars
  BY <1>4 DEF nv_free_pages, nv_alloc_pages
<1>5. ASSUME NEW u \in Users, Nvkms(u) \/ (Proceed(u) /\ UNCHANGED fileVars) PROVE [Next]_vars
  BY <1>5 DEF Nvkms, Next
<1> QED
  BY <1>1, <1>2, <1>3, <1>4, <1>5 DEF FilesNext

\* The open files and NVKMS use the device as the specification of the device
\* says: a handle takes one reference and gives it back once.
THEOREM FilesUseDevice == FilesSpec => Spec
<1>1. FilesInit => Init
  BY DEF FilesInit
<1> QED
  BY <1>1, StepIsDeviceStep, PTL DEF FilesSpec, Spec

\* The device's invariant, and what follows from it, below the open files.
THEOREM FilesDeviceInv == FilesSpec => []DeviceInv
  BY FilesUseDevice, DeviceInvariance, PTL

-----------------------------------------------------------------------------
(* The state of the files.                                                 *)

Descriptors == {"none", "opening", "open", "closing", "closed"}
Places == {"idle", "opening", "closing", "control", "rm", "area"} \cup Filling
Areas == [mem : Allocs \cup Vram, type : {"write combining", "uncached", "keep"}]
Contexts == [valid : BOOLEAN, alloc : Allocs \cup {None}, ranges : Vram \cup {None},
             caching : Cachings \cup {"cached"}]

Typed ==
  /\ fd \in [Files -> Descriptors]
  /\ fClosed \in [Files -> BOOLEAN]
  /\ ctx \in [Files -> Contexts]
  /\ arrays \in Int
  /\ memory \in [Allocs -> Cachings \cup {None}]
  /\ call \in [Threads -> [at : Places, file : Files \cup {None},
                           arg : Requests \cup Areas \cup {"rm", "map", None}]]
  /\ asked \in [Files -> Requests \cup {None}]
  /\ disturbed \in BOOLEAN
  /\ \A t \in Threads : /\ call[t].at # "idle" => call[t].file \in Files
                        /\ call[t].at \in Filling => call[t].arg \in Requests

\* What a step does to the calls.
LEMMA BeginFacts ==
  ASSUME Typed, NEW t \in Threads, NEW at, NEW f, NEW arg, Begin(t, at, f, arg)
  PROVE  /\ call[t] = Idle /\ call[t].at = "idle"
         /\ call'[t] = [at |-> at, file |-> f, arg |-> arg]
         /\ \A s \in Threads \ {t} : call'[s] = call[s]
BY DEF Begin, Typed, Idle

LEMMA StepFacts ==
  ASSUME Typed, NEW t \in Threads, NEW from, NEW to, Step(t, from, to)
  PROVE  /\ call[t].at = from
         /\ call'[t] = [at |-> to, file |-> call[t].file, arg |-> call[t].arg]
         /\ \A s \in Threads \ {t} : call'[s] = call[s]
BY DEF Step, Typed

LEMMA ReturnFacts ==
  ASSUME Typed, NEW t \in Threads, NEW from, Return(t, from)
  PROVE  /\ call[t].at = from
         /\ call'[t] = Idle /\ call'[t].at = "idle" /\ call'[t].file = None
         /\ \A s \in Threads \ {t} : call'[s] = call[s]
BY DEF Return, Typed, Idle

Calls == [at : Places, file : Files \cup {None}, arg : Requests \cup Areas \cup {"rm", "map", None}]

CallTyped(c) == /\ c \in Calls
                /\ c.at # "idle" => c.file \in Files
                /\ c.at \in Filling => c.arg \in Requests

\* One thread's call changes to one of the right type.
LEMMA CallsTyped ==
  ASSUME Typed, NEW t \in Threads, NEW c, CallTyped(c), call' = [call EXCEPT ![t] = c]
  PROVE  /\ call' \in [Threads -> Calls]
         /\ \A s \in Threads : /\ call'[s].at # "idle" => call'[s].file \in Files
                               /\ call'[s].at \in Filling => call'[s].arg \in Requests
BY DEF Typed, CallTyped, Calls

LEMMA IdleTyped == CallTyped(Idle)
BY DEF CallTyped, Calls, Idle, Places, Filling

LEMMA StepTyped ==
  ASSUME Typed, NEW t \in Threads, NEW from, NEW to, Step(t, from, to), to \in Places,
         from # "idle", to \in Filling => from \in Filling
  PROVE  /\ call' \in [Threads -> Calls]
         /\ \A s \in Threads : /\ call'[s].at # "idle" => call'[s].file \in Files
                               /\ call'[s].at \in Filling => call'[s].arg \in Requests
BY DEF Typed, Calls, Step

LEMMA EmptyTyped ==
  /\ Empty \in Contexts
  /\ \A a \in Allocs : [Empty EXCEPT !.alloc = a] \in Contexts
  /\ \A v \in Vram : [Empty EXCEPT !.ranges = v] \in Contexts
BY DEF Empty, Contexts

\* The area that NV_HAIKU_MAP is about to make.
LEMMA MappedTyped ==
  ASSUME Typed, NEW f \in Files, Followed(f) => ctx[f].alloc # None, Mapped(f) # None
  PROVE  Mapped(f) \in Areas
<1>1. \A c : to_haiku_cache_type(c) \in {"write combining", "uncached", "keep"}
  BY DEF to_haiku_cache_type
<1>2. ctx[f] \in Contexts
  BY DEF Typed
<1>3. CASE f \in CtlFiles
  <2>1. ctx[f].alloc \in Allocs
    BY <1>2, <1>3 DEF Followed, Mapped, Contexts
  <2> QED
    BY <1>1, <1>3, <2>1 DEF Mapped, Areas
<1>4. CASE f \notin CtlFiles
  <2>1. ctx[f].ranges \in Vram
    BY <1>2, <1>4 DEF Mapped, Contexts
  <2> QED
    BY <1>1, <1>4, <2>1 DEF Mapped, Areas
<1> QED
  BY <1>3, <1>4

LEMMA ThreadStepTyped ==
  ASSUME Typed, NEW t \in Threads, ThreadStep(t)
  PROVE  Typed'
<1> DEFINE CallsOK ==
      /\ call' \in [Threads -> Calls]
      /\ \A s \in Threads : /\ call'[s].at # "idle" => call'[s].file \in Files
                            /\ call'[s].at \in Filling => call'[s].arg \in Requests
<1> USE DEF Calls
<1>0. /\ disturbed \in BOOLEAN
      /\ \A b : Disturb(b) => disturbed' \in BOOLEAN
      /\ call \in [Threads -> Calls]
  BY DEF Disturb, Typed
<1>1. ASSUME NEW f \in Files, OpenBegin(t, f) PROVE Typed'
  <2>1. CallTyped([at |-> "opening", file |-> f, arg |-> None])
    BY DEF CallTyped, Places, Filling
  <2>2. CallsOK
    BY <1>1, <2>1, CallsTyped DEF OpenBegin, Begin
  <2> HIDE DEF CallsOK
  <2> QED
    BY <1>1, <2>2 DEF OpenBegin, Typed, CallsOK, Descriptors
<1>2. ASSUME NEW f \in Files, CloseBegin(t, f) PROVE Typed'
  <2>1. CallTyped([at |-> "closing", file |-> f, arg |-> None])
    BY DEF CallTyped, Places, Filling
  <2>2. CallsOK
    BY <1>2, <2>1, CallsTyped DEF CloseBegin, Begin
  <2>3. disturbed' \in BOOLEAN
    BY <1>0, <1>2 DEF CloseBegin, CloseUnder
  <2> HIDE DEF CallsOK
  <2> QED
    BY <1>2, <2>2, <2>3 DEF CloseBegin, Typed, CallsOK, Descriptors
<1>3. ASSUME NEW f \in Files, NEW q \in Requests, MapLookup(t, f, q) PROVE Typed'
  <2>1. CallTyped([at |-> "found", file |-> f, arg |-> q])
    BY DEF CallTyped, Places, Filling
  <2>2. CallsOK
    BY <1>3, <2>1, CallsTyped DEF MapLookup, Begin
  <2>3. disturbed' \in BOOLEAN
    BY <1>0, <1>3 DEF MapLookup
  <2> HIDE DEF CallsOK
  <2> QED
    BY <1>3, <2>2, <2>3 DEF MapLookup, Typed, CallsOK
<1>4. ASSUME NEW f \in Files, NEW op \in {"rm", "map"}, ControlBegin(t, f, op) PROVE Typed'
  <2>1. CallTyped([at |-> "control", file |-> f, arg |-> op])
    BY DEF CallTyped, Places, Filling
  <2>2. CallsOK
    BY <1>4, <2>1, CallsTyped DEF ControlBegin, Begin
  <2> HIDE DEF CallsOK
  <2> QED
    BY <1>4, <2>2 DEF ControlBegin, Typed, CallsOK
<1>5. CASE OpenDone(t) \/ OpenFails(t) \/ CloseDone(t)
  <2>1. CallsOK
    BY <1>5, IdleTyped, CallsTyped DEF OpenDone, OpenFails, CloseDone, Return
  <2> HIDE DEF CallsOK
  <2> QED
    BY <1>5, <2>1 DEF OpenDone, OpenFails, CloseDone, Typed, CallsOK, Descriptors
<1>6. CASE MapCheck(t)
  <2>1. CASE Return(t, "found")
    BY <1>6, <2>1, IdleTyped, CallsTyped DEF MapCheck, Return, Typed
  <2>2. CASE Step(t, "found", "clear")
    BY <1>6, <2>2, StepTyped DEF MapCheck, Places, Filling, Typed
  <2> QED
    BY <1>6, <2>1, <2>2 DEF MapCheck
<1>7. CASE MapFillAlloc(t)
  <2>1. CallsOK
    BY <1>7, StepTyped DEF MapFillAlloc, Places, Filling
  <2>2. ctx' \in [Files -> Contexts]
    BY <1>7, EmptyTyped DEF MapFillAlloc, Store, Typed
  <2> HIDE DEF CallsOK
  <2> QED
    BY <1>7, <2>1, <2>2 DEF MapFillAlloc, Typed, CallsOK
<1>8. CASE MapFillRanges(t)
  <2>1. CallsOK
    BY <1>8, StepTyped DEF MapFillRanges, Places, Filling
  <2>2. ctx' \in [Files -> Contexts]
    BY <1>8, EmptyTyped DEF MapFillRanges, Store, Typed
  <2> HIDE DEF CallsOK
  <2> QED
    BY <1>8, <2>1, <2>2 DEF MapFillRanges, Typed, CallsOK
<1>9. CASE MapFillFails(t)
  <2>1. CallsOK
    BY <1>9, IdleTyped, CallsTyped DEF MapFillFails, Return
  <2>2. ctx' \in [Files -> Contexts]
    BY <1>9, EmptyTyped DEF MapFillFails, Store, Typed
  <2> HIDE DEF CallsOK
  <2> QED
    BY <1>9, <2>1, <2>2 DEF MapFillFails, Typed, CallsOK
<1>10. CASE MapValid(t)
  <2>1. CallsOK
    BY <1>10, StepTyped DEF MapValid, Places, Filling
  <2>2. ctx' \in [Files -> Contexts]
    <3>1. \A x \in Contexts : [x EXCEPT !.valid = TRUE] \in Contexts
      BY DEF Contexts
    <3>2. \A f \in Files : [ctx[f] EXCEPT !.valid = TRUE] \in Contexts
      BY <3>1 DEF Typed
    <3> QED
      BY <1>10, <3>2 DEF MapValid, Typed
  <2> HIDE DEF CallsOK
  <2> QED
    BY <1>10, <2>1, <2>2 DEF MapValid, Typed, CallsOK
<1>11. CASE MapCaching(t)
  <2>1. CallsOK
    BY <1>11, IdleTyped, CallsTyped DEF MapCaching, Return
  <2>2. call[t].arg \in Requests
    BY <1>11 DEF MapCaching, Return, Typed, Filling
  <2>3. ctx' \in [Files -> Contexts]
    <3>1. call[t].file \in Files /\ call[t].arg.caching \in Cachings
      BY <1>11, <2>2 DEF MapCaching, Return, Typed, Requests
    <3>2. ctx[call[t].file] \in Contexts
      BY <3>1 DEF Typed
    <3>3. [ctx[call[t].file] EXCEPT !.caching = call[t].arg.caching] \in Contexts
      BY <3>1, <3>2 DEF Contexts
    <3> QED
      BY <1>11, <3>1, <3>3 DEF MapCaching, Typed
  <2>4. asked' \in [Files -> Requests \cup {None}]
    BY <1>11, <2>2 DEF MapCaching, Typed
  <2> HIDE DEF CallsOK
  <2> QED
    BY <1>11, <2>1, <2>3, <2>4 DEF MapCaching, Typed, CallsOK
<1>12. CASE ControlClosed(t) \/ ControlRmDone(t) \/ ControlMapDone(t)
  <2>1. CallsOK
    BY <1>12, IdleTyped, CallsTyped DEF ControlClosed, ControlRmDone, ControlMapDone, Return
  <2> HIDE DEF CallsOK
  <2> QED
    BY <1>12, <2>1 DEF ControlClosed, ControlRmDone, ControlMapDone, Typed, CallsOK
<1>13. CASE ControlRm(t)
  <2>1. CallsOK
    BY <1>13, StepTyped DEF ControlRm, Places, Filling
  <2>2. disturbed' \in BOOLEAN
    BY <1>0, <1>13 DEF ControlRm
  <2> HIDE DEF CallsOK
  <2> QED
    BY <1>13, <2>1, <2>2 DEF ControlRm, Typed, CallsOK
<1>14. CASE ControlMap(t)
  <2> DEFINE f == call[t].file
             c == [at |-> "area", file |-> f, arg |-> Mapped(f)]
  <2>1. f \in Files
    BY <1>14 DEF ControlMap, Typed
  <2>2. disturbed' \in BOOLEAN
    BY <1>0, <1>14 DEF ControlMap
  <2>3. CallsOK
    <3>1. CASE Mapped(f) = None
      BY <1>14, <3>1, IdleTyped, CallsTyped DEF ControlMap, Return
    <3>2. CASE Mapped(f) # None
      <4>1. Mapped(f) \in Areas
        BY <1>14, <2>1, <3>2, MappedTyped DEF ControlMap
      <4>2. CallTyped(c)
        BY <2>1, <4>1 DEF CallTyped, Places, Filling
      <4> QED
        BY <1>14, <3>2, <4>2, CallsTyped DEF ControlMap
    <3> QED
      BY <3>1, <3>2
  <2> HIDE DEF CallsOK
  <2> QED
    BY <1>14, <2>2, <2>3 DEF ControlMap, Typed, CallsOK
<1> QED
  BY <1>1, <1>2, <1>3, <1>4, <1>5, <1>6, <1>7, <1>8, <1>9, <1>10, <1>11, <1>12, <1>13, <1>14
     DEF ThreadStep

THEOREM FilesTypeCorrect == FilesSpec => []Typed
<1>1. FilesInit => Typed
  <2> SUFFICES ASSUME FilesInit PROVE Typed
    OBVIOUS
  <2>1. /\ fd \in [Files -> Descriptors]
        /\ fClosed \in [Files -> BOOLEAN]
        /\ ctx \in [Files -> Contexts]
        /\ arrays \in Int
        /\ memory \in [Allocs -> Cachings \cup {None}]
        /\ asked \in [Files -> Requests \cup {None}]
    BY EmptyTyped DEF FilesInit, Descriptors
  <2>2. disturbed \in BOOLEAN
    BY Zenon DEF FilesInit
  <2>3. call \in [Threads -> Calls] /\ \A t \in Threads : call[t].at = "idle"
    BY DEF FilesInit, Idle, Calls, Places
  <2> QED
    BY <2>1, <2>2, <2>3 DEF Typed, Calls, Filling
<1>2. Typed /\ [FilesNext]_allVars => Typed'
  <2> SUFFICES ASSUME Typed, [FilesNext]_allVars PROVE Typed'
    OBVIOUS
  <2>1. CASE UNCHANGED allVars
    BY <2>1 DEF allVars, fileVars, Typed
  <2>2. ASSUME NEW f \in Files, OpenControl(f) \/ CloseControl(f) \/ Free(f) PROVE Typed'
    <3>1. CASE OpenControl(f)
      BY <3>1 DEF OpenControl, Typed, Descriptors
    <3>2. CASE CloseControl(f)
      <4>1. disturbed' \in BOOLEAN
        BY <3>2 DEF CloseControl, CloseUnder, Disturb, Typed
      <4> QED
        BY <3>2, <4>1 DEF CloseControl, Typed, Descriptors
    <3>3. CASE Free(f)
      <4>1. arrays' \in Int
        BY <3>3 DEF Free, Typed
      <4> QED
        BY <3>3, <4>1, EmptyTyped DEF Free, Forget, Typed, Descriptors
    <3> QED
      BY <2>2, <3>1, <3>2, <3>3
  <2>3. ASSUME NEW a \in Allocs, nv_free_pages(a) \/ \E c \in Cachings : nv_alloc_pages(a, c)
        PROVE  Typed'
    BY <2>3 DEF nv_free_pages, nv_alloc_pages, Disturb, Typed
  <2>4. ASSUME UNCHANGED fileVars PROVE Typed'
    BY <2>4 DEF fileVars, Typed
  <2> QED
    BY <2>1, <2>2, <2>3, <2>4, ThreadStepTyped DEF FilesNext, Nvkms
<1> QED
  BY <1>1, <1>2, PTL DEF FilesSpec

-----------------------------------------------------------------------------
(* What a file keeps.                                                      *)

\* The thread that opens or closes a file has it to itself, and an open GPU file
\* holds its reference.
Life ==
  /\ \A f \in GpuFiles : fd[f] = "open" => pc[f] = "open"
  /\ \A t \in Threads : call[t].at \in {"opening", "closing"} => fd[call[t].file] = call[t].at
  /\ \A s, t \in Threads : /\ s # t /\ call[s].at \in {"opening", "closing"}
                           /\ call[t].at \in {"opening", "closing"}
                           => call[s].file # call[t].file

At(f, place) == \E t \in Threads : call[t].file = f /\ call[t].at = place

\* The context of f names the memory of request q, as its kind of file does.
Holds(f, q) ==
  \/ q.mem \in Allocs /\ ctx[f].alloc = q.mem /\ ctx[f].ranges = None
  \/ q.mem \in Vram /\ f \in GpuFiles /\ ctx[f].alloc = None /\ ctx[f].ranges = q.mem

\* The pages of request q are still those it was made for.
Backed(q) == q.mem \in Allocs => memory[q.mem] = q.caching

ThreadInv(t) == LET f == call[t].file
                    q == call[t].arg IN
  /\ call[t].at \in {"rm"} \cup Filling => fd[f] = "open"
  /\ call[t].at \in Filling => Backed(q)
  /\ call[t].at = "clear" => ~ctx[f].valid /\ ctx[f].ranges = None
  /\ call[t].at = "filled" => ~ctx[f].valid /\ Holds(f, q)
  /\ call[t].at = "valid" => ctx[f].valid /\ Holds(f, q)
  /\ call[t].at = "area" =>
       /\ ctx[f].valid /\ ~At(f, "valid") /\ asked[f] \in Requests
       /\ q = [mem |-> asked[f].mem, type |-> to_haiku_cache_type(asked[f].caching)]

FileInv(f) ==
  /\ fd[f] \in {"none", "opening"} => ctx[f] = Empty
  /\ ~ctx[f].valid /\ ~At(f, "filled") => ctx[f].ranges = None
  /\ ctx[f].valid /\ ~At(f, "valid") =>
       /\ asked[f] \in Requests /\ Holds(f, asked[f]) /\ Backed(asked[f])
       /\ asked[f].mem \in Vram => ctx[f].caching = asked[f].caching

\* No two threads fill the context of one file.
Apart == \A s, t \in Threads : s # t /\ call[s].at \in Filling /\ call[t].at \in Filling =>
           call[s].file # call[t].file

Calm == ~disturbed => Apart /\ (\A t \in Threads : ThreadInv(t)) /\ \A f \in Files : FileInv(f)

FilesInv == Typed /\ DeviceInv /\ Life /\ Calm /\ RangesAccounted

\* The opening and closing of files; all else leaves it alone.
LEMMA LifeStep ==
  ASSUME Typed, DeviceInv, Life, [FilesNext]_allVars
  PROVE  Life'
<1> USE DEF Life, Go
<1>0. pc \in [Users -> {"closed", "open"} \cup Starting \cup Stopping]
  BY DEF DeviceInv, CountInv, TypeOK
<1>1. CASE UNCHANGED allVars
  BY <1>1 DEF allVars, fileVars, vars
<1>2. ASSUME NEW t \in Threads, NEW f \in Files, OpenBegin(t, f) PROVE Life'
  <2>1. Begin(t, "opening", f, None)
    BY <1>2 DEF OpenBegin
  <2>2. /\ call'[t] = [at |-> "opening", file |-> f, arg |-> None]
        /\ \A s \in Threads \ {t} : call'[s] = call[s]
    BY <2>1, BeginFacts
  <2>3. fd[f] = "none" /\ fd' = [fd EXCEPT ![f] = "opening"] /\ fd \in [Files -> Descriptors]
    BY <1>2 DEF OpenBegin, Typed
  <2>4. pc[f] = "closed" /\ \A g \in Users \ {f} : pc'[g] = pc[g]
    BY <1>0, <1>2 DEF OpenBegin, AcquireRef
  <2>5. \A g \in GpuFiles : fd'[g] = "open" => pc'[g] = "open"
    BY <2>3, <2>4, FilesAssumption DEF Files
  <2>6. \A s \in Threads : call'[s].at \in {"opening", "closing"} => fd'[call'[s].file] = call'[s].at
    BY <2>2, <2>3 DEF Typed
  <2> QED
    BY <2>2, <2>3, <2>5, <2>6
<1>3. ASSUME NEW t \in Threads, NEW f \in Files, CloseBegin(t, f) PROVE Life'
  <2>1. Begin(t, "closing", f, None)
    BY <1>3 DEF CloseBegin
  <2>2. /\ call'[t] = [at |-> "closing", file |-> f, arg |-> None]
        /\ \A s \in Threads \ {t} : call'[s] = call[s]
    BY <2>1, BeginFacts
  <2>3. fd[f] = "open" /\ fd' = [fd EXCEPT ![f] = "closing"] /\ fd \in [Files -> Descriptors]
    BY <1>3 DEF CloseBegin, Typed
  <2>4. \A g \in Users \ {f} : pc'[g] = pc[g]
    BY <1>0, <1>3 DEF CloseBegin, ReleaseRef
  <2>5. \A g \in GpuFiles : fd'[g] = "open" => pc'[g] = "open"
    BY <2>3, <2>4, FilesAssumption DEF Files
  <2>6. \A s \in Threads : call'[s].at \in {"opening", "closing"} => fd'[call'[s].file] = call'[s].at
    BY <2>2, <2>3 DEF Typed
  <2> QED
    BY <2>2, <2>3, <2>5, <2>6
<1>4. ASSUME NEW t \in Threads, OpenDone(t) \/ OpenFails(t) \/ CloseDone(t) PROVE Life'
  <2> DEFINE f == call[t].file
  <2>1. Return(t, "opening") \/ Return(t, "closing")
    BY <1>4 DEF OpenDone, OpenFails, CloseDone
  <2>2. /\ call[t].at \in {"opening", "closing"} /\ call'[t].at = "idle"
        /\ \A s \in Threads \ {t} : call'[s] = call[s]
    BY <2>1, ReturnFacts
  <2>3. /\ fd' \in {[fd EXCEPT ![f] = "open"], [fd EXCEPT ![f] = "none"], [fd EXCEPT ![f] = "closed"]}
        /\ fd' = [fd EXCEPT ![f] = "open"] => pc[f] = "open" \/ fd' = [fd EXCEPT ![f] = "none"]
                                              \/ fd' = [fd EXCEPT ![f] = "closed"]
        /\ UNCHANGED pc /\ fd \in [Files -> Descriptors]
    BY <1>4 DEF OpenDone, OpenFails, CloseDone, vars, Typed
  <2>4. \A s \in Threads \ {t} : call[s].at \in {"opening", "closing"} => call[s].file # f
    BY <2>2
  <2>5. \A s \in Threads : call'[s].at \in {"opening", "closing"} => fd'[call'[s].file] = call'[s].at
    BY <2>2, <2>3, <2>4 DEF Typed
  <2>6. \A g \in GpuFiles : fd'[g] = "open" => pc'[g] = "open"
    BY <2>3, FilesAssumption DEF Files
  <2> QED
    BY <2>2, <2>5, <2>6
<1>5. ASSUME UNCHANGED <<fd, pc>>,
             \A t \in Threads : call'[t].at \in {"opening", "closing"} => call'[t] = call[t]
      PROVE  Life'
  BY <1>5
<1>6. ASSUME NEW t \in Threads, ThreadStep(t),
             ~OpenDone(t), ~OpenFails(t), ~CloseDone(t),
             \A f \in Files : ~OpenBegin(t, f) /\ ~CloseBegin(t, f)
      PROVE  Life'
  <2>1. UNCHANGED <<fd, pc>>
    BY <1>6 DEF ThreadStep, MapLookup, ControlBegin, MapCheck, MapFillAlloc, MapFillRanges, MapFillFails,
         MapValid, MapCaching, ControlClosed, ControlRm, ControlRmDone, ControlMap, ControlMapDone, vars
  <2>2. \/ \E f \in Files : \/ \E q \in Requests : Begin(t, "found", f, q)
                            \/ \E op \in {"rm", "map"} : Begin(t, "control", f, op)
        \/ Step(t, "found", "clear") \/ Step(t, "clear", "filled") \/ Step(t, "filled", "valid")
        \/ Step(t, "control", "rm")
        \/ \E p \in Places : Return(t, p)
        \/ call' = [call EXCEPT ![t] = [at |-> "area", file |-> call[t].file, arg |-> Mapped(call[t].file)]]
    BY <1>6 DEF ThreadStep, MapLookup, ControlBegin, MapCheck, MapFillAlloc, MapFillRanges, MapFillFails,
         MapValid, MapCaching, ControlClosed, ControlRm, ControlRmDone, ControlMap, ControlMapDone, Places, Filling
  <2>3. call'[t].at \notin {"opening", "closing"} /\ \A s \in Threads \ {t} : call'[s] = call[s]
    <3>1. CASE call' = [call EXCEPT ![t] = [at |-> "area", file |-> call[t].file, arg |-> Mapped(call[t].file)]]
      BY <3>1 DEF Typed
    <3>2. ASSUME NEW f \in Files, NEW q, Begin(t, "found", f, q) \/ Begin(t, "control", f, q)
          PROVE  call'[t].at \notin {"opening", "closing"} /\ \A s \in Threads \ {t} : call'[s] = call[s]
      <4>1. CASE Begin(t, "found", f, q)
        <5>1. call'[t] = [at |-> "found", file |-> f, arg |-> q] /\ \A s \in Threads \ {t} : call'[s] = call[s]
          BY <4>1, BeginFacts
        <5> QED
          BY <5>1
      <4>2. CASE Begin(t, "control", f, q)
        <5>1. call'[t] = [at |-> "control", file |-> f, arg |-> q] /\ \A s \in Threads \ {t} : call'[s] = call[s]
          BY <4>2, BeginFacts
        <5> QED
          BY <5>1
      <4> QED
        BY <3>2, <4>1, <4>2
    <3>3. CASE \/ Step(t, "found", "clear") \/ Step(t, "clear", "filled") \/ Step(t, "filled", "valid")
               \/ Step(t, "control", "rm")
      <4>1. /\ call'[t].at \in {"clear", "filled", "valid", "rm"}
            /\ \A s \in Threads \ {t} : call'[s] = call[s]
        BY <3>3 DEF Step, Typed
      <4> QED
        BY <4>1
    <3>4. ASSUME NEW p \in Places, Return(t, p)
          PROVE  call'[t].at \notin {"opening", "closing"} /\ \A s \in Threads \ {t} : call'[s] = call[s]
      BY <3>4, ReturnFacts
    <3> QED
      BY <2>2, <3>1, <3>2, <3>3, <3>4
  <2> QED
    BY <2>1, <2>3, <1>5
<1>7. ASSUME NEW f \in Files, OpenControl(f) \/ CloseControl(f) PROVE Life'
  <2>1. /\ f \in CtlFiles /\ fd[f] \in {"none", "open"} /\ UNCHANGED <<pc, call>>
        /\ fd' \in {[fd EXCEPT ![f] = "open"], [fd EXCEPT ![f] = "closed"]}
        /\ fd \in [Files -> Descriptors]
    BY <1>7 DEF OpenControl, CloseControl, vars, Typed
  <2>2. \A g \in GpuFiles : fd'[g] = fd[g]
    BY <2>1, FilesAssumption DEF Files
  <2>3. \A t \in Threads : call[t].at \in {"opening", "closing"} => fd'[call[t].file] = call[t].at
    BY <2>1 DEF Typed
  <2> QED
    BY <2>1, <2>2, <2>3
<1>8. ASSUME NEW f \in Files, Free(f) PROVE Life'
  <2>1. /\ fd[f] = "closed" /\ UNCHANGED <<pc, call>> /\ fd' = [fd EXCEPT ![f] = "none"]
        /\ fd \in [Files -> Descriptors]
    BY <1>8 DEF Free, Forget, vars, Typed
  <2>2. \A t \in Threads : call[t].at \in {"opening", "closing"} => fd'[call[t].file] = call[t].at
    BY <2>1 DEF Typed
  <2> QED
    BY <2>1, <2>2, FilesAssumption DEF Files
<1>9. ASSUME NEW a \in Allocs, nv_free_pages(a) \/ \E c \in Cachings : nv_alloc_pages(a, c)
      PROVE  Life'
  BY <1>9, <1>5 DEF nv_free_pages, nv_alloc_pages, vars
<1>10. ASSUME NEW u \in Users \ GpuFiles, Nvkms(u) PROVE Life'
  <2>1. \A g \in Users \ {u} : pc'[g] = pc[g]
    BY <1>0, <1>10 DEF Nvkms, AcquireRef, ReleaseRef
  <2> QED
    BY <1>10, <2>1, FilesAssumption DEF Nvkms, fileVars
<1>11. ASSUME NEW u \in Users, Proceed(u), UNCHANGED fileVars PROVE Life'
  <2>1. pc[u] # "open" /\ \A g \in Users \ {u} : pc'[g] = pc[g]
    BY <1>0, <1>11 DEF Proceed, StartPci, StartMsi, StartAdapter, StartDone, StartFailed,
           StopAdapter, StopFlag, StopIrq, StopPci
  <2> QED
    BY <1>11, <2>1, FilesAssumption DEF fileVars
<1> QED
  BY <1>1, <1>2, <1>3, <1>4, <1>6, <1>7, <1>8, <1>9, <1>10, <1>11 DEF FilesNext, ThreadStep

\* A call that is none, or is about f.
Mine(c, f) == c.at = "idle" \/ c.file = f

Here(f) == /\ \A s \in Threads : call[s].file = f => ThreadInv(s)
           /\ FileInv(f)

\* A step that is about file f alone is of no concern to the others.
LEMMA Elsewhere ==
  ASSUME NEW f \in Files, Calm, ~disturbed, UNCHANGED memory,
         \A g \in Files \ {f} : fd'[g] = fd[g] /\ ctx'[g] = ctx[g] /\ asked'[g] = asked[g],
         \A s \in Threads : call'[s] = call[s] \/ (Mine(call[s], f) /\ Mine(call'[s], f)),
         Typed, Typed', Here(f)', Apart'
  PROVE  Calm'
<1>1. ASSUME NEW g \in Files \ {f}, NEW place \in Places \ {"idle"} PROVE At(g, place)' <=> At(g, place)
  BY <1>1 DEF At, Mine
<1>2. ASSUME NEW g \in Files \ {f} PROVE FileInv(g)'
  <2>1. FileInv(g)
    BY <1>2 DEF Calm
  <2>2. (At(g, "filled")' <=> At(g, "filled")) /\ (At(g, "valid")' <=> At(g, "valid"))
    BY <1>1, <1>2 DEF Places, Filling
  <2>3. fd'[g] = fd[g] /\ ctx'[g] = ctx[g] /\ asked'[g] = asked[g]
    BY <1>2
  <2>4. (Holds(g, asked[g])' <=> Holds(g, asked[g])) /\ (Backed(asked[g])' <=> Backed(asked[g]))
    BY <2>3 DEF Holds, Backed
  <2> QED
    BY <2>1, <2>2, <2>3, <2>4 DEF FileInv
<1>3. ASSUME NEW s \in Threads PROVE ThreadInv(s)'
  <2>1. CASE call'[s].at = "idle"
    BY <2>1 DEF ThreadInv, Filling
  <2>2. CASE call'[s].at # "idle" /\ call'[s].file = f
    BY <2>2 DEF Here
  <2>3. CASE call'[s].at # "idle" /\ call'[s].file # f
    <3>1. call'[s] = call[s] /\ ThreadInv(s)
      BY <2>3 DEF Mine, Calm
    <3> DEFINE g == call[s].file
               q == call[s].arg
    <3>2. g \in Files \ {f}
      BY <2>3, <3>1 DEF Typed
    <3>3. fd'[g] = fd[g] /\ ctx'[g] = ctx[g] /\ asked'[g] = asked[g]
      BY <3>2
    <3>4. At(g, "valid")' <=> At(g, "valid")
      BY <1>1, <3>2, <3>1 DEF Places, Filling
    <3>5. (Holds(g, q)' <=> Holds(g, q)) /\ (Backed(q)' <=> Backed(q))
      BY <3>1, <3>3 DEF Holds, Backed
    <3> QED
      BY <3>1, <3>3, <3>4, <3>5 DEF ThreadInv
  <2> QED
    BY <2>1, <2>2, <2>3
<1> QED
  BY <1>2, <1>3 DEF Calm, Here

\* The thread that fills a context is the only one that does.
LEMMA Filler ==
  ASSUME Calm, ~disturbed, NEW t \in Threads, call[t].at \in Filling, NEW s \in Threads, s # t,
         call[s].file = call[t].file
  PROVE  call[s].at \notin Filling
BY DEF Calm, Apart

LEMMA CalmOpenClose ==
  ASSUME Typed, Typed', Life, Calm, ~disturbed', NEW t \in Threads,
         \/ \E f \in Files : OpenBegin(t, f) \/ CloseBegin(t, f)
         \/ OpenDone(t) \/ OpenFails(t) \/ CloseDone(t)
  PROVE  Calm'
<1> USE DEF Filling
<1>1. ASSUME NEW f \in Files, OpenBegin(t, f) \/ CloseBegin(t, f) PROVE Calm'
  <2>1. Begin(t, "opening", f, None) \/ Begin(t, "closing", f, None)
    BY <1>1 DEF OpenBegin, CloseBegin
  <2>2. /\ call'[t].at \in {"opening", "closing"} /\ call'[t].file = f /\ call[t].at = "idle"
        /\ \A s \in Threads \ {t} : call'[s] = call[s]
    <3>1. CASE Begin(t, "opening", f, None)
      <4>1. /\ call'[t] = [at |-> "opening", file |-> f, arg |-> None] /\ call[t].at = "idle"
            /\ \A s \in Threads \ {t} : call'[s] = call[s]
        BY <3>1, BeginFacts
      <4> QED
        BY <4>1
    <3>2. CASE Begin(t, "closing", f, None)
      <4>1. /\ call'[t] = [at |-> "closing", file |-> f, arg |-> None] /\ call[t].at = "idle"
            /\ \A s \in Threads \ {t} : call'[s] = call[s]
        BY <3>2, BeginFacts
      <4> QED
        BY <4>1
    <3> QED
      BY <2>1, <3>1, <3>2
  <2>3. /\ UNCHANGED <<ctx, memory, asked>> /\ ~disturbed
        /\ \A g \in Files \ {f} : fd'[g] = fd[g]
        /\ fd[f] = "none" \/ (fd[f] = "open" /\ \A s \in Touching(f) : call[s].at \notin {"rm"} \cup Filling)
        /\ fd[f] = "none" => fd'[f] = "opening"
        /\ fd[f] = "open" => fd'[f] = "closing"
    BY <1>1 DEF OpenBegin, CloseBegin, CloseUnder, Disturb, Typed, Descriptors
  <2>4. \A place \in Places \ {"idle", "opening", "closing"} : At(f, place)' <=> At(f, place)
    BY <2>2 DEF At, Places
  <2>5. FileInv(f) /\ \A s \in Threads : ThreadInv(s)
    BY <2>3 DEF Calm
  <2>6. FileInv(f)'
    BY <2>3, <2>4, <2>5 DEF FileInv, Holds, Backed, Places
  <2>7. ASSUME NEW s \in Threads, call'[s].file = f PROVE ThreadInv(s)'
    <3>1. CASE s = t
      BY <2>2, <3>1 DEF ThreadInv
    <3>2. CASE s # t
      <4>1. call'[s] = call[s] /\ ThreadInv(s) /\ call[s].file = f
        BY <2>2, <2>5, <2>7, <3>2
      <4>2. call[s].at \notin {"rm"} \cup Filling
        BY <2>3, <4>1 DEF ThreadInv, Touching
      <4>3. ~At(f, "valid") => ~At(f, "valid")'
        BY <2>4 DEF Places
      <4> QED
        BY <2>3, <4>1, <4>2, <4>3 DEF ThreadInv
    <3> QED
      BY <3>1, <3>2
  <2>8. Apart'
    BY <2>2, <2>3 DEF Calm, Apart
  <2>9. \A s \in Threads : call'[s] = call[s] \/ (Mine(call[s], f) /\ Mine(call'[s], f))
    BY <2>2 DEF Mine
  <2> QED
    BY <2>3, <2>6, <2>7, <2>8, <2>9, Elsewhere DEF Here
<1>2. CASE OpenDone(t) \/ OpenFails(t) \/ CloseDone(t)
  <2>1. Return(t, "opening") \/ Return(t, "closing")
    BY <1>2 DEF OpenDone, OpenFails, CloseDone
  <2>2. /\ call[t].at \in {"opening", "closing"} /\ call'[t].at = "idle"
        /\ \A s \in Threads \ {t} : call'[s] = call[s]
    BY <2>1, ReturnFacts
  <2>3. PICK f \in Files : f = call[t].file /\ fd[f] = call[t].at
    BY <2>2 DEF Typed, Life
  <2>4. /\ UNCHANGED <<ctx, memory, asked>> /\ ~disturbed
        /\ \A g \in Files \ {f} : fd'[g] = fd[g]
        /\ fd[f] = "closing" => fd'[f] = "closed"
    <3>1. CASE OpenDone(t) \/ OpenFails(t)
      BY <2>3, <3>1 DEF OpenDone, OpenFails, Return, Typed, Descriptors
    <3>2. CASE CloseDone(t)
      BY <2>3, <3>2 DEF CloseDone, Return, Typed, Descriptors
    <3> QED
      BY <1>2, <3>1, <3>2
  <2>5. \A place \in Places \ {"idle", "opening", "closing"} : At(f, place)' <=> At(f, place)
    BY <2>2 DEF At, Places
  <2>6. FileInv(f) /\ \A s \in Threads : ThreadInv(s)
    BY <2>3, <2>4 DEF Calm
  <2>7. FileInv(f)'
    BY <2>2, <2>3, <2>4, <2>5, <2>6 DEF FileInv, Holds, Backed, Places
  <2>8. ASSUME NEW s \in Threads, call'[s].file = f PROVE ThreadInv(s)'
    <3>1. CASE s = t
      BY <2>2, <3>1 DEF ThreadInv
    <3>2. CASE s # t
      <4>1. call'[s] = call[s] /\ ThreadInv(s) /\ call[s].file = f
        BY <2>2, <2>6, <2>8, <3>2
      <4>2. call[s].at \notin {"rm"} \cup Filling
        BY <2>2, <2>3, <4>1 DEF ThreadInv
      <4>3. ~At(f, "valid") => ~At(f, "valid")'
        BY <2>5 DEF Places
      <4> QED
        BY <2>4, <4>1, <4>2, <4>3 DEF ThreadInv
    <3> QED
      BY <3>1, <3>2
  <2>9. Apart'
    BY <2>2, <2>4 DEF Calm, Apart
  <2>10. \A s \in Threads : call'[s] = call[s] \/ (Mine(call[s], f) /\ Mine(call'[s], f))
    BY <2>2, <2>3 DEF Mine
  <2> QED
    BY <2>3, <2>4, <2>7, <2>8, <2>9, <2>10, Elsewhere DEF Here
<1> QED
  BY <1>1, <1>2

\* Calls move on that do not change what files keep.
LEMMA CalmCall ==
  ASSUME Typed, Typed', Calm, ~disturbed, NEW t \in Threads, NEW f \in Files,
         UNCHANGED <<fd, ctx, memory, asked>>,
         \A s \in Threads \ {t} : call'[s] = call[s],
         Mine(call[t], f), Mine(call'[t], f),
         call[t].at \notin {"filled", "valid"}, call'[t].at \notin {"filled", "valid"},
         call'[t].file = f => ThreadInv(t)',
         call'[t].at \in Filling => \A s \in Threads \ {t} : call[s].file = f => call[s].at \notin Filling
  PROVE  Calm'
<1>1. \A place \in {"filled", "valid"} : At(f, place)' <=> At(f, place)
  BY DEF At
<1>2. FileInv(f) /\ \A s \in Threads : ThreadInv(s)
  BY DEF Calm
<1>3. FileInv(f)'
  BY <1>1, <1>2 DEF FileInv, Holds, Backed
<1>4. ASSUME NEW s \in Threads, call'[s].file = f PROVE ThreadInv(s)'
  <2>1. CASE s = t
    BY <1>4, <2>1
  <2>2. CASE s # t
    <3>1. call'[s] = call[s] /\ ThreadInv(s) /\ call[s].file = f
      BY <1>2, <1>4, <2>2
    <3> QED
      BY <1>1, <3>1 DEF ThreadInv, Holds, Backed
  <2> QED
    BY <2>1, <2>2
<1>5. Apart'
  <2> SUFFICES ASSUME NEW s \in Threads, NEW r \in Threads, r # s,
                      call'[s].at \in Filling, call'[r].at \in Filling
               PROVE  call'[s].file # call'[r].file
    BY DEF Apart
  <2>1. CASE s # t /\ r # t
    BY <2>1 DEF Calm, Apart
  <2>2. CASE s = t
    BY <2>2 DEF Mine, Filling
  <2>3. CASE r = t
    BY <2>3 DEF Mine, Filling
  <2> QED
    BY <2>1, <2>2, <2>3
<1>6. \A s \in Threads : call'[s] = call[s] \/ (Mine(call[s], f) /\ Mine(call'[s], f))
  OBVIOUS
<1> QED
  BY <1>3, <1>4, <1>5, <1>6, Elsewhere DEF Here

LEMMA CalmControl ==
  ASSUME Typed, Typed', Calm, ~disturbed', NEW t \in Threads,
         \/ \E f \in Files, op \in {"rm", "map"} : ControlBegin(t, f, op)
         \/ ControlClosed(t) \/ ControlRm(t) \/ ControlRmDone(t) \/ ControlMapDone(t)
  PROVE  Calm'
<1> USE DEF Mine, Filling
<1>1. ASSUME NEW f \in Files, NEW op \in {"rm", "map"}, ControlBegin(t, f, op) PROVE Calm'
  <2>1. Begin(t, "control", f, op) /\ UNCHANGED <<fd, ctx, memory, asked, disturbed>>
    BY <1>1 DEF ControlBegin
  <2>2. /\ call[t].at = "idle" /\ call'[t] = [at |-> "control", file |-> f, arg |-> op]
        /\ \A s \in Threads \ {t} : call'[s] = call[s]
    BY <2>1, BeginFacts
  <2>3. ThreadInv(t)'
    BY <2>2 DEF ThreadInv
  <2> QED
    BY <2>1, <2>2, <2>3, CalmCall
<1>2. CASE ControlClosed(t) \/ ControlRmDone(t) \/ ControlMapDone(t)
  <2>1. /\ UNCHANGED <<fd, ctx, memory, asked, disturbed>>
        /\ Return(t, "control") \/ Return(t, "rm") \/ Return(t, "area")
    BY <1>2 DEF ControlClosed, ControlRmDone, ControlMapDone
  <2>2. /\ call[t].at \in {"control", "rm", "area"} /\ call'[t].at = "idle"
        /\ \A s \in Threads \ {t} : call'[s] = call[s]
    BY <2>1, ReturnFacts
  <2>3. PICK f \in Files : f = call[t].file
    BY <2>2 DEF Typed
  <2>4. ThreadInv(t)'
    BY <2>2 DEF ThreadInv
  <2> QED
    BY <2>1, <2>2, <2>3, <2>4, CalmCall
<1>3. CASE ControlRm(t)
  <2>1. /\ UNCHANGED <<fd, ctx, memory, asked>> /\ ~disturbed
        /\ Step(t, "control", "rm") /\ fd[call[t].file] = "open"
    BY <1>3 DEF ControlRm, Disturb
  <2>2. /\ call[t].at = "control" /\ call'[t] = [at |-> "rm", file |-> call[t].file, arg |-> call[t].arg]
        /\ \A s \in Threads \ {t} : call'[s] = call[s]
    BY <2>1, StepFacts
  <2>3. PICK f \in Files : f = call[t].file
    BY <2>2 DEF Typed
  <2>4. ThreadInv(t)'
    BY <2>1, <2>2 DEF ThreadInv
  <2> QED
    BY <2>1, <2>2, <2>3, <2>4, CalmCall
<1> QED
  BY <1>1, <1>2, <1>3

\* NV_HAIKU_MAP finds a context that nobody is about to change.
LEMMA CalmMap ==
  ASSUME Typed, Typed', Calm, ~disturbed', NEW t \in Threads, ControlMap(t)
  PROVE  Calm'
<1> USE DEF Mine, Filling
<1>1. PICK f \in Files : f = call[t].file
  BY DEF ControlMap, Typed
<1>2. /\ UNCHANGED <<fd, ctx, memory, asked>> /\ ~disturbed /\ call[t].at = "control"
      /\ ~At(f, "valid") /\ (Followed(f) => ctx[f].alloc # None)
  BY <1>1 DEF ControlMap, Disturb, Touching, At
<1>3. CASE Mapped(f) = None
  <2>1. Return(t, "control")
    BY <1>1, <1>3 DEF ControlMap
  <2>2. call'[t].at = "idle" /\ \A s \in Threads \ {t} : call'[s] = call[s]
    BY <2>1, ReturnFacts
  <2>3. ThreadInv(t)'
    BY <2>2 DEF ThreadInv
  <2> QED
    BY <1>1, <1>2, <2>2, <2>3, CalmCall
<1>4. CASE Mapped(f) # None
  <2>1. /\ call'[t] = [at |-> "area", file |-> f, arg |-> Mapped(f)]
        /\ \A s \in Threads \ {t} : call'[s] = call[s]
    BY <1>1, <1>4 DEF ControlMap, Typed
  <2>2. ctx[f].valid
    BY <1>4 DEF Mapped
  <2>3. /\ asked[f] \in Requests /\ Holds(f, asked[f]) /\ Backed(asked[f])
        /\ asked[f].mem \in Vram => ctx[f].caching = asked[f].caching
    BY <1>2, <2>2 DEF Calm, FileInv
  <2>4. Mapped(f) = [mem |-> asked[f].mem, type |-> to_haiku_cache_type(asked[f].caching)]
    <3>1. CASE f \in CtlFiles
      <4>1. f \notin GpuFiles
        BY <3>1, FilesAssumption
      <4>2. asked[f].mem \in Allocs /\ ctx[f].alloc = asked[f].mem /\ memory[ctx[f].alloc] = asked[f].caching
        BY <2>3, <4>1 DEF Holds, Backed
      <4> QED
        BY <2>2, <3>1, <4>2 DEF Mapped
    <3>2. CASE f \notin CtlFiles
      <4>1. ctx[f].ranges # None
        BY <1>4, <2>2, <3>2 DEF Mapped
      <4>2. asked[f].mem \in Vram /\ ctx[f].ranges = asked[f].mem /\ ctx[f].caching = asked[f].caching
        BY <2>3, <4>1 DEF Holds
      <4> QED
        BY <2>2, <3>2, <4>1, <4>2 DEF Mapped
    <3> QED
      BY <3>1, <3>2
  <2>5. ~At(f, "valid")'
    BY <1>2, <2>1 DEF At
  <2>6. ThreadInv(t)'
    BY <1>2, <2>1, <2>2, <2>3, <2>4, <2>5 DEF ThreadInv
  <2> QED
    BY <1>1, <1>2, <2>1, <2>6, CalmCall
<1> QED
  BY <1>3, <1>4

\* The lookup, and the test for a context that is in use.
LEMMA CalmLookup ==
  ASSUME Typed, Typed', Calm, ~disturbed', NEW t \in Threads,
         (\E f \in Files, q \in Requests : MapLookup(t, f, q)) \/ MapCheck(t)
  PROVE  Calm'
<1> USE DEF Mine, Filling
<1>1. ASSUME NEW f \in Files, NEW q \in Requests, MapLookup(t, f, q) PROVE Calm'
  <2>1. /\ Begin(t, "found", f, q) /\ UNCHANGED <<fd, ctx, memory, asked>> /\ ~disturbed
        /\ fd[f] = "open" /\ (q.mem \in Allocs => memory[q.mem] = q.caching)
        /\ \A s \in Threads : call[s].file = f => call[s].at \notin Filling
    BY <1>1 DEF MapLookup, Disturb, Touching, FromFd
  <2>2. /\ call[t].at = "idle" /\ call'[t] = [at |-> "found", file |-> f, arg |-> q]
        /\ \A s \in Threads \ {t} : call'[s] = call[s]
    BY <2>1, BeginFacts
  <2>3. ThreadInv(t)'
    BY <2>1, <2>2 DEF ThreadInv, Backed
  <2> QED
    BY <2>1, <2>2, <2>3, CalmCall
<1>2. CASE MapCheck(t)
  <2>1. PICK f \in Files : f = call[t].file
    BY <1>2 DEF MapCheck, Typed
  <2>2. /\ UNCHANGED <<fd, ctx, memory, asked, disturbed>> /\ call[t].at = "found"
    BY <1>2 DEF MapCheck
  <2>3. CASE ctx[f].valid
    <3>1. Return(t, "found")
      BY <1>2, <2>1, <2>3 DEF MapCheck
    <3>2. call'[t].at = "idle" /\ \A s \in Threads \ {t} : call'[s] = call[s]
      BY <3>1, ReturnFacts
    <3>3. ThreadInv(t)'
      BY <3>2 DEF ThreadInv
    <3> QED
      BY <2>1, <2>2, <3>2, <3>3, CalmCall
  <2>4. CASE ~ctx[f].valid
    <3>1. Step(t, "found", "clear")
      BY <1>2, <2>1, <2>4 DEF MapCheck
    <3>2. /\ call'[t] = [at |-> "clear", file |-> f, arg |-> call[t].arg]
          /\ \A s \in Threads \ {t} : call'[s] = call[s]
      BY <2>1, <3>1, StepFacts
    <3>3. \A s \in Threads \ {t} : call[s].file = f => call[s].at \notin Filling
      BY <2>1, <2>2, Filler
    <3>4. ~At(f, "filled")
      BY <2>2, <3>3 DEF At
    <3>5. ctx[f].ranges = None
      BY <2>2, <2>4, <3>4 DEF Calm, FileInv
    <3>6. fd[f] = "open" /\ Backed(call[t].arg)
      BY <2>1, <2>2 DEF Calm, ThreadInv
    <3>7. ThreadInv(t)'
      BY <2>2, <2>4, <3>2, <3>5, <3>6 DEF ThreadInv, Backed
    <3> QED
      BY <2>1, <2>2, <3>2, <3>3, <3>7, CalmCall
  <2> QED
    BY <2>3, <2>4
<1> QED
  BY <1>1, <1>2

\* A thread that fills the context of f stores in it what its request names; the
\* others in f neither fill it nor have an area of it.
LEMMA CalmStore ==
  ASSUME Typed, Typed', Calm, ~disturbed, NEW t \in Threads, NEW f \in Files, f = call[t].file,
         UNCHANGED <<fd, memory>>, call[t].at \in {"clear", "filled", "valid"},
         \A g \in Files \ {f} : ctx'[g] = ctx[g] /\ asked'[g] = asked[g],
         call'[t].at = "idle" \/ (call'[t].at \in Filling /\ call'[t].file = f),
         \A s \in Threads \ {t} : call'[s] = call[s],
         call'[t].at # "idle" => ThreadInv(t)', FileInv(f)'
  PROVE  Calm'
<1> USE DEF Filling, Mine
<1>1. \A s \in Threads \ {t} : call[s].file = f => call[s].at \notin Filling
  BY Filler
<1>2. \A s \in Threads : ThreadInv(s)
  BY DEF Calm
<1>3. \A s \in Threads : call[s].file = f => call[s].at # "area"
  <2> SUFFICES ASSUME NEW s \in Threads, call[s].file = f, call[s].at = "area" PROVE FALSE
    OBVIOUS
  <2>1. ctx[f].valid /\ ~At(f, "valid")
    BY <1>2 DEF ThreadInv
  <2>2. ~(call[t].at = "valid")
    BY <2>1 DEF At
  <2>3. ~ctx[f].valid
    BY <1>2, <2>2 DEF ThreadInv
  <2> QED
    BY <2>1, <2>3
<1>4. ASSUME NEW s \in Threads, call'[s].file = f PROVE ThreadInv(s)'
  <2>1. CASE s = t /\ call'[t].at # "idle"
    BY <2>1
  <2>2. CASE s = t /\ call'[t].at = "idle"
    BY <2>2 DEF ThreadInv
  <2>3. CASE s # t
    <3>1. call'[s] = call[s] /\ ThreadInv(s) /\ call[s].file = f
      BY <1>2, <1>4, <2>3
    <3>2. call[s].at \notin Filling /\ call[s].at # "area"
      BY <1>1, <1>3, <2>3, <3>1
    <3> QED
      BY <3>1, <3>2 DEF ThreadInv
  <2> QED
    BY <2>1, <2>2, <2>3
<1>5. Apart'
  BY DEF Calm, Apart
<1>6. \A s \in Threads : call'[s] = call[s] \/ (Mine(call[s], f) /\ Mine(call'[s], f))
  OBVIOUS
<1> QED
  BY <1>4, <1>5, <1>6, Elsewhere DEF Here

LEMMA CalmFill ==
  ASSUME Typed, Typed', Calm, ~disturbed', NEW t \in Threads,
         MapFillAlloc(t) \/ MapFillRanges(t) \/ MapFillFails(t) \/ MapValid(t) \/ MapCaching(t)
  PROVE  Calm'
<1> USE DEF Filling
<1>1. /\ UNCHANGED <<fd, memory, disturbed>> /\ call[t].at \in {"clear", "filled", "valid"}
  BY DEF MapFillAlloc, MapFillRanges, MapFillFails, MapValid, MapCaching, Step, Return
<1>2. PICK f \in Files : f = call[t].file
  BY <1>1 DEF Typed
<1>3. PICK q \in Requests : q = call[t].arg
  BY <1>1 DEF Typed
<1>4. ThreadInv(t) /\ FileInv(f) /\ fd[f] = "open" /\ Backed(q)
  BY <1>1, <1>2, <1>3 DEF Calm, ThreadInv
<1>5. ctx \in [Files -> Contexts] /\ ctx[f] \in Contexts
  BY DEF Typed
<1>6. \A s \in Threads \ {t} : call[s].file = f => call[s].at \notin Filling
  BY <1>1, <1>2, Filler
<1>7. CASE MapFillAlloc(t)
  <2>1. Step(t, "clear", "filled") /\ q.mem \in Allocs /\ UNCHANGED asked
        /\ ctx' = [ctx EXCEPT ![f] = [Empty EXCEPT !.alloc = q.mem]]
    BY <1>2, <1>3, <1>7 DEF MapFillAlloc, Store
  <2>2. /\ call'[t] = [at |-> "filled", file |-> f, arg |-> q]
        /\ \A s \in Threads \ {t} : call'[s] = call[s]
    BY <1>2, <1>3, <2>1, StepFacts
  <2>3. ~ctx'[f].valid /\ ctx'[f].alloc = q.mem /\ ctx'[f].ranges = None
        /\ \A g \in Files \ {f} : ctx'[g] = ctx[g]
    BY <1>5, <2>1 DEF Empty
  <2>4. ThreadInv(t)'
    BY <1>1, <1>4, <2>1, <2>2, <2>3 DEF ThreadInv, Holds, Backed
  <2>5. FileInv(f)'
    BY <1>1, <1>4, <2>3 DEF FileInv
  <2> QED
    BY <1>1, <1>2, <2>1, <2>2, <2>3, <2>4, <2>5, CalmStore
<1>8. CASE MapFillRanges(t)
  <2>1. Step(t, "clear", "filled") /\ q.mem \in Vram /\ f \in GpuFiles /\ UNCHANGED asked
        /\ ctx' = [ctx EXCEPT ![f] = [Empty EXCEPT !.ranges = q.mem]]
    BY <1>2, <1>3, <1>8 DEF MapFillRanges, Store
  <2>2. /\ call'[t] = [at |-> "filled", file |-> f, arg |-> q]
        /\ \A s \in Threads \ {t} : call'[s] = call[s]
    BY <1>2, <1>3, <2>1, StepFacts
  <2>3. ~ctx'[f].valid /\ ctx'[f].ranges = q.mem /\ ctx'[f].alloc = None
        /\ \A g \in Files \ {f} : ctx'[g] = ctx[g]
    BY <1>5, <2>1 DEF Empty
  <2>4. ThreadInv(t)'
    BY <1>1, <1>4, <2>1, <2>2, <2>3 DEF ThreadInv, Holds, Backed
  <2>5. FileInv(f)'
    BY <1>1, <1>4, <2>2, <2>3 DEF FileInv, At
  <2> QED
    BY <1>1, <1>2, <2>1, <2>2, <2>3, <2>4, <2>5, CalmStore
<1>9. CASE MapFillFails(t)
  <2>1. Return(t, "clear") /\ UNCHANGED asked /\ ctx' = [ctx EXCEPT ![f] = Empty]
    BY <1>2, <1>9 DEF MapFillFails, Store
  <2>2. call'[t].at = "idle" /\ \A s \in Threads \ {t} : call'[s] = call[s]
    BY <2>1, ReturnFacts
  <2>3. ~ctx'[f].valid /\ ctx'[f].ranges = None /\ \A g \in Files \ {f} : ctx'[g] = ctx[g]
    BY <1>5, <2>1 DEF Empty
  <2>4. FileInv(f)'
    BY <1>1, <1>4, <2>3 DEF FileInv
  <2> QED
    BY <1>1, <1>2, <2>1, <2>2, <2>3, <2>4, CalmStore
<1>10. CASE MapValid(t)
  <2>1. Step(t, "filled", "valid") /\ UNCHANGED asked /\ ctx' = [ctx EXCEPT ![f] = [ctx[f] EXCEPT !.valid = TRUE]]
    BY <1>2, <1>10 DEF MapValid
  <2>2. /\ call'[t] = [at |-> "valid", file |-> f, arg |-> q] /\ call[t].at = "filled"
        /\ \A s \in Threads \ {t} : call'[s] = call[s]
    BY <1>2, <1>3, <2>1, StepFacts
  <2>3. ctx'[f].valid /\ ctx'[f].ranges = ctx[f].ranges /\ ctx'[f].alloc = ctx[f].alloc
        /\ \A g \in Files \ {f} : ctx'[g] = ctx[g]
    BY <1>5, <2>1 DEF Contexts
  <2>4. Holds(f, q)
    BY <1>2, <1>3, <1>4, <2>2 DEF ThreadInv
  <2>5. ThreadInv(t)'
    BY <1>1, <1>4, <2>2, <2>3, <2>4 DEF ThreadInv, Holds, Backed
  <2>6. FileInv(f)'
    BY <1>1, <1>4, <2>2, <2>3 DEF FileInv, At
  <2> QED
    BY <1>1, <1>2, <2>1, <2>2, <2>3, <2>5, <2>6, CalmStore
<1>11. CASE MapCaching(t)
  <2>1. /\ Return(t, "valid") /\ asked' = [asked EXCEPT ![f] = q]
        /\ ctx' = [ctx EXCEPT ![f] = [ctx[f] EXCEPT !.caching = q.caching]]
    BY <1>2, <1>3, <1>11 DEF MapCaching
  <2>2. call[t].at = "valid" /\ call'[t].at = "idle" /\ \A s \in Threads \ {t} : call'[s] = call[s]
    BY <2>1, ReturnFacts
  <2>3. /\ ctx'[f].valid = ctx[f].valid /\ ctx'[f].ranges = ctx[f].ranges /\ ctx'[f].alloc = ctx[f].alloc
        /\ ctx'[f].caching = q.caching /\ \A g \in Files \ {f} : ctx'[g] = ctx[g]
    BY <1>5, <2>1 DEF Contexts
  <2>4. asked'[f] = q /\ \A g \in Files \ {f} : asked'[g] = asked[g]
    BY <2>1 DEF Typed
  <2>5. ctx[f].valid /\ Holds(f, q)
    BY <1>2, <1>3, <1>4, <2>2 DEF ThreadInv
  <2>6. FileInv(f)'
    BY <1>1, <1>4, <2>3, <2>4, <2>5 DEF FileInv, Holds, Backed
  <2> QED
    BY <1>1, <1>2, <2>2, <2>3, <2>4, <2>6, CalmStore
<1> QED
  BY <1>7, <1>8, <1>9, <1>10, <1>11

\* The control device's hooks, and the end of a handle.
LEMMA CalmFile ==
  ASSUME Typed, Typed', Calm, ~disturbed', NEW f \in Files, OpenControl(f) \/ CloseControl(f) \/ Free(f)
  PROVE  Calm'
<1> USE DEF Filling
<1>1. /\ UNCHANGED <<call, memory>> /\ ~disturbed
      /\ \A g \in Files \ {f} : fd'[g] = fd[g] /\ ctx'[g] = ctx[g] /\ asked'[g] = asked[g]
  BY DEF OpenControl, CloseControl, CloseUnder, Disturb, Free, Forget, Typed
<1>2. FileInv(f) /\ (\A s \in Threads : ThreadInv(s)) /\ Apart'
  BY <1>1 DEF Calm, Apart
<1>3. \A s \in Threads : call[s].file = f => call[s].at \notin {"rm"} \cup Filling
  <2>1. CASE OpenControl(f)
    BY <1>2, <2>1 DEF OpenControl, ThreadInv
  <2>2. CASE CloseControl(f)
    BY <2>2 DEF CloseControl, CloseUnder, Disturb, Touching
  <2>3. CASE Free(f)
    BY <1>2, <2>3 DEF Free, ThreadInv
  <2> QED
    BY <2>1, <2>2, <2>3
<1>4. CASE OpenControl(f) \/ CloseControl(f)
  <2>1. /\ UNCHANGED <<ctx, asked>> /\ fd'[f] \in {"open", "closed"}
    BY <1>4 DEF OpenControl, CloseControl, Typed
  <2>2. FileInv(f)'
    BY <1>1, <1>2, <2>1 DEF FileInv, Holds, Backed, At
  <2>3. \A s \in Threads : call[s].file = f => ThreadInv(s)'
    BY <1>1, <1>2, <1>3, <2>1 DEF ThreadInv, At
  <2> QED
    BY <1>1, <1>2, <2>2, <2>3, Elsewhere DEF Here
<1>5. CASE Free(f)
  <2>1. ctx'[f] = Empty
    BY <1>5 DEF Free, Forget, Typed
  <2>2. FileInv(f)'
    BY <2>1 DEF FileInv, Empty
  <2>3. \A s \in Threads : call[s].file = f => call[s].at # "area"
    BY <1>5 DEF Free, Inside
  <2>4. \A s \in Threads : call[s].file = f => ThreadInv(s)'
    BY <1>1, <1>3, <2>3 DEF ThreadInv
  <2> QED
    BY <1>1, <1>2, <2>2, <2>4, Elsewhere DEF Here
<1> QED
  BY <1>4, <1>5

\* Pages come and go beside the files that name other pages.
LEMMA CalmPages ==
  ASSUME Typed, Calm, ~disturbed', NEW a \in Allocs,
         nv_free_pages(a) \/ \E c \in Cachings : nv_alloc_pages(a, c)
  PROVE  Calm'
<1> USE DEF Filling
<1>1. /\ UNCHANGED <<fd, ctx, call, asked>> /\ ~disturbed
      /\ \A b \in Allocs \ {a} : memory'[b] = memory[b]
  BY DEF nv_free_pages, nv_alloc_pages, Disturb, Typed
<1>2. /\ Apart' /\ (\A s \in Threads : ThreadInv(s)) /\ \A f \in Files : FileInv(f)
  BY <1>1 DEF Calm, Apart
<1>3. ASSUME NEW q \in Requests, Backed(q), q.mem = a
      PROVE  /\ nv_free_pages(a) /\ (\A f \in Files : fd[f] # "none" => ctx[f].alloc # a)
             /\ (\A t \in Threads : call[t].at \in Filling => call[t].arg.mem # a)
  <2>1. memory[a] = q.caching /\ q.caching # None
    BY <1>3, MemoryAssumption DEF Backed, Requests
  <2>2. nv_free_pages(a)
    BY <2>1 DEF nv_alloc_pages
  <2> QED
    BY <2>2 DEF nv_free_pages, Disturb
<1>4. ASSUME NEW s \in Threads PROVE ThreadInv(s)'
  <2>1. call[s].at \in Filling => Backed(call[s].arg)'
    <3> SUFFICES ASSUME call[s].at \in Filling PROVE Backed(call[s].arg)'
      OBVIOUS
    <3>1. call[s].arg \in Requests /\ Backed(call[s].arg)
      BY <1>2 DEF Typed, ThreadInv
    <3>2. call[s].arg.mem # a
      BY <1>3, <3>1
    <3> QED
      BY <1>1, <3>1, <3>2 DEF Backed, Requests
  <2> QED
    BY <1>1, <1>2, <2>1 DEF ThreadInv, Holds, At
<1>5. ASSUME NEW f \in Files PROVE FileInv(f)'
  <2>1. ctx[f].valid /\ ~At(f, "valid") => Backed(asked[f])'
    <3> SUFFICES ASSUME ctx[f].valid, ~At(f, "valid") PROVE Backed(asked[f])'
      OBVIOUS
    <3>1. asked[f] \in Requests /\ Holds(f, asked[f]) /\ Backed(asked[f])
      BY <1>2 DEF FileInv
    <3>2. fd[f] # "none"
      BY <1>2 DEF FileInv, Empty
    <3>3. asked[f].mem # a
      BY <1>3, <3>1, <3>2, MemoryAssumption DEF Holds
    <3> QED
      BY <1>1, <3>1, <3>3 DEF Backed, Requests
  <2> QED
    BY <1>1, <1>2, <2>1 DEF FileInv, Holds, At
<1> QED
  BY <1>2, <1>4, <1>5 DEF Calm

LEMMA CalmStep ==
  ASSUME Typed, Typed', Life, Calm, [FilesNext]_allVars
  PROVE  Calm'
<1> SUFFICES ASSUME ~disturbed' PROVE Calm'
  BY DEF Calm
<1>1. CASE UNCHANGED fileVars
  BY <1>1 DEF fileVars, Calm, Apart, ThreadInv, FileInv, Holds, Backed, At
<1>2. ASSUME NEW t \in Threads, ThreadStep(t) PROVE Calm'
  BY <1>2, CalmOpenClose, CalmControl, CalmMap, CalmLookup, CalmFill DEF ThreadStep
<1> QED
  BY <1>1, <1>2, CalmFile, CalmPages DEF FilesNext, allVars, Nvkms

\* The files whose contexts name an array.
Ranged == {f \in Files : fd[f] # "none" /\ ctx[f].ranges # None}

LEMMA RangedFinite == IsFiniteSet(Ranged) /\ Cardinality(Ranged) \in Nat
<1>1. IsFiniteSet(Files)
  BY FilesAssumption, UsersAssumption, FS_Subset, FS_Union DEF Files
<1> QED
  BY <1>1, FS_Subset, FS_CardinalityType DEF Ranged

LEMMA RangesStep ==
  ASSUME Typed, Life, Calm, RangesAccounted, [FilesNext]_allVars
  PROVE  RangesAccounted'
<1> SUFFICES ASSUME ~disturbed' PROVE arrays' = Cardinality(Ranged')
  BY DEF RangesAccounted, Ranged
<1>0. ~disturbed /\ arrays = Cardinality(Ranged) /\ (\A f \in Files : FileInv(f)) /\ \A t \in Threads : ThreadInv(t)
  <2>1. ~disturbed
    BY DEF FilesNext, ThreadStep, allVars, fileVars, OpenBegin, CloseBegin, CloseUnder, OpenDone, OpenFails,
           CloseDone, MapLookup, MapCheck, MapFillAlloc, MapFillRanges, MapFillFails, MapValid, MapCaching,
           ControlBegin, ControlClosed, ControlRm, ControlRmDone, ControlMap, ControlMapDone, OpenControl,
           CloseControl, Free, nv_free_pages, nv_alloc_pages, Nvkms, Disturb
  <2> QED
    BY <2>1 DEF Calm, RangesAccounted, Ranged
<1>1. CASE Ranged' = Ranged /\ arrays' = arrays
  BY <1>0, <1>1
<1>2. ASSUME NEW t \in Threads, MapFillRanges(t) PROVE arrays' = Cardinality(Ranged')
  <2>1. PICK f \in Files : f = call[t].file
    BY <1>2 DEF MapFillRanges, Step, Typed
  <2>2. fd[f] = "open" /\ ctx[f].ranges = None
    BY <1>0, <1>2, <2>1 DEF ThreadInv, MapFillRanges, Step, Filling
  <2>3. call[t].arg.mem \in Vram /\ UNCHANGED fd /\ ctx' = [ctx EXCEPT ![f] = [Empty EXCEPT !.ranges = call[t].arg.mem]]
    BY <1>2, <2>1 DEF MapFillRanges, Store
  <2>4. ctx'[f].ranges # None /\ \A g \in Files \ {f} : ctx'[g] = ctx[g]
    BY <2>3, MemoryAssumption DEF Typed, Empty
  <2>5. Ranged' = Ranged \cup {f} /\ f \notin Ranged
    BY <2>2, <2>3, <2>4 DEF Ranged
  <2> QED
    BY <1>0, <1>2, <2>5, RangedFinite, FS_AddElement DEF MapFillRanges
<1>3. ASSUME NEW f \in Files, Free(f) PROVE arrays' = Cardinality(Ranged')
  <2>1. fd'[f] = "none" /\ fd[f] = "closed" /\ \A g \in Files \ {f} : ctx'[g] = ctx[g] /\ fd'[g] = fd[g]
    BY <1>3 DEF Free, Forget, Typed, Descriptors
  <2>2. Ranged' = Ranged \ {f}
    BY <2>1 DEF Ranged
  <2>3. CASE ctx[f].valid /\ ctx[f].ranges # None
    <3>1. f \in Ranged
      BY <2>1, <2>3 DEF Ranged
    <3>2. arrays' = arrays - 1
      BY <1>3, <2>3 DEF Free
    <3> QED
      BY <1>0, <2>2, <3>1, <3>2, RangedFinite, FS_RemoveElement
  <2>4. CASE ~(ctx[f].valid /\ ctx[f].ranges # None)
    <3>1. ~At(f, "filled")
      BY <1>0, <2>1 DEF At, ThreadInv, Filling
    <3>2. ctx[f].ranges = None
      BY <1>0, <2>4, <3>1 DEF FileInv
    <3>3. f \notin Ranged
      BY <3>2 DEF Ranged
    <3>4. arrays' = arrays
      BY <1>3, <2>4 DEF Free
    <3> QED
      BY <1>0, <2>2, <3>3, <3>4
  <2> QED
    BY <2>3, <2>4
<1>4. ASSUME UNCHANGED arrays, \A f \in Files : ctx'[f].ranges = ctx[f].ranges,
             \A f \in Files : fd'[f] = fd[f] \/ ctx[f].ranges = None \/ (fd[f] # "none" /\ fd'[f] # "none")
      PROVE  arrays' = Cardinality(Ranged')
  <2>1. Ranged' = Ranged
    BY <1>4 DEF Ranged
  <2> QED
    BY <1>4, <2>1, <1>1
<1>5. ASSUME NEW f \in Files, NEW t \in Threads, OpenBegin(t, f) \/ CloseBegin(t, f)
      PROVE  arrays' = Cardinality(Ranged')
  <2>1. /\ UNCHANGED <<arrays, ctx>> /\ \A g \in Files \ {f} : fd'[g] = fd[g]
        /\ fd[f] = "none" \/ (fd[f] # "none" /\ fd'[f] # "none")
    BY <1>5 DEF OpenBegin, CloseBegin, Typed
  <2>2. fd[f] = "none" => ctx[f].ranges = None
    BY <1>0 DEF FileInv, Empty
  <2> QED
    BY <2>1, <2>2, <1>4
<1>6. ASSUME NEW t \in Threads, OpenDone(t) \/ OpenFails(t) \/ CloseDone(t)
      PROVE  arrays' = Cardinality(Ranged')
  <2>1. PICK f \in Files : f = call[t].file /\ fd[f] = call[t].at
    BY <1>6 DEF OpenDone, OpenFails, CloseDone, Return, Typed, Life
  <2>2. CASE OpenDone(t) \/ OpenFails(t)
    <3>1. ctx[f].ranges = None
      BY <1>0, <2>1, <2>2 DEF OpenDone, OpenFails, Return, FileInv, Empty
    <3>2. UNCHANGED <<arrays, ctx>> /\ \A g \in Files \ {f} : fd'[g] = fd[g]
      BY <2>1, <2>2 DEF OpenDone, OpenFails, Typed
    <3> QED
      BY <3>1, <3>2, <1>4
  <2>3. CASE CloseDone(t)
    <3>1. UNCHANGED <<arrays, ctx>> /\ fd[f] # "none" /\ fd'[f] # "none" /\ \A g \in Files \ {f} : fd'[g] = fd[g]
      BY <2>1, <2>3 DEF CloseDone, Return, Typed
    <3> QED
      BY <3>1, <1>4
  <2> QED
    BY <1>6, <2>2, <2>3
<1>7. ASSUME NEW f \in Files, OpenControl(f) \/ CloseControl(f) PROVE arrays' = Cardinality(Ranged')
  <2>1. /\ UNCHANGED <<arrays, ctx>> /\ \A g \in Files \ {f} : fd'[g] = fd[g]
        /\ fd[f] = "none" \/ (fd[f] # "none" /\ fd'[f] # "none")
    BY <1>7 DEF OpenControl, CloseControl, Typed
  <2>2. fd[f] = "none" => ctx[f].ranges = None
    BY <1>0 DEF FileInv, Empty
  <2> QED
    BY <2>1, <2>2, <1>4
<1>8. ASSUME NEW t \in Threads, MapFillAlloc(t) \/ MapFillFails(t) \/ MapValid(t) \/ MapCaching(t)
      PROVE  arrays' = Cardinality(Ranged')
  <2>1. PICK f \in Files : f = call[t].file
    BY <1>8 DEF MapFillAlloc, MapFillFails, MapValid, MapCaching, Step, Return, Typed
  <2>2. UNCHANGED <<arrays, fd>> /\ ctx[f] \in Contexts
    BY <1>8 DEF MapFillAlloc, MapFillFails, MapValid, MapCaching, Typed
  <2>3. CASE MapFillAlloc(t) \/ MapFillFails(t)
    <3>1. ctx[f].ranges = None
      BY <1>0, <2>1, <2>3 DEF ThreadInv, MapFillAlloc, MapFillFails, Step, Return, Filling
    <3>2. ctx'[f].ranges = None /\ \A g \in Files \ {f} : ctx'[g] = ctx[g]
      BY <2>1, <2>3 DEF MapFillAlloc, MapFillFails, Store, Typed, Empty
    <3> QED
      BY <2>2, <3>1, <3>2, <1>4
  <2>4. CASE MapValid(t) \/ MapCaching(t)
    <3>1. ctx'[f].ranges = ctx[f].ranges /\ \A g \in Files \ {f} : ctx'[g] = ctx[g]
      BY <2>1, <2>2, <2>4 DEF MapValid, MapCaching, Typed, Contexts
    <3> QED
      BY <2>2, <3>1, <1>4
  <2> QED
    BY <1>8, <2>3, <2>4
<1>9. ASSUME UNCHANGED <<arrays, ctx, fd>> PROVE arrays' = Cardinality(Ranged')
  BY <1>4, <1>9
<1>10. ASSUME NEW t \in Threads, ThreadStep(t) PROVE arrays' = Cardinality(Ranged')
  <2>1. CASE \/ \E f \in Files : \/ \E q \in Requests : MapLookup(t, f, q)
                                 \/ \E op \in {"rm", "map"} : ControlBegin(t, f, op)
             \/ MapCheck(t) \/ ControlClosed(t) \/ ControlRm(t) \/ ControlRmDone(t)
             \/ ControlMap(t) \/ ControlMapDone(t)
    BY <2>1, <1>9 DEF MapLookup, ControlBegin, MapCheck, ControlClosed, ControlRm, ControlRmDone,
                      ControlMap, ControlMapDone
  <2> QED
    BY <1>2, <1>5, <1>6, <1>8, <1>10, <2>1 DEF ThreadStep
<1>11. ASSUME NEW a \in Allocs, nv_free_pages(a) \/ \E c \in Cachings : nv_alloc_pages(a, c)
       PROVE  arrays' = Cardinality(Ranged')
  BY <1>9, <1>11 DEF nv_free_pages, nv_alloc_pages
<1>12. CASE UNCHANGED fileVars
  BY <1>9, <1>12 DEF fileVars
<1> QED
  BY <1>3, <1>7, <1>10, <1>11, <1>12 DEF FilesNext, allVars, Nvkms

\* The inductive invariant of the open files.
THEOREM FilesInvariance == FilesSpec => []FilesInv
<1>1. FilesInit => Life /\ Calm /\ RangesAccounted
  <2> SUFFICES ASSUME FilesInit PROVE Life /\ Calm /\ RangesAccounted
    OBVIOUS
  <2>1. /\ \A t \in Threads : call[t].at = "idle"
        /\ \A f \in Files : fd[f] = "none" /\ ctx[f] = Empty
    BY DEF FilesInit, Idle
  <2>2. Life
    BY <2>1, FilesAssumption DEF Life, Files
  <2>3. Calm
    <3>1. Apart
      BY <2>1 DEF Apart, Filling
    <3>2. \A t \in Threads : ThreadInv(t)
      BY <2>1 DEF ThreadInv, Filling
    <3>3. \A f \in Files : ~ctx[f].valid /\ ctx[f].ranges = None
      BY <2>1 DEF Empty
    <3>4. \A f \in Files : FileInv(f)
      BY <2>1, <3>3 DEF FileInv
    <3> QED
      BY <3>1, <3>2, <3>4 DEF Calm
  <2>4. {f \in Files : fd[f] # "none" /\ ctx[f].ranges # None} = {}
    BY <2>1
  <2>5. RangesAccounted
    BY <2>4, FS_EmptySet DEF FilesInit, RangesAccounted
  <2> QED
    BY <2>2, <2>3, <2>5
<1>2. Typed /\ Typed' /\ DeviceInv /\ Life /\ Calm /\ RangesAccounted /\ [FilesNext]_allVars
        => Life' /\ Calm' /\ RangesAccounted'
  BY LifeStep, CalmStep, RangesStep
<1> QED
  BY <1>1, <1>2, FilesTypeCorrect, FilesDeviceInv, PTL DEF FilesSpec, FilesInv

\* rm_ioctl() finds a running GPU below any number of files and threads.
THEOREM CallsCorrect == FilesSpec => []CallsFindRunningGpu
<1>1. FilesInv => CallsFindRunningGpu
  <2> SUFFICES ASSUME FilesInv, ~disturbed, ~overlapped, NEW t \in Threads,
                      call[t].at = "rm", call[t].file \in GpuFiles
               PROVE  adapter /\ initHardware /\ handlers > 0 /\ msi /\ busMaster
    BY DEF CallsFindRunningGpu
  <2>1. pc[call[t].file] = "open" /\ call[t].file \in Users
    BY FilesAssumption DEF FilesInv, Calm, ThreadInv, Life
  <2> QED
    BY <2>1 DEF FilesInv, DeviceInv, Sequential, Hardware
<1> QED
  BY <1>1, FilesInvariance, PTL

\* An area shows the memory of the last request stored in its file, with the
\* memory type that was asked for.
THEOREM MapCorrect == FilesSpec => []MappedAsAsked
<1>1. FilesInv => MappedAsAsked
  BY DEF FilesInv, Calm, ThreadInv, MappedAsAsked
<1> QED
  BY <1>1, FilesInvariance, PTL

\* No array of ranges leaks or is given back twice.
THEOREM RangesCorrect == FilesSpec => []RangesAccounted
<1>1. FilesInv => RangesAccounted
  BY DEF FilesInv
<1> QED
  BY <1>1, FilesInvariance, PTL

\* NV_HAIKU_MAP on a control file follows its pointer to pages that exist.
THEOREM ContextCorrect == FilesSpec => []ContextUsable
<1>1. FilesInv => ContextUsable
  <2> SUFFICES ASSUME FilesInv, ~disturbed, NEW f \in Files, Followed(f)
               PROVE  ctx[f].alloc \in Allocs /\ memory[ctx[f].alloc] # None
    BY DEF ContextUsable
  <2>1. f \notin GpuFiles /\ ctx[f].valid
    BY FilesAssumption DEF Followed
  <2>2. PICK q \in Requests : Holds(f, q) /\ Backed(q)
    <3>1. CASE At(f, "valid")
      <4>1. PICK t \in Threads : call[t].file = f /\ call[t].at = "valid"
        BY <3>1 DEF At
      <4>2. call[t].arg \in Requests /\ Holds(f, call[t].arg) /\ Backed(call[t].arg)
        BY <4>1 DEF FilesInv, Typed, Calm, ThreadInv, Filling
      <4> QED
        BY <4>2
    <3>2. CASE ~At(f, "valid")
      BY <2>1, <3>2 DEF FilesInv, Calm, FileInv
    <3> QED
      BY <3>1, <3>2
  <2> QED
    BY <2>1, <2>2, MemoryAssumption DEF Holds, Backed, Requests
<1> QED
  BY <1>1, FilesInvariance, PTL

=============================================================================
