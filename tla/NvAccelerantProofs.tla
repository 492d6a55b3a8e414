------------------------- MODULE NvAccelerantProofs -------------------------
(***************************************************************************)
(* Ownership of graphics memory in NvAccelerant, for any number of         *)
(* allocations and modes.  BitmapShape is what makes the invariants        *)
(* inductive: a bitmap owns all of its memory, surface and mapping or      *)
(* nothing, and never an area.  The instance of NvAccelerantInstance only  *)
(* does what NvAccelerant allows, so that all of it holds there too.       *)
(***************************************************************************)
EXTENDS NvAccelerantInstance, SequenceTheorems, TLAPS

Shaped(bmp) ==
  /\ bmp.surface = bmp.memory /\ bmp.mapping = bmp.memory
  /\ bmp.area = None
  /\ bmp.size = None <=> bmp.memory = None

BitmapShape == Shaped(framebuffer) /\ Shaped(oldFramebuffer)

OwnerInv == TypeOK /\ BitmapShape /\ HeadOwned /\ ModeAgrees /\ NothingLeaked

\* The bitmap the constructor makes is whole, and owns memory nobody else has.
LEMMA NewBitmapShape ==
  ASSUME NEW b \in Ids, NEW m \in Modes
  PROVE  /\ NewBitmap(b, m) =
              [memory |-> b, surface |-> b, mapping |-> b, area |-> None, size |-> m]
         /\ NewBitmap(b, m) \in Bitmaps(Ids, Modes)
         /\ Shaped(NewBitmap(b, m))
BY NoneAssumption DEF NewBitmap, Assigned, Unset, Bitmaps, Shaped

\* Moving a whole bitmap into another one's place hands over all it owns.
LEMMA AssignedShape ==
  ASSUME NEW dst \in Bitmaps(Ids, Modes), NEW src \in Bitmaps(Ids, Modes),
         Shaped(dst), Shaped(src)
  PROVE  Assigned(dst, src) = src
BY DEF Assigned, Bitmaps, Shaped

\* A bitmap without an area that was moved from owns nothing.
LEMMA MovedShape ==
  ASSUME NEW src \in Bitmaps(Ids, Modes), Shaped(src)
  PROVE  Moved(src) = Unset
BY DEF Moved, Unset, Bitmaps, Shaped

\* An unset bitmap is one of the bitmaps, and whole.
LEMMA UnsetShape == Unset \in Bitmaps(Ids, Modes) /\ Shaped(Unset)
BY DEF Unset, Bitmaps, Shaped

\* Giving back a bitmap takes its memory and its surface and leaves the others.
LEMMA ReleaseType ==
  ASSUME NEW k \in Resources(Ids), NEW bmp \in Bitmaps(Ids, Modes)
  PROVE  /\ Release(k, bmp) \in Resources(Ids)
         /\ Release(k, bmp).memory = k.memory \ {bmp.memory}
         /\ Release(k, bmp).surfaces = k.surfaces \ {bmp.surface}
         /\ Release(k, bmp).mappings = k.mappings \ {bmp.mapping}
BY DEF Release, FreeMemory, UnregisterSurface, UnmapMemory, Resources, Bitmaps

\* The constructor adds one memory object and one surface.
LEMMA ConstructedType ==
  ASSUME NEW k \in Resources(Ids), NEW b \in Ids
  PROVE  /\ Constructed(k, b) \in Resources(Ids)
         /\ Constructed(k, b).memory = k.memory \cup {b}
         /\ Constructed(k, b).surfaces = k.surfaces \cup {b}
         /\ Constructed(k, b).mappings = k.mappings \cup {b}
BY DEF Constructed, Resources

\* A constructor that throws leaves memory and surfaces as they were.
LEMMA ConstructFailedType ==
  ASSUME NEW k \in Resources(Ids), NEW b \in Ids, NEW st \in Stages
  PROVE  /\ ConstructFailed(k, b, st) \in Resources(Ids)
         /\ ConstructFailed(k, b, st).memory = k.memory
         /\ ConstructFailed(k, b, st).surfaces = k.surfaces
         /\ k.mappings \subseteq ConstructFailed(k, b, st).mappings
BY DEF ConstructFailed, MapMemory, Resources

-----------------------------------------------------------------------------
(* One lemma per hook.                                                     *)

\* A new instance starts without framebuffers on a dark display.
LEMMA InitStep ==
  ASSUME OwnerInv, head = DarkHead, InitAccelerant
  PROVE  OwnerInv'
BY UnsetShape DEF OwnerInv, TypeOK, BitmapShape, HeadOwned, ModeAgrees, NothingLeaked,
                  InitAccelerant, DarkHead, Owned, Unset

\* The end of the instance gives back both framebuffers.
LEMMA UninitStep ==
  ASSUME OwnerInv, Uninit
  PROVE  OwnerInv' /\ head' = DarkHead
<1> USE DEF OwnerInv, TypeOK
<1> DEFINE k1 == Release(kernel, framebuffer)
           k2 == Release(k1, oldFramebuffer)
<1>1. /\ k1 \in Resources(Ids)
      /\ k1.memory = kernel.memory \ {framebuffer.memory}
      /\ k1.surfaces = kernel.surfaces \ {framebuffer.surface}
  BY ReleaseType
<1>2. /\ k2 \in Resources(Ids)
      /\ k2.memory = k1.memory \ {oldFramebuffer.memory}
      /\ k2.surfaces = k1.surfaces \ {oldFramebuffer.surface}
  BY <1>1, ReleaseType
<1>3. kernel' = [k2 EXCEPT !.mappings = {}]
  BY DEF Uninit
<1> HIDE DEF k1, k2
<1>4. /\ kernel' \in Resources(Ids)
      /\ kernel'.memory = k2.memory /\ kernel'.surfaces = k2.surfaces
  BY <1>2, <1>3 DEF Resources
<1>5. kernel.memory = Owned("memory") /\ kernel.surfaces = Owned("surface")
  BY DEF Uninit, NothingLeaked
<1>6. kernel'.memory = {} /\ kernel'.surfaces = {}
  BY <1>1, <1>2, <1>4, <1>5 DEF Owned
<1>7. TypeOK'
  <2>1. framebuffer' = Unset /\ oldFramebuffer' = Unset /\ Unset.memory = None
    BY DEF Uninit, Unset
  <2>2. head' \in [surface : Ids \cup {None}, mode : Modes \cup {None}]
    BY DEF Uninit, DarkHead
  <2>3. up' \in BOOLEAN
    BY Zenon DEF Uninit
  <2>4. currentMode' = None /\ drawing' = None /\ behind' \in 0 .. 2
    BY DEF Uninit
  <2> QED
    BY <1>4, <2>1, <2>2, <2>3, <2>4, UnsetShape
<1> QED
  BY <1>6, <1>7, UnsetShape DEF Uninit, BitmapShape, HeadOwned, ModeAgrees, NothingLeaked

\* A framebuffer whose constructor throws changes nothing that is owned.
LEMMA NoFramebufferStep ==
  ASSUME OwnerInv, NEW b \in Ids, NEW st \in Stages,
         SetDisplayModeNoFramebuffer(b, st)
  PROVE  OwnerInv'
<1>1. /\ kernel' \in Resources(Ids)
      /\ kernel'.memory = kernel.memory /\ kernel'.surfaces = kernel.surfaces
  BY ConstructFailedType DEF OwnerInv, TypeOK, SetDisplayModeNoFramebuffer
<1> QED
  BY <1>1 DEF OwnerInv, TypeOK, BitmapShape, HeadOwned, ModeAgrees, NothingLeaked,
              SetDisplayModeNoFramebuffer, Owned

\* A SET_MODE that fails takes the new framebuffer with it.
LEMMA FailsStep ==
  ASSUME OwnerInv, NEW b \in Ids, NEW m \in Modes, SetDisplayModeFails(b, m)
  PROVE  OwnerInv'
<1> USE DEF OwnerInv, TypeOK
<1> DEFINE k1 == Constructed(kernel, b)
<1>1. /\ k1 \in Resources(Ids)
      /\ k1.memory = kernel.memory \cup {b} /\ k1.surfaces = kernel.surfaces \cup {b}
  BY ConstructedType
<1>2. kernel' = Release(k1, NewBitmap(b, m))
  BY DEF SetDisplayModeFails
<1> HIDE DEF k1
<1>3. /\ kernel' \in Resources(Ids)
      /\ kernel'.memory = k1.memory \ {NewBitmap(b, m).memory}
      /\ kernel'.surfaces = k1.surfaces \ {NewBitmap(b, m).surface}
  BY <1>1, <1>2, NewBitmapShape, ReleaseType
<1>4. NewBitmap(b, m).memory = b /\ NewBitmap(b, m).surface = b
  BY NewBitmapShape
<1>5. kernel'.memory = kernel.memory /\ kernel'.surfaces = kernel.surfaces
  BY <1>1, <1>3, <1>4 DEF SetDisplayModeFails, Fresh
<1> QED
  BY <1>3, <1>5 DEF BitmapShape, HeadOwned, ModeAgrees, NothingLeaked,
                    SetDisplayModeFails, Owned

\* A mode set: the shown framebuffer becomes the old one, and what that was is
\* given back.
LEMMA SetStep ==
  ASSUME OwnerInv, NEW b \in Ids, NEW m \in Modes, SetDisplayMode(b, m)
  PROVE  OwnerInv'
<1> USE DEF OwnerInv, TypeOK
<1> DEFINE k1 == Constructed(kernel, b)
           k2 == Release(k1, oldFramebuffer)
<1>1. /\ k1 \in Resources(Ids)
      /\ k1.memory = kernel.memory \cup {b} /\ k1.surfaces = kernel.surfaces \cup {b}
  BY ConstructedType
<1>2. /\ k2 \in Resources(Ids)
      /\ k2.memory = k1.memory \ {oldFramebuffer.memory}
      /\ k2.surfaces = k1.surfaces \ {oldFramebuffer.surface}
  BY <1>1, ReleaseType
<1>3. Moved(framebuffer) = Unset
  BY MovedShape DEF BitmapShape
<1>4. oldFramebuffer' = framebuffer
  BY AssignedShape DEF SetDisplayMode, BitmapShape
<1>5. framebuffer' = NewBitmap(b, m)
  BY <1>3, NewBitmapShape, UnsetShape, AssignedShape DEF SetDisplayMode
<1>6. kernel' = Release(k2, Unset)
  BY <1>3 DEF SetDisplayMode
<1> HIDE DEF k1, k2
<1>7. /\ kernel' \in Resources(Ids)
      /\ kernel'.memory = k2.memory \ {None} /\ kernel'.surfaces = k2.surfaces \ {None}
  BY <1>2, <1>6, UnsetShape, ReleaseType DEF Unset
<1>8. /\ framebuffer'.memory = b /\ framebuffer'.surface = b /\ framebuffer'.size = m
      /\ b # None
  BY <1>5, NewBitmapShape, NoneAssumption
<1>9. /\ up /\ b \notin kernel.memory \cup kernel.surfaces
      /\ kernel.memory = Owned("memory") /\ kernel.surfaces = Owned("surface")
  BY DEF SetDisplayMode, Fresh, NothingLeaked
<1>10. framebuffer.memory # b /\ oldFramebuffer.memory # b
  BY <1>8, <1>9 DEF Owned
<1>11. NothingLeaked'
  <2>1. kernel'.memory = {b, framebuffer.memory} \ {None}
    BY <1>1, <1>2, <1>7, <1>8, <1>9, <1>10 DEF Owned
  <2>2. kernel'.surfaces = {b, framebuffer.surface} \ {None}
    BY <1>1, <1>2, <1>7, <1>8, <1>9, <1>10 DEF Owned, BitmapShape, Shaped
  <2> QED
    BY <2>1, <2>2, <1>4, <1>8, <1>9 DEF NothingLeaked, Owned, SetDisplayMode
<1>12. TypeOK'
  BY <1>4, <1>5, <1>7, <1>8, <1>10, NewBitmapShape DEF SetDisplayMode
<1>13. BitmapShape'
  BY <1>4, <1>5, NewBitmapShape DEF BitmapShape
<1>14. HeadOwned' /\ ModeAgrees'
  <2>1. b \in kernel'.memory /\ b \in kernel'.surfaces
    BY <1>8, <1>9, <1>11 DEF NothingLeaked, Owned, SetDisplayMode
  <2> QED
    BY <2>1, <1>8 DEF HeadOwned, ModeAgrees, SetDisplayMode
<1> QED
  BY <1>11, <1>12, <1>13, <1>14

\* Telling the app_server where to draw changes nobody's memory.
LEMMA ConfigStep ==
  ASSUME OwnerInv, GetFrameBufferConfig
  PROVE  OwnerInv'
BY DEF OwnerInv, TypeOK, BitmapShape, HeadOwned, ModeAgrees, NothingLeaked,
       GetFrameBufferConfig, Owned, Bitmaps

-----------------------------------------------------------------------------

\* Without an instance the display is dark.
DarkWithoutInstance == ~up => head = DarkHead

\* Memory, surfaces, display and mode agree in every reachable state.
THEOREM OwnerInvariance == Spec => [](OwnerInv /\ DarkWithoutInstance)
<1> DEFINE I == OwnerInv /\ DarkWithoutInstance
<1>1. Init => I
  <2> SUFFICES ASSUME Init PROVE I
    OBVIOUS
  <2>1. ~up /\ head = DarkHead
    BY DEF Init
  <2>2. TypeOK
    <3>1. framebuffer = Unset /\ oldFramebuffer = Unset /\ Unset.memory = None
      BY DEF Init, Unset
    <3>2. head \in [surface : Ids \cup {None}, mode : Modes \cup {None}]
      BY DEF Init, DarkHead
    <3>3. kernel \in Resources(Ids)
      BY DEF Init, NoResources, Resources
    <3>4. up \in BOOLEAN
      BY Zenon DEF Init
    <3>5. currentMode = None /\ drawing = None /\ behind \in 0 .. 2
      BY DEF Init
    <3> QED
      BY <3>1, <3>2, <3>3, <3>4, <3>5, UnsetShape DEF TypeOK
  <2>3. BitmapShape /\ HeadOwned /\ ModeAgrees
    BY <2>1, UnsetShape DEF Init, BitmapShape, HeadOwned, ModeAgrees
  <2>4. NothingLeaked
    BY <2>1 DEF Init, NoResources, NothingLeaked
  <2> QED
    BY <2>1, <2>2, <2>3, <2>4 DEF OwnerInv, DarkWithoutInstance
<1>2. I /\ [Next]_vars => I'
  <2> SUFFICES ASSUME I, [Next]_vars PROVE I'
    OBVIOUS
  <2>1. CASE InitAccelerant
    BY <2>1, InitStep DEF InitAccelerant, DarkWithoutInstance
  <2>2. CASE Uninit
    BY <2>2, UninitStep DEF DarkWithoutInstance
  <2>3. CASE GetFrameBufferConfig
    BY <2>3, ConfigStep DEF GetFrameBufferConfig, DarkWithoutInstance
  <2>4. ASSUME NEW b \in Ids, NEW st \in Stages, SetDisplayModeNoFramebuffer(b, st)
        PROVE  I'
    BY <2>4, NoFramebufferStep DEF SetDisplayModeNoFramebuffer, DarkWithoutInstance
  <2>5. ASSUME NEW b \in Ids, NEW m \in Modes, SetDisplayModeFails(b, m)
        PROVE  I'
    BY <2>5, FailsStep DEF SetDisplayModeFails, DarkWithoutInstance
  <2>6. ASSUME NEW b \in Ids, NEW m \in Modes, SetDisplayMode(b, m)
        PROVE  I'
    BY <2>6, SetStep DEF SetDisplayMode, DarkWithoutInstance
  <2>7. CASE UNCHANGED vars
    BY <2>7 DEF vars, OwnerInv, DarkWithoutInstance, TypeOK, BitmapShape, HeadOwned,
                ModeAgrees, NothingLeaked, Owned
  <2> QED
    BY <2>1, <2>2, <2>3, <2>4, <2>5, <2>6, <2>7 DEF Next
<1> QED
  BY <1>1, <1>2, PTL DEF Spec

\* The display always reads memory that fFramebuffer owns, whichever calls of
\* whichever mode sets fail.
THEOREM HeadOwnedCorrect == Spec => []HeadOwned
<1>1. OwnerInv => HeadOwned
  BY DEF OwnerInv
<1> QED
  BY <1>1, OwnerInvariance, PTL

\* GetDisplayMode tells the mode on the display, for any number of modes.
THEOREM ModeCorrect == Spec => []ModeAgrees
<1>1. OwnerInv => ModeAgrees
  BY DEF OwnerInv
<1> QED
  BY <1>1, OwnerInvariance, PTL

\* No memory and no surface is ever without an owner.
THEOREM NoLeak == Spec => []NothingLeaked
<1>1. OwnerInv => NothingLeaked
  BY DEF OwnerInv
<1> QED
  BY <1>1, OwnerInvariance, PTL

-----------------------------------------------------------------------------
(* Where the app_server draws.                                             *)

\* The mappings of both framebuffers exist; the app_server was told of the
\* first and, after one mode set, draws into the second.
DrawInv ==
  /\ Owned("mapping") \subseteq kernel.mappings
  /\ ~up => drawing = None
  /\ drawing # None /\ behind = 0 => drawing = framebuffer.mapping
  /\ drawing # None /\ behind = 1 => drawing = oldFramebuffer.mapping

LEMMA DrawStep ==
  ASSUME OwnerInv, DrawInv, [Next]_vars
  PROVE  DrawInv'
<1> USE DEF OwnerInv, TypeOK, DrawInv
<1>1. CASE InitAccelerant
  BY <1>1, UnsetShape DEF InitAccelerant, Owned, Unset
<1>2. CASE Uninit
  BY <1>2 DEF Uninit, Owned, Unset
<1>3. CASE GetFrameBufferConfig
  BY <1>3 DEF GetFrameBufferConfig, Owned
<1>4. ASSUME NEW b \in Ids, NEW st \in Stages, SetDisplayModeNoFramebuffer(b, st)
      PROVE  DrawInv'
  BY <1>4, ConstructFailedType DEF SetDisplayModeNoFramebuffer, Owned
<1>5. ASSUME NEW b \in Ids, NEW m \in Modes, SetDisplayModeFails(b, m) PROVE DrawInv'
  <2>1. Constructed(kernel, b) \in Resources(Ids) /\ Constructed(kernel, b).mappings = kernel.mappings \cup {b}
    BY ConstructedType
  <2>2. NewBitmap(b, m) \in Bitmaps(Ids, Modes) /\ NewBitmap(b, m).mapping = b
    BY NewBitmapShape
  <2>3. kernel'.mappings = (kernel.mappings \cup {b}) \ {b}
    BY <1>5, <2>1, <2>2, ReleaseType DEF SetDisplayModeFails
  <2>4. b \notin kernel.mappings
    BY <1>5 DEF SetDisplayModeFails, Fresh
  <2> QED
    BY <1>5, <2>3, <2>4 DEF SetDisplayModeFails, Owned
<1>6. ASSUME NEW b \in Ids, NEW m \in Modes, SetDisplayMode(b, m) PROVE DrawInv'
  <2> DEFINE k1 == Constructed(kernel, b)
             k2 == Release(k1, oldFramebuffer)
  <2>1. k1 \in Resources(Ids) /\ k1.mappings = kernel.mappings \cup {b}
    BY ConstructedType
  <2>2. k2 \in Resources(Ids) /\ k2.mappings = k1.mappings \ {oldFramebuffer.mapping}
    BY <2>1, ReleaseType
  <2>3. Moved(framebuffer) = Unset
    BY MovedShape DEF BitmapShape
  <2>4. oldFramebuffer' = framebuffer
    BY <1>6, AssignedShape DEF SetDisplayMode, BitmapShape
  <2>5. framebuffer' = NewBitmap(b, m)
    BY <1>6, <2>3, NewBitmapShape, UnsetShape, AssignedShape DEF SetDisplayMode
  <2>6. kernel' = Release(k2, Unset)
    BY <1>6, <2>3 DEF SetDisplayMode
  <2> HIDE DEF k1, k2
  <2>7. kernel'.mappings = k2.mappings \ {None}
    BY <2>2, <2>6, UnsetShape, ReleaseType DEF Unset
  <2>8. framebuffer'.mapping = b /\ b # None
    BY <2>5, NewBitmapShape, NoneAssumption
  <2>9. framebuffer.mapping = None \/ framebuffer.mapping # oldFramebuffer.mapping
    BY DEF BitmapShape, Shaped
  <2>10. framebuffer.mapping # b /\ oldFramebuffer.mapping # b
    BY <1>6, <2>8 DEF SetDisplayMode, Fresh, Owned
  <2>11. framebuffer.mapping # None => framebuffer.mapping \in kernel'.mappings
    BY <2>1, <2>2, <2>7, <2>9 DEF Owned
  <2>12. b \in kernel'.mappings
    BY <2>1, <2>2, <2>7, <2>8, <2>10
  <2>13. Owned("mapping")' \subseteq kernel'.mappings
    BY <2>4, <2>8, <2>11, <2>12 DEF Owned
  <2>14. up' /\ drawing' = drawing /\ behind' # 0 /\ (behind' = 1 => behind = 0)
    BY <1>6 DEF SetDisplayMode
  <2> QED
    BY <2>4, <2>13, <2>14
<1>7. CASE UNCHANGED vars
  BY <1>7 DEF vars, Owned
<1> QED
  BY <1>1, <1>2, <1>3, <1>4, <1>5, <1>6, <1>7 DEF Next

\* The app_server draws into mapped memory until the second mode set after it
\* was told where, for any number of modes.
THEOREM DrawCorrect == Spec => []DrawTargetMapped
<1>1. Init => DrawInv
  BY DEF Init, DrawInv, Owned, Unset
<1>2. OwnerInv /\ DrawInv /\ [Next]_vars => DrawInv'
  BY DrawStep
<1>3. OwnerInv /\ DrawInv => DrawTargetMapped
  BY DEF OwnerInv, TypeOK, DrawInv, BitmapShape, Shaped, NothingLeaked, DrawTargetMapped, Owned, Bitmaps
<1> QED
  BY <1>1, <1>2, <1>3, OwnerInvariance, PTL DEF Spec

-----------------------------------------------------------------------------
(* The instance.                                                           *)

LEMMA InstanceStep == [InstanceNext]_allVars => [Next]_vars
<1> SUFFICES ASSUME [InstanceNext]_allVars PROVE [Next]_vars
  OBVIOUS
<1>1. CASE UNCHANGED allVars
  BY <1>1 DEF allVars
<1>2. CASE Making
  BY <1>2 DEF Making, InitBegin, CloneBegin, DupDevice, OpenRm, AllocClient, AllocDevice, OpenKms,
              AllocKmsDevice, ConstructThrows, ConstructDone, Make, Throw, Abort, Next
<1>3. CASE Deleting
  BY <1>3 DEF Deleting, UninitBegin, DestroyFramebuffers, CloseDescriptor, FreeObject, FreeKmsDevice,
              GiveBack, DestroyDone, Next
<1>4. CASE Hook
  BY <1>4 DEF Hook, Next
<1> QED
  BY <1>1, <1>2, <1>3, <1>4 DEF InstanceNext

\* The instance makes, uses and deletes its framebuffers as NvAccelerant says,
\* wherever its constructor stops.
THEOREM InstanceImplements == InstanceSpec => Spec
<1>1. InstanceInit => Init
  BY DEF InstanceInit
<1> QED
  BY <1>1, InstanceStep, PTL DEF InstanceSpec, Spec

-----------------------------------------------------------------------------
(* The members of the instance.                                            *)

Classes == {"cloneFd", "devFd", "rmFd", "client", "device", "subdevice", "kmsFd", "kmsDevice",
            "framebuffers"}

\* The members in order, the framebuffers last.
Named(j) == IF j <= Len(Order) THEN Order[j] ELSE "framebuffers"

\* c and k say what is constructed: Clone's descriptor if c = 1, and the first k
\* members.
Shape(c, k) ==
  /\ c \in {0, 1} /\ k \in 0 .. 8 /\ (k = 8 => c = 0)
  /\ members \in Seq(Classes) /\ Len(members) = c + k
  /\ c = 1 => members[1] = "cloneFd"
  /\ \A j \in 1 .. k : members[c + j] = Named(j)

\* What is there for them: everything but devFd for sure, which dup() may not
\* have made.
There(c, k) ==
  /\ c = 1 <=> "cloneFd" \in objects
  /\ \A j \in 1 .. k : j \notin {1, 8} => Named(j) \in objects
  /\ \A x \in objects : x = "cloneFd" \/ \E j \in 1 .. k : j # 8 /\ x = Named(j)

\* Where the hooks' thread is, by what is constructed; there is an instance
\* as long as it has framebuffers.
Where(c, k) ==
  /\ stage \in {"none", "making", "unwinding", "up", "deleting"}
  /\ stage = "none" => c = 0 /\ k = 0
  /\ stage \in {"making", "unwinding"} => k < 8
  /\ stage = "up" => k = 8
  /\ stage = "deleting" => c = 0
  /\ up <=> k = 8

UnwindInv == \E c \in {0, 1}, k \in 0 .. 8 : Shape(c, k) /\ There(c, k) /\ Where(c, k)

LEMMA Names ==
  /\ Len(Order) = 7 /\ DOMAIN Order = 1 .. 7
  /\ Named(1) = "devFd" /\ Named(2) = "rmFd" /\ Named(3) = "client" /\ Named(4) = "device"
  /\ Named(5) = "subdevice" /\ Named(6) = "kmsFd" /\ Named(7) = "kmsDevice"
  /\ Named(8) = "framebuffers"
  /\ \A j \in 1 .. 7 : Named(j) = Order[j]
<1>1. Len(Order) = 7 /\ DOMAIN Order = 1 .. 7
  BY DEF Order
<1>2. \A j \in 1 .. 7 : Named(j) = Order[j]
  BY <1>1 DEF Named
<1>3. Named(8) = "framebuffers"
  BY <1>1 DEF Named
<1>4. /\ Order[1] = "devFd" /\ Order[2] = "rmFd" /\ Order[3] = "client" /\ Order[4] = "device"
      /\ Order[5] = "subdevice" /\ Order[6] = "kmsFd" /\ Order[7] = "kmsDevice"
  BY DEF Order
<1> QED
  BY <1>1, <1>2, <1>3, <1>4

\* One to eight.
LEMMA Eight == \A j \in 1 .. 8 : j \in {1, 2, 3, 4, 5, 6, 7, 8}
OBVIOUS

\* No two members have the same name; what goes with a member was made after it.
LEMMA NamesApart ==
  /\ \A j \in 1 .. 8 : Named(j) \in Classes /\ Named(j) # "cloneFd"
  /\ \A i, j \in 1 .. 8 : Named(i) = Named(j) => i = j
  /\ \A i, j \in 1 .. 8 : i < j => Named(i) \notin With(Named(j))
  /\ \A j \in 1 .. 8 : Named(j) \in With(Named(j)) /\ "cloneFd" \notin With(Named(j))
<1>1. \A j \in 1 .. 8 : Named(j) \in Classes /\ Named(j) # "cloneFd"
  BY Names, Eight DEF Classes
<1>2. \A i, j \in 1 .. 8 : Named(i) = Named(j) => i = j
  <2>1. \A i \in 1 .. 8 : /\ Named(i) = "devFd" => i = 1
                          /\ Named(i) = "rmFd" => i = 2
                          /\ Named(i) = "client" => i = 3
                          /\ Named(i) = "device" => i = 4
                          /\ Named(i) = "subdevice" => i = 5
                          /\ Named(i) = "kmsFd" => i = 6
                          /\ Named(i) = "kmsDevice" => i = 7
                          /\ Named(i) = "framebuffers" => i = 8
    BY Names, Eight
  <2> QED
    BY <2>1, Names, Eight
<1>3. /\ With("devFd") = {"devFd"} /\ With("rmFd") = {"rmFd", "client", "device", "subdevice"}
      /\ With("client") = {"client", "device", "subdevice"}
      /\ With("device") = {"device", "subdevice"} /\ With("subdevice") = {"subdevice"}
      /\ With("kmsFd") = {"kmsFd", "kmsDevice"} /\ With("kmsDevice") = {"kmsDevice"}
      /\ With("framebuffers") = {"framebuffers"}
  BY DEF With
<1>4. \A j \in 1 .. 8 : Named(j) \in With(Named(j)) /\ "cloneFd" \notin With(Named(j))
  BY <1>3, Names, Eight
<1>5. \A i, j \in 1 .. 8 : i < j => Named(i) \notin With(Named(j))
  <2>1. \A j \in 1 .. 8 : /\ "devFd" \in With(Named(j)) => j = 1
                          /\ "rmFd" \in With(Named(j)) => j <= 2
                          /\ "client" \in With(Named(j)) => j <= 3
                          /\ "device" \in With(Named(j)) => j <= 4
                          /\ "subdevice" \in With(Named(j)) => j <= 5
                          /\ "kmsFd" \in With(Named(j)) => j <= 6
                          /\ "kmsDevice" \in With(Named(j)) => j <= 7
    BY <1>3, Names, Eight
  <2> QED
    BY <2>1, Names, Eight
<1> QED
  BY <1>1, <1>2, <1>4, <1>5

\* What is in the sequence.
LEMMA MembersAre ==
  ASSUME NEW c, NEW k, Shape(c, k)
  PROVE  \A x : x \in ToSet(members) <=>
                  (c = 1 /\ x = "cloneFd") \/ \E j \in 1 .. k : x = Named(j)
<1>1. /\ members \in Seq(Classes) /\ DOMAIN members = 1 .. c + k /\ c \in {0, 1} /\ k \in 0 .. 8
  BY LenProperties DEF Shape
<1>2. \A x : x \in ToSet(members) <=> \E i \in 1 .. c + k : members[i] = x
  BY <1>1 DEF ToSet
<1> QED
  <2>1. ASSUME NEW i \in 1 .. c + k
        PROVE  (c = 1 /\ members[i] = "cloneFd") \/ \E j \in 1 .. k : members[i] = Named(j)
    <3>1. CASE c = 1 /\ i = 1
      BY <3>1 DEF Shape
    <3>2. CASE ~(c = 1 /\ i = 1)
      <4>1. i - c \in 1 .. k /\ c + (i - c) = i
        BY <1>1, <3>2
      <4> QED
        BY <4>1 DEF Shape
    <3> QED
      BY <3>1, <3>2
  <2>2. ASSUME NEW j \in 1 .. k PROVE c + j \in 1 .. c + k /\ members[c + j] = Named(j)
    BY <1>1 DEF Shape
  <2>3. c = 1 => 1 \in 1 .. c + k /\ members[1] = "cloneFd"
    BY <1>1 DEF Shape
  <2> QED
    BY <1>2, <2>1, <2>2, <2>3

\* It is the turn of the member after the last one.
LEMMA TurnIsNext ==
  ASSUME NEW c, NEW k, Shape(c, k), NEW x, Turn(x)
  PROVE  k < 7 /\ x = Named(k + 1)
<1>1. PICK i \in 1 .. 7 : /\ Named(i) = x
                          /\ \A j \in 1 .. i - 1 : Named(j) \in ToSet(members)
  BY Names DEF Turn
<1>2. k \in 0 .. 8 /\ x \notin ToSet(members)
  BY DEF Shape, Turn
<1>3. k < i
  BY <1>1, <1>2, MembersAre
<1>4. i = k + 1
  <2>1. SUFFICES ASSUME k + 1 < i PROVE FALSE
    BY <1>2, <1>3
  <2>2. k + 1 \in 1 .. i - 1 /\ k + 1 \in 1 .. 8
    BY <1>2, <2>1
  <2>3. \E j \in 1 .. k : Named(k + 1) = Named(j)
    BY <1>1, <2>2, MembersAre, NamesApart
  <2> QED
    BY <1>2, <2>2, <2>3, NamesApart
<1> QED
  BY <1>1, <1>2, <1>4

LEMMA ShapeGrows ==
  ASSUME NEW c, NEW k, Shape(c, k), k < 7, members' = Append(members, Named(k + 1))
  PROVE  Shape(c, k + 1)'
<1>1. c \in {0, 1} /\ k \in 0 .. 6 /\ members \in Seq(Classes) /\ Len(members) = c + k
  BY DEF Shape
<1>2. k + 1 \in 1 .. 8 /\ Named(k + 1) \in Classes
  BY <1>1, NamesApart
<1>3. /\ members' \in Seq(Classes) /\ Len(members') = c + k + 1
      /\ members'[c + k + 1] = Named(k + 1)
      /\ \A i \in 1 .. c + k : members'[i] = members[i]
  BY <1>1, <1>2, AppendProperties
<1>4. \A j \in 1 .. k + 1 : members'[c + j] = Named(j)
  <2> TAKE j \in 1 .. k + 1
  <2>1. CASE j = k + 1
    <3>1. c + j = c + k + 1
      BY <1>1, <2>1
    <3> QED
      BY <1>3, <2>1, <3>1
  <2>2. CASE j # k + 1
    <3>1. j \in 1 .. k /\ c + j \in 1 .. c + k
      BY <1>1, <2>2
    <3>2. members[c + j] = Named(j)
      BY <3>1 DEF Shape
    <3> QED
      BY <1>3, <3>1, <3>2
  <2> QED
    BY <2>1, <2>2
<1>5. c = 1 => members'[1] = "cloneFd"
  BY <1>1, <1>3 DEF Shape
<1> QED
  BY <1>1, <1>3, <1>4, <1>5 DEF Shape

\* Without the last member.
LEMMA RemainingIs ==
  ASSUME NEW c, NEW k, Shape(c, k), members # <<>>
  PROVE  /\ Remaining \in Seq(Classes) /\ Len(Remaining) = c + k - 1
         /\ \A i \in 1 .. c + k - 1 : Remaining[i] = members[i]
         /\ c + k > 0 /\ c \in {0, 1} /\ k \in 0 .. 8
<1> DEFINE n == c + k
<1>1. n \in Nat /\ members \in Seq(Classes) /\ Len(members) = n /\ c \in Nat /\ k \in Nat
  BY DEF Shape
<1>2. n > 0
  BY <1>1, EmptySeq
<1>3. Remaining = SubSeq(members, 1, n - 1) \o SubSeq(members, n + 1, n)
  BY <1>1 DEF Remaining, RemoveAt, Place
<1> HIDE DEF n
<1>4. SubSeq(members, n + 1, n) = <<>>
  BY <1>1, SubSeqEmpty
<1>5. \A i \in 1 .. n - 1 : members[i] \in Classes
  BY <1>1, ElementOfSeq
<1>6. /\ SubSeq(members, 1, n - 1) \in Seq(Classes)
      /\ Len(SubSeq(members, 1, n - 1)) = n - 1
      /\ \A i \in 1 .. n - 1 : SubSeq(members, 1, n - 1)[i] = members[1 + i - 1]
  <2>1. /\ SubSeq(members, 1, n - 1) \in Seq(Classes)
        /\ Len(SubSeq(members, 1, n - 1)) = IF 1 <= n - 1 THEN (n - 1) - 1 + 1 ELSE 0
        /\ \A i \in 1 .. (n - 1) - 1 + 1 : SubSeq(members, 1, n - 1)[i] = members[1 + i - 1]
    BY <1>1, <1>5, SubSeqProperties
  <2> QED
    BY <1>1, <1>2, <2>1
<1>7. Remaining = SubSeq(members, 1, n - 1)
  BY <1>3, <1>4, <1>6, ConcatEmptySeq
<1>8. \A i \in 1 .. n - 1 : Remaining[i] = members[i]
  BY <1>6, <1>7
<1>9. Remaining \in Seq(Classes) /\ Len(Remaining) = n - 1
  BY <1>6, <1>7
<1>10. c \in {0, 1} /\ k \in 0 .. 8
  BY DEF Shape
<1> QED
  BY ONLY <1>2, <1>8, <1>9, <1>10 DEF n

LEMMA ShapeShrinks ==
  ASSUME NEW c, NEW k, Shape(c, k), k > 0, members # <<>>, members' = Remaining
  PROVE  Destroyed = Named(k) /\ Shape(c, k - 1)'
<1>1. c \in {0, 1} /\ k \in 1 .. 8
  BY DEF Shape
<1>2. Destroyed = Named(k)
  BY <1>1 DEF Shape, Destroyed, Place
<1>3. /\ members' \in Seq(Classes) /\ Len(members') = c + k - 1
      /\ \A i \in 1 .. c + k - 1 : members'[i] = members[i]
  BY RemainingIs
<1>4. \A j \in 1 .. k - 1 : members'[c + j] = Named(j)
  <2> TAKE j \in 1 .. k - 1
  <2>1. c + j \in 1 .. c + k - 1 /\ j \in 1 .. k
    BY <1>1
  <2>2. members[c + j] = Named(j)
    BY <2>1 DEF Shape
  <2> QED
    BY <1>3, <2>1, <2>2
<1>5. c = 1 => members'[1] = "cloneFd"
  <2>1. ASSUME c = 1, k = 1 PROVE members'[1] = "cloneFd"
    BY <1>3, <2>1 DEF Shape
  <2>2. ASSUME c = 1, k > 1 PROVE members'[1] = "cloneFd"
    BY <1>1, <1>3, <2>2 DEF Shape
  <2> QED
    BY <1>1, <2>1, <2>2
<1>6. Len(members') = c + (k - 1) /\ k - 1 \in 0 .. 8 /\ k - 1 # 8
  BY <1>1, <1>3
<1> QED
  BY <1>1, <1>2, <1>3, <1>4, <1>5, <1>6 DEF Shape

\* Clone's descriptor goes last.
LEMMA ShapeEnds ==
  ASSUME NEW c, Shape(c, 0), members # <<>>, members' = Remaining
  PROVE  c = 1 /\ Destroyed = "cloneFd" /\ Shape(0, 0)'
<1>1. c = 1
  BY EmptySeq DEF Shape
<1>2. Destroyed = "cloneFd"
  BY <1>1 DEF Shape, Destroyed, Place
<1>3. members' \in Seq(Classes) /\ Len(members') = 0
  BY <1>1, RemainingIs
<1> QED
  BY <1>1, <1>2, <1>3 DEF Shape

LEMMA ShapeNone ==
  ASSUME NEW c, NEW k, Shape(c, k)
  PROVE  members = <<>> <=> c = 0 /\ k = 0
<1>1. members \in Seq(Classes) /\ Len(members) = c + k /\ c \in {0, 1} /\ k \in 0 .. 8
  BY DEF Shape
<1>2. members = <<>> <=> Len(members) = 0
  BY <1>1, EmptySeq
<1> QED
  BY <1>1, <1>2

LEMMA ShapeEmpty ==
  /\ members = <<>> => Shape(0, 0)
  /\ members' = <<>> => Shape(0, 0)'
<1>1. <<>> \in Seq(Classes) /\ Len(<<>>) = 0
  BY EmptySeq
<1>2. 0 \in {0, 1} /\ 0 \in 0 .. 8 /\ 0 # 8 /\ 0 # 1 /\ 1 .. 0 = {} /\ 0 + 0 = 0
  OBVIOUS
<1> QED
  BY <1>1, <1>2 DEF Shape

-----------------------------------------------------------------------------
(* One lemma per kind of step.                                             *)

\* UnwindInv in the next state, from its witnesses.
LEMMA UnwindAfter ==
  ASSUME NEW c, NEW k, Shape(c, k)', There(c, k)', Where(c, k)'
  PROVE  UnwindInv'
BY DEF UnwindInv, Shape

\* A member is whole; devFd may be without a descriptor.
LEMMA MakeStep ==
  ASSUME NEW c, NEW k, Shape(c, k), There(c, k), Where(c, k), NEW x, Turn(x),
         members' = Append(members, x), UNCHANGED <<vars, stage>>,
         objects' = objects \cup {x} \/ (x = "devFd" /\ objects' = objects)
  PROVE  UnwindInv'
<1>1. k \in 0 .. 6 /\ x = Named(k + 1) /\ k + 1 \in 1 .. 7 /\ c \in {0, 1}
  <2>1. k < 7 /\ x = Named(k + 1)
    BY TurnIsNext
  <2>2. k \in 0 .. 8 /\ c \in {0, 1}
    BY DEF Shape
  <2> QED
    BY <2>1, <2>2
<1>2. Shape(c, k + 1)'
  BY <1>1, ShapeGrows
<1>3. x # "cloneFd" /\ (x = "devFd" => k + 1 = 1)
  <2>1. x = "devFd" => Named(k + 1) = Named(1)
    BY <1>1, Names
  <2>2. 1 \in 1 .. 8 /\ k + 1 \in 1 .. 8
    BY <1>1
  <2> QED
    BY <1>1, <2>1, <2>2, NamesApart
<1>4. There(c, k + 1)'
  <2>1. c = 1 <=> "cloneFd" \in objects'
    BY <1>3 DEF There
  <2>2. ASSUME NEW j \in 1 .. k + 1, j \notin {1, 8} PROVE Named(j) \in objects'
    <3>1. CASE j = k + 1
      BY <1>1, <1>3, <2>2, <3>1
    <3>2. CASE j # k + 1
      BY <1>1, <2>2, <3>2 DEF There
    <3> QED
      BY <3>1, <3>2
  <2>3. ASSUME NEW y \in objects'
        PROVE  y = "cloneFd" \/ \E j \in 1 .. k + 1 : j # 8 /\ y = Named(j)
    <3>1. CASE y \in objects
      <4>1. 1 .. k \subseteq 1 .. k + 1
        BY <1>1
      <4> QED
        BY <3>1, <4>1 DEF There
    <3>2. CASE y = x
      BY <1>1, <3>2
    <3> QED
      BY <3>1, <3>2
  <2> QED
    BY <2>1, <2>2, <2>3 DEF There
<1>5. Where(c, k + 1)'
  <2>1. stage' = stage /\ up' = up /\ stage = "making"
    BY DEF vars, Turn
  <2> QED
    BY <1>1, <2>1 DEF Where
<1> QED
  BY <1>2, <1>4, <1>5, UnwindAfter

\* Nothing is made or destroyed.
LEMMA StageStep ==
  ASSUME NEW c, NEW k, Shape(c, k), There(c, k), Where(c, k)',
         UNCHANGED <<members, objects>>
  PROVE  UnwindInv'
<1>1. Shape(c, k)' /\ There(c, k)'
  BY DEF Shape, There
<1> QED
  BY <1>1, UnwindAfter

\* The last member is destroyed and takes with it what it holds.
LEMMA DestroyStep ==
  ASSUME NEW c, NEW k, Shape(c, k), There(c, k), Where(c, k),
         stage \in {"unwinding", "deleting"}, members # <<>>, members' = Remaining,
         stage' = stage, up' <=> (up /\ Destroyed # "framebuffers"),
         \/ objects' = objects \ With(Destroyed)
         \/ Destroyed \notin objects /\ objects' = objects
  PROVE  UnwindInv'
<1>1. c \in {0, 1} /\ k \in 0 .. 8
  BY DEF Shape
<1>2. CASE k = 0
  <2>1. c = 1 /\ Destroyed = "cloneFd" /\ Shape(0, 0)'
    BY <1>2, ShapeEnds
  <2>2. objects = {"cloneFd"}
    BY <1>2, <2>1 DEF There
  <2>3. objects' = {}
    BY <2>1, <2>2 DEF With
  <2>4. There(0, 0)'
    BY <2>3 DEF There
  <2>5. Where(0, 0)'
    BY <1>2, <2>1 DEF Where
  <2> QED
    BY <2>1, <2>4, <2>5, UnwindAfter
<1>3. CASE k > 0
  <2> DEFINE x == Named(k)
  <2>1. Destroyed = x /\ Shape(c, k - 1)' /\ k \in 1 .. 8
    BY <1>1, <1>3, ShapeShrinks
  <2>2. /\ x \in With(x) /\ "cloneFd" \notin With(x) /\ x # "cloneFd"
        /\ \A j \in 1 .. k - 1 : Named(j) \notin With(x) /\ Named(j) # x
    BY <2>1, NamesApart
  <2>3. x = "framebuffers" <=> k = 8
    <3>1. x = "framebuffers" <=> Named(k) = Named(8)
      BY Names
    <3>2. 8 \in 1 .. 8
      OBVIOUS
    <3> QED
      BY <2>1, <3>1, <3>2, NamesApart
  <2> HIDE DEF x
  <2>4. objects' \subseteq objects \ {x} /\ \A y \in objects : y \notin With(x) => y \in objects'
    BY <2>1, <2>2
  <2>5. There(c, k - 1)'
    <3>1. c = 1 <=> "cloneFd" \in objects'
      BY <2>2, <2>4 DEF There
    <3>2. \A j \in 1 .. k - 1 : j \notin {1, 8} => Named(j) \in objects'
      BY <2>1, <2>2, <2>4 DEF There
    <3>3. ASSUME NEW y \in objects'
          PROVE  y = "cloneFd" \/ \E j \in 1 .. k - 1 : j # 8 /\ y = Named(j)
      <4>1. y \in objects /\ y # x
        BY <2>4
      <4>2. ASSUME NEW j \in 1 .. k, y = Named(j) PROVE j \in 1 .. k - 1
        BY <2>1, <4>1, <4>2 DEF x
      <4> QED
        BY <4>1, <4>2 DEF There
    <3> QED
      BY <3>1, <3>2, <3>3 DEF There
  <2>6. Where(c, k - 1)'
    <3>1. stage' \in {"unwinding", "deleting"} /\ (stage' = "deleting" => c = 0)
      BY DEF Where
    <3>2. (up' <=> FALSE) /\ k - 1 < 8 /\ k - 1 # 8
      BY <2>1, <2>3 DEF Where
    <3> QED
      BY <3>1, <3>2 DEF Where
  <2> QED
    BY <2>1, <2>5, <2>6, UnwindAfter
<1> QED
  BY <1>1, <1>2, <1>3

\* What the last member needs to be given back is there.
LEMMA LastIsThere ==
  ASSUME NEW c, NEW k, Shape(c, k), There(c, k), Where(c, k), members # <<>>
  PROVE  /\ Destroyed \in {"client", "device", "subdevice", "kmsDevice"} => Destroyed \in objects
         /\ Destroyed = "framebuffers" => up /\ {"device", "kmsDevice"} \subseteq objects
<1>1. c \in {0, 1} /\ k \in 0 .. 8
  BY DEF Shape
<1>2. CASE k = 0
  <2>1. c = 1 /\ Destroyed = "cloneFd"
    BY <1>2, ShapeNone DEF Shape, Destroyed, Place
  <2> QED
    BY <2>1
<1>3. CASE k > 0
  <2>1. Destroyed = Named(k) /\ k \in 1 .. 8
    BY <1>1, <1>3 DEF Shape, Destroyed, Place
  <2>2. k = 1 => Destroyed = "devFd"
    BY <2>1, Names
  <2>3. Destroyed = "framebuffers" => k = 8
    <3>1. 8 \in 1 .. 8 /\ Named(8) = "framebuffers"
      BY Names
    <3> QED
      BY <2>1, <3>1, NamesApart
  <2>4. k \notin {1, 8} => Destroyed \in objects
    BY <2>1 DEF There
  <2>5. k = 8 => /\ up /\ Named(4) \in objects /\ Named(7) \in objects
                 /\ Destroyed = "framebuffers"
    <3>1. k = 8 => 4 \in 1 .. k /\ 7 \in 1 .. k
      OBVIOUS
    <3> QED
      BY <2>1, <3>1, Names DEF There, Where
  <2> QED
    BY <2>2, <2>3, <2>4, <2>5, Names
<1> QED
  BY <1>1, <1>2, <1>3

\* The team ends: nothing is left.
LEMMA AbortStep ==
  ASSUME NEW c, NEW k, Shape(c, k), There(c, k), Where(c, k), stage = "making", Abort
  PROVE  UnwindInv'
<1>1. stage' = "none" /\ members' = <<>> /\ objects' = {} /\ up' = up /\ ~up
  BY DEF Abort, vars, Where
<1>2. Shape(0, 0)' /\ There(0, 0)' /\ Where(0, 0)'
  BY <1>1, ShapeEmpty DEF There, Where
<1> QED
  BY <1>2, UnwindAfter

LEMMA ThrowStep ==
  ASSUME NEW c, NEW k, Shape(c, k), There(c, k), Where(c, k), stage = "making", Throw
  PROVE  UnwindInv'
<1>1. Where(c, k)'
  BY DEF Where, Throw, vars
<1> QED
  BY <1>1, StageStep DEF Throw

\* The constructor's descriptor of the device that is cloned.
LEMMA CloneStep ==
  ASSUME NEW c, NEW k, Shape(c, k), There(c, k), Where(c, k), CloneBegin
  PROVE  UnwindInv'
<1>1. /\ c = 0 /\ k = 0 /\ stage' = "making" /\ up' = up /\ ~up
      /\ members' = <<"cloneFd">> /\ objects' = objects \cup {"cloneFd"}
  BY DEF CloneBegin, vars, Where
<1>2. /\ <<"cloneFd">> \in Seq(Classes) /\ Len(<<"cloneFd">>) = 1
      /\ <<"cloneFd">>[1] = "cloneFd"
  BY DEF Classes
<1>3. Shape(1, 0)'
  <2>1. /\ 1 \in {0, 1} /\ 0 \in 0 .. 8 /\ 0 # 8 /\ 1 .. 0 = {} /\ 1 + 0 = 1
    OBVIOUS
  <2> QED
    BY <1>1, <1>2, <2>1 DEF Shape
<1>4. There(1, 0)'
  <2>1. objects' = {"cloneFd"}
    BY <1>1 DEF There
  <2> QED
    BY <2>1 DEF There
<1>5. Where(1, 0)'
  BY <1>1 DEF Where
<1> QED
  BY <1>3, <1>4, <1>5, UnwindAfter

\* The constructor is done: Clone's descriptor is closed, the framebuffers are
\* members from here on.
LEMMA DoneStep ==
  ASSUME NEW c, NEW k, Shape(c, k), There(c, k), Where(c, k), ConstructDone
  PROVE  UnwindInv'
<1>1. c \in {0, 1} /\ k \in 0 .. 8 /\ Len(members) = c + k /\ members \in Seq(Classes)
  BY DEF Shape
<1>2. /\ Last(members) = "kmsDevice" /\ members # <<>> /\ stage = "making" /\ up' /\ stage' = "up"
      /\ members' = Order \o <<"framebuffers">> /\ objects' = objects \ {"cloneFd"}
  BY DEF ConstructDone, Whole, InitAccelerant
<1>3. k = 7
  <2>1. members[c + k] = "kmsDevice"
    BY <1>1, <1>2 DEF Last
  <2>2. k # 0
    <3>1. SUFFICES ASSUME k = 0 PROVE FALSE
      OBVIOUS
    <3>2. c = 1 /\ members[1] = "cloneFd"
      BY <1>1, <1>2, <3>1, ShapeNone DEF Shape
    <3> QED
      BY <1>1, <2>1, <3>1, <3>2
  <2>3. Named(k) = Named(7) /\ k \in 1 .. 8 /\ 7 \in 1 .. 8
    BY <1>1, <2>1, <2>2, Names DEF Shape
  <2> QED
    BY <2>3, NamesApart
<1>4. Shape(0, 8)'
  <2>1. Order \in Seq(Classes) /\ <<"framebuffers">> \in Seq(Classes)
    BY DEF Order, Classes
  <2>2. Len(Order) = 7 /\ Len(<<"framebuffers">>) = 1 /\ <<"framebuffers">>[1] = "framebuffers"
    BY Names
  <2>3. /\ members' \in Seq(Classes) /\ Len(members') = 8
        /\ \A i \in 1 .. 8 : members'[i] = IF i <= 7 THEN Order[i] ELSE <<"framebuffers">>[i - 7]
    <3> DEFINE o == Order
               f == <<"framebuffers">>
    <3>1. o \in Seq(Classes) /\ f \in Seq(Classes) /\ Len(o) = 7 /\ Len(f) = 1 /\ members' = o \o f
      BY <1>2, <2>1, <2>2
    <3> HIDE DEF o, f
    <3>2. /\ o \o f \in Seq(Classes) /\ Len(o \o f) = 7 + 1
          /\ \A i \in 1 .. 7 + 1 : (o \o f)[i] = IF i <= 7 THEN o[i] ELSE f[i - 7]
      <4>1. /\ o \o f \in Seq(Classes) /\ Len(o \o f) = Len(o) + Len(f)
            /\ \A i \in 1 .. Len(o) + Len(f) :
                 (o \o f)[i] = IF i <= Len(o) THEN o[i] ELSE f[i - Len(o)]
        BY ONLY <3>1, ConcatProperties, Zenon
      <4> QED
        BY ONLY <3>1, <4>1
    <3>3. 7 + 1 = 8
      OBVIOUS
    <3> QED
      BY ONLY <3>1, <3>2, <3>3 DEF o, f
  <2>4. \A i \in 1 .. 8 : members'[0 + i] = Named(i)
    <3> TAKE i \in 1 .. 8
    <3>1. CASE i <= 7
      <4>1. i \in 1 .. 7 /\ 0 + i = i
        BY <3>1
      <4> QED
        BY <2>3, <4>1, Names
    <3>2. CASE i = 8
      <4>1. i - 7 = 1 /\ 0 + i = i /\ ~(i <= 7)
        BY <3>2
      <4> QED
        BY <2>2, <2>3, <3>2, <4>1, Names
    <3> QED
      BY <3>1, <3>2
  <2>5. 0 \in {0, 1} /\ 8 \in 0 .. 8 /\ 0 + 8 = 8 /\ 0 # 1
    OBVIOUS
  <2> QED
    BY <2>3, <2>4, <2>5 DEF Shape
<1>5. There(0, 8)'
  <2>1. \A j \in 1 .. 8 : j \notin {1, 8} => Named(j) \in objects'
    <3> TAKE j \in 1 .. 8
    <3>1. j \notin {1, 8} => j \in 1 .. 7 /\ Named(j) # "cloneFd"
      BY NamesApart
    <3> QED
      BY <1>2, <1>3, <3>1 DEF There
  <2>2. \A y \in objects' : \E j \in 1 .. 8 : j # 8 /\ y = Named(j)
    <3> TAKE y \in objects'
    <3>1. PICK j \in 1 .. 7 : y = Named(j)
      BY <1>2, <1>3 DEF There
    <3>2. j \in 1 .. 8 /\ j # 8
      OBVIOUS
    <3> QED
      BY <3>1, <3>2
  <2>3. "cloneFd" \notin objects'
    BY <1>2
  <2> QED
    BY <2>1, <2>2, <2>3 DEF There
<1>6. Where(0, 8)'
  BY <1>2 DEF Where
<1> QED
  BY <1>4, <1>5, <1>6, UnwindAfter

LEMMA UnwindStep ==
  ASSUME UnwindInv, [InstanceNext]_allVars
  PROVE  UnwindInv'
<1>1. PICK c \in {0, 1}, k \in 0 .. 8 : Shape(c, k) /\ There(c, k) /\ Where(c, k)
  BY DEF UnwindInv
<1>2. CASE UNCHANGED allVars
  <2>1. Where(c, k)'
    BY <1>1, <1>2 DEF Where, allVars, vars, instanceVars
  <2> QED
    BY <1>1, <1>2, <2>1, StageStep DEF allVars, instanceVars
<1>3. CASE InitBegin
  <2>1. Where(c, k)'
    BY <1>1, <1>3 DEF Where, InitBegin, vars
  <2> QED
    BY <1>1, <1>3, <2>1, StageStep DEF InitBegin
<1>4. CASE CloneBegin
  BY <1>1, <1>4, CloneStep
<1>5. CASE DupDevice
  BY <1>1, <1>5, MakeStep DEF DupDevice, Make, MoveAssign
<1>6. CASE OpenRm \/ AllocClient \/ AllocDevice \/ OpenKms \/ AllocKmsDevice
  <2>1. PICK x : Turn(x) /\ (Make(x) \/ Throw \/ Abort)
    BY <1>6 DEF OpenRm, AllocClient, AllocDevice, OpenKms, AllocKmsDevice
  <2>2. stage = "making"
    BY <2>1 DEF Turn
  <2>3. Make(x) => UnwindInv'
    BY <1>1, <2>1, MakeStep DEF Make, MoveAssign
  <2> QED
    BY <1>1, <2>1, <2>2, <2>3, AbortStep, ThrowStep
<1>7. CASE ConstructThrows
  BY <1>1, <1>7, ThrowStep DEF ConstructThrows, Whole
<1>8. CASE ConstructDone
  BY <1>1, <1>8, DoneStep
<1>9. CASE UninitBegin
  <2>1. Where(c, k)'
    BY <1>1, <1>9 DEF Where, Shape, UninitBegin, vars
  <2> QED
    BY <1>1, <1>9, <2>1, StageStep DEF UninitBegin
<1>10. CASE DestroyFramebuffers
  <2>1. up' = FALSE /\ stage' = stage /\ Destroyed = "framebuffers" /\ members # <<>>
    BY <1>1, <1>10, LastIsThere DEF DestroyFramebuffers, Uninit, Destroying
  <2>2. Destroyed \notin objects
    <3>1. ASSUME "framebuffers" \in objects PROVE FALSE
      <4>1. PICK j \in 1 .. k : j # 8 /\ "framebuffers" = Named(j)
        BY <1>1, <3>1 DEF There
      <4>2. j \in 1 .. 8 /\ 8 \in 1 .. 8 /\ Named(8) = "framebuffers"
        BY <4>1, Names
      <4> QED
        BY <4>1, <4>2, NamesApart
    <3> QED
      BY <2>1, <3>1
  <2> QED
    BY <1>1, <1>10, <2>1, <2>2, DestroyStep DEF DestroyFramebuffers, Destroying
<1>11. CASE CloseDescriptor
  <2>1. Destroyed # "framebuffers" /\ up' = up /\ stage' = stage
    BY <1>11 DEF CloseDescriptor, Descriptors, vars
  <2>2. \/ objects' = objects \ With(Destroyed)
        \/ Destroyed \notin objects /\ objects' = objects
    BY <1>11 DEF CloseDescriptor
  <2>3. up' <=> (up /\ Destroyed # "framebuffers")
    BY <2>1
  <2> QED
    BY <1>1, <1>11, <2>1, <2>2, <2>3, DestroyStep DEF CloseDescriptor, Destroying
<1>12. CASE FreeObject \/ FreeKmsDevice
  <2>1. /\ Destroyed \in {"client", "device", "subdevice", "kmsDevice"} /\ GiveBack
        /\ stage \in {"unwinding", "deleting"} /\ members # <<>>
    BY <1>12 DEF FreeObject, FreeKmsDevice, Destroying
  <2>2. Destroyed \in objects /\ Destroyed # "framebuffers"
    BY <1>1, <2>1, LastIsThere
  <2>3. /\ members' = Remaining /\ stage' = stage /\ objects' = objects \ With(Destroyed)
        /\ up' = up
    BY <2>1, <2>2 DEF GiveBack, vars
  <2> QED
    BY <1>1, <2>1, <2>2, <2>3, DestroyStep
<1>13. CASE DestroyDone
  <2>1. c = 0 /\ k = 0
    BY <1>1, <1>13, ShapeNone DEF DestroyDone
  <2>2. Where(c, k)'
    BY <1>1, <1>13, <2>1 DEF Where, DestroyDone, vars
  <2> QED
    BY <1>1, <1>13, <2>2, StageStep DEF DestroyDone
<1>14. CASE Hook
  <2>1. up' = up /\ UNCHANGED instanceVars
    BY <1>14 DEF Hook, GetFrameBufferConfig, SetDisplayModeNoFramebuffer, SetDisplayModeFails, SetDisplayMode
  <2>2. Where(c, k)'
    BY <1>1, <2>1 DEF Where, instanceVars
  <2> QED
    BY <1>1, <2>1, <2>2, StageStep DEF instanceVars
<1> QED
  BY <1>2, <1>3, <1>4, <1>5, <1>6, <1>7, <1>8, <1>9, <1>10, <1>11, <1>12, <1>13, <1>14
     DEF InstanceNext, Making, Deleting

THEOREM UnwindInvariance == InstanceSpec => []UnwindInv
<1>1. InstanceInit => UnwindInv
  <2> SUFFICES ASSUME InstanceInit PROVE UnwindInv
    OBVIOUS
  <2>1. stage = "none" /\ members = <<>> /\ objects = {} /\ ~up
    BY DEF InstanceInit, Init
  <2>2. Shape(0, 0) /\ There(0, 0) /\ Where(0, 0)
    BY <2>1, ShapeEmpty DEF There, Where
  <2> QED
    BY <2>2 DEF UnwindInv, Shape
<1> QED
  BY <1>1, UnwindStep, PTL DEF InstanceSpec

\* Whatever the constructor of the instance throws at and whenever it is deleted
\* (NvAccelerant::Init, Clone, Uninit): no destructor gives back what is not
\* there, and nothing is left when they are done.
THEOREM MembersUnwindCorrect == InstanceSpec => []MembersUnwind
<1>1. UnwindInv => MembersUnwind
  <2> SUFFICES ASSUME UnwindInv PROVE MembersUnwind
    OBVIOUS
  <2>1. PICK c \in {0, 1}, k \in 0 .. 8 : Shape(c, k) /\ There(c, k) /\ Where(c, k)
    BY DEF UnwindInv
  <2>2. ToSet(members) \ {"devFd", "framebuffers"} \subseteq objects
    <3> SUFFICES ASSUME NEW x \in ToSet(members), x # "devFd", x # "framebuffers"
                 PROVE  x \in objects
      OBVIOUS
    <3>1. (c = 1 /\ x = "cloneFd") \/ \E j \in 1 .. k : x = Named(j)
      BY <2>1, MembersAre
    <3>2. ASSUME NEW j \in 1 .. k, x = Named(j) PROVE j \notin {1, 8}
      BY <3>2, Names
    <3> QED
      BY <2>1, <3>1, <3>2 DEF There
  <2>3. objects \subseteq ToSet(members)
    BY <2>1, MembersAre DEF There
  <2>4. stage = "none" => objects = {} /\ ~up
    BY <2>1 DEF There, Where
  <2>5. stage = "up" => GetDeviceInfo
    <3>1. ASSUME k = 8 PROVE Named(2) \in objects /\ Named(3) \in objects /\ Named(5) \in objects
      BY <2>1, <3>1 DEF There
    <3> QED
      BY <2>1, <3>1, Names DEF Where, GetDeviceInfo, Control
  <2> QED
    BY <2>1, <2>2, <2>3, <2>4, <2>5 DEF MembersUnwind, Where
<1> QED
  BY <1>1, UnwindInvariance, PTL

-----------------------------------------------------------------------------
(* What is allocated for an image.                                         *)

\* AlignUp rounds up, to a multiple.
LEMMA AlignUpUp ==
  ASSUME NEW v \in Nat
  PROVE  /\ v <= AlignUp(v, 16) /\ AlignUp(v, 16) \in Nat
         /\ AlignUp(v, 64) \div 64 \in Nat /\ v <= 64 * (AlignUp(v, 64) \div 64)
<1>1. AlignUp(v, 16) = ((v + 15) \div 16) * 16
  BY DEF AlignUp
<1>2. AlignUp(v, 64) = ((v + 63) \div 64) * 64
  BY DEF AlignUp
<1>3. /\ (v + 15) \div 16 \in Nat /\ v <= ((v + 15) \div 16) * 16
      /\ (v + 63) \div 64 \in Nat /\ v <= ((v + 63) \div 64) * 64
  OBVIOUS
<1>4. \A q \in Nat : (q * 64) \div 64 = q
  OBVIOUS
<1>5. AlignUp(v, 64) \div 64 = (v + 63) \div 64
  BY <1>2, <1>3, <1>4
<1>6. ((v + 15) \div 16) * 16 \in Nat
  BY <1>3
<1>7. 64 * ((v + 63) \div 64) = ((v + 63) \div 64) * 64
  BY <1>3
<1> QED
  BY <1>1, <1>3, <1>5, <1>6, <1>7

\* The reads of the display stay in the memory that NvKmsBitmap allocates for a
\* mode (nvKmsKapiAllocateVideoMemory, REGISTER_SURFACE): each line holds its
\* pixels, the last one ends inside.
LEMMA ImageFits ==
  ASSUME NEW image \in Modes
  PROVE  LET surface == Surface(image)
             mem == Memory(image)
         IN /\ mem # None /\ mem.contiguous /\ mem.iso /\ mem.format = surface.layout
            /\ ~mem.compressible
            /\ 64 * surface.pitch >= surface.width
            /\ surface.pitch * surface.height <= surface.size
            /\ surface.size <= mem.size
<1> DEFINE p == BytesPerRow(image.width)
           h == image.height
           n == ImageSize(image)
<1>1. image.width \in Nat /\ h \in Nat /\ p * h < Addressable
  BY ModesAssumption
<1>2. p \in Nat /\ image.width <= 64 * p
  BY <1>1, AlignUpUp DEF BytesPerRow
<1>3. n = (p * h) % Addressable
  BY DEF ImageSize
<1>4. Surface(image) = [layout |-> "pitch", width |-> image.width, height |-> h, pitch |-> p, size |-> n]
  BY DEF Surface
<1>5. Memory(image) = [size |-> AlignUp(n, 16), format |-> "pitch",
                       compressible |-> FALSE, contiguous |-> TRUE, iso |-> TRUE, scanout |-> TRUE]
  BY DEF Memory, nvKmsKapiAllocateVideoMemory
<1> HIDE DEF p, h, n
<1>6. p * h \in Nat
  BY <1>1, <1>2
<1>7. n = p * h
  <2> DEFINE x == p * h
  <2>1. x \in Nat /\ x < 16777216
    BY <1>1, <1>6 DEF Addressable
  <2> HIDE DEF x
  <2>2. x % 16777216 = x
    BY <2>1
  <2> QED
    BY <1>3, <2>2 DEF x, Addressable
<1>8. n <= AlignUp(n, 16)
  BY <1>6, <1>7, AlignUpUp
<1>9. Memory(image) # None
  <2>1. Memory(image) \in VideoMemory
    BY <1>5, <1>6, <1>7, AlignUpUp DEF VideoMemory
  <2> QED
    BY <2>1, NoMemoryAssumption
<1> QED
  BY <1>2, <1>4, <1>5, <1>7, <1>8, <1>9

\* The display's reads stay inside the memory of the framebuffers, for any
\* modes NVKMS validates.
THEOREM SurfaceCorrect == InstanceSpec => []SurfaceInMemory
<1>1. OwnerInv => SurfaceInMemory
  <2>1. OwnerInv => framebuffer.size \in Modes \cup {None} /\ oldFramebuffer.size \in Modes \cup {None}
    BY DEF OwnerInv, TypeOK, Bitmaps
  <2> QED
    BY <2>1, ImageFits DEF SurfaceInMemory
<1> QED
  BY <1>1, InstanceImplements, OwnerInvariance, PTL

=============================================================================
