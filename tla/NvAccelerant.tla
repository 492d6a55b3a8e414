---------------------------- MODULE NvAccelerant ----------------------------
(***************************************************************************)
(* Mode setting in the accelerant (accelerant/Accelerant.cpp).  The        *)
(* app_server's hooks run one at a time; every call to the RM and to NVKMS *)
(* may fail and throws then, and the hook turns the exception into an      *)
(* error code.  A hook is one action, the outcome of its calls is chosen.  *)
(* The hooks that ask without changing anything are left out, but for the  *)
(* one that tells the app_server where to draw.                            *)
(***************************************************************************)
EXTENDS Naturals, NvKmsBitmap

CONSTANTS
  Ids,      \* identities of graphics memory; a bound on the allocations
  Modes     \* the modes that are set; a framebuffer has the size of one

ASSUME NoneAssumption == None \notin Ids /\ None \notin Modes

VARIABLES
  up,              \* sInstance # NULL
  framebuffer,     \* fFramebuffer
  oldFramebuffer,  \* fOldFramebuffer
  currentMode,     \* fCurrentMode, None before the first mode was set
  kernel,          \* external: the resources that exist
  head,            \* external: the surface and the mode on the display
  drawing,         \* the framebuffer the app_server was told of
  behind           \* mode sets since then, counted up to 2

vars == <<up, framebuffer, oldFramebuffer, currentMode, kernel, head, drawing, behind>>

DarkHead == [surface |-> None, mode |-> None]

\* NvAccelerant::Init; when the constructor throws there is no instance.
InitAccelerant ==
  /\ ~up /\ up' = TRUE
  /\ framebuffer' = Unset /\ oldFramebuffer' = Unset /\ currentMode' = None
  /\ UNCHANGED <<kernel, head, drawing, behind>>

\* NvAccelerant::Uninit: the framebuffers are destroyed, then the KMS device and
\* the RM client, whose end takes the mappings that are left with it.
Uninit ==
  /\ up /\ up' = FALSE
  /\ kernel' = [Release(Release(kernel, framebuffer), oldFramebuffer) EXCEPT !.mappings = {}]
  /\ head' = DarkHead
  /\ framebuffer' = Unset /\ oldFramebuffer' = Unset /\ currentMode' = None
  /\ drawing' = None /\ behind' = 0

\* SetDisplayMode up to the new framebuffer: its constructor throws.
SetDisplayModeNoFramebuffer(b, stage) ==
  /\ up /\ Fresh(kernel, b)
  /\ kernel' = ConstructFailed(kernel, b, stage)
  /\ UNCHANGED <<up, framebuffer, oldFramebuffer, currentMode, head, drawing, behind>>

\* Mutant: mode and framebuffers change hands before NVKMS is asked.
SetDisplayModeFailsLate(b, m) ==
  /\ up /\ Fresh(kernel, b)
  /\ kernel' = Release(Constructed(kernel, b), oldFramebuffer)
  /\ oldFramebuffer' = framebuffer
  /\ framebuffer' = NewBitmap(b, m)
  /\ UNCHANGED <<up, currentMode, head, drawing, behind>>

\* SET_MODE fails: the new framebuffer is destroyed on the way out.
SetDisplayModeFails(b, m) ==
  /\ up /\ Fresh(kernel, b)
  /\ kernel' = Release(Constructed(kernel, b), NewBitmap(b, m))
  /\ UNCHANGED <<up, framebuffer, oldFramebuffer, currentMode, head, drawing, behind>>

\* Mutant: the new framebuffer replaces the one in use at once.
SetDisplayModeAtOnce(b, m) ==
  /\ up /\ Fresh(kernel, b)
  /\ head' = [surface |-> b, mode |-> m]
  /\ currentMode' = m
  /\ framebuffer' = Assigned(framebuffer, NewBitmap(b, m))
  /\ kernel' = Release(Constructed(kernel, b), framebuffer)
  /\ behind' = IF behind < 2 THEN behind + 1 ELSE 2
  /\ UNCHANGED <<up, oldFramebuffer, drawing>>

\* SET_MODE shows the new framebuffer; then fOldFramebuffer takes over the one
\* that was shown and the one it held is destroyed.
SetDisplayMode(b, m) ==
  /\ up /\ Fresh(kernel, b)
  /\ head' = [surface |-> b, mode |-> m]
  /\ currentMode' = m
  /\ oldFramebuffer' = Assigned(oldFramebuffer, framebuffer)
  /\ LET moved == Moved(framebuffer) IN
       /\ framebuffer' = Assigned(moved, NewBitmap(b, m))
       /\ kernel' = Release(Release(Constructed(kernel, b), oldFramebuffer), moved)
  /\ behind' = IF behind < 2 THEN behind + 1 ELSE 2
  /\ UNCHANGED <<up, drawing>>

\* The app_server learns where to draw; without a framebuffer the hook fails.
GetFrameBufferConfig ==
  /\ up /\ framebuffer.surface # None
  /\ drawing' = framebuffer.mapping /\ behind' = 0
  /\ UNCHANGED <<up, framebuffer, oldFramebuffer, currentMode, kernel, head>>

Init ==
  /\ up = FALSE
  /\ framebuffer = Unset /\ oldFramebuffer = Unset /\ currentMode = None
  /\ kernel = NoResources /\ head = DarkHead
  /\ drawing = None /\ behind = 0

Next ==
  \/ InitAccelerant \/ Uninit \/ GetFrameBufferConfig
  \/ \E b \in Ids :
       \/ \E stage \in Stages : SetDisplayModeNoFramebuffer(b, stage)
       \/ \E m \in Modes : SetDisplayModeFails(b, m) \/ SetDisplayMode(b, m)

Spec == Init /\ [][Next]_vars

-----------------------------------------------------------------------------

Owned(resource) == {framebuffer[resource], oldFramebuffer[resource]} \ {None}

\* Every variable keeps to its type, and the two framebuffers never own the same
\* memory, which both would give back.
TypeOK ==
  /\ up \in BOOLEAN
  /\ framebuffer \in Bitmaps(Ids, Modes) /\ oldFramebuffer \in Bitmaps(Ids, Modes)
  /\ framebuffer.memory = None \/ framebuffer.memory # oldFramebuffer.memory
  /\ currentMode \in Modes \cup {None}
  /\ kernel \in Resources(Ids)
  /\ head \in [surface : Ids \cup {None}, mode : Modes \cup {None}]
  /\ drawing \in Ids \cup {None} /\ behind \in 0 .. 2

\* What the display reads is fFramebuffer, registered and backed by memory,
\* after any sequence of mode sets that fail at any call.
HeadOwned ==
  up => /\ head.surface = framebuffer.surface
        /\ head.surface # None => head.surface \in kernel.surfaces \cap kernel.memory

\* GetDisplayMode answers with the mode on the display, and the framebuffer
\* has its size, also when a later mode set failed.
ModeAgrees == up => currentMode = head.mode /\ framebuffer.size = head.mode

\* The app_server draws into memory that is there: a mode set leaves the
\* framebuffer it was told of mapped until the next one.
DrawTargetMapped ==
  up /\ drawing # None /\ behind <= 1 => drawing \in kernel.mappings \cap kernel.memory

\* No memory and no surface is left without an owner, whichever call failed.
NothingLeaked ==
  /\ kernel.memory = (IF up THEN Owned("memory") ELSE {})
  /\ kernel.surfaces = (IF up THEN Owned("surface") ELSE {})

\* The areas that exist are those of the mappings that exist: "delete_area(fArea)"
\* in NvRmMemoryMapping::Delete takes a mapping's area with it.
AreaFollowsMapping == kernel.areas \subseteq kernel.mappings

=============================================================================
