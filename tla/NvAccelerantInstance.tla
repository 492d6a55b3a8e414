------------------------ MODULE NvAccelerantInstance ------------------------
(***************************************************************************)
(* How the instance of the accelerant is made and deleted: the members of  *)
(* NvAccelerant (accelerant/Accelerant.cpp) and of the SDK's classes       *)
(* (nvrm_cpp_sdk) in the order the compiler gives them, each owning a      *)
(* descriptor or an object of the RM or of NVKMS.  A constructor that      *)
(* throws destroys the members that are whole, last one first; so does     *)
(* "delete".  What a destructor throws ends the team.                      *)
(*                                                                         *)
(* It is composed with NvAccelerant: the last step of the constructor is   *)
(* InitAccelerant, the framebuffers are the members that are destroyed     *)
(* first, by Uninit, and the hooks run in between.                         *)
(***************************************************************************)
EXTENDS NvAccelerant, SequencesExt

\* external: NVKMS validates no mode whose image has 4 GB or more.
ASSUME ModesAssumption ==
  \A m \in Modes : /\ m.width \in Nat /\ m.height \in Nat
                   /\ BytesPerRow(m.width) * m.height < Addressable

VARIABLES
  stage,   \* "none", "making", "unwinding", "up", "deleting"; "terminated"
  members, \* what is constructed and not yet destroyed, in order
  objects  \* external: the descriptors and objects that exist

instanceVars == <<stage, members, objects>>
allVars == <<vars, instanceVars>>

\* The members in the order of their declaration, with their own members:
\* fDevFd; fRm's fFd and fClient; fRmDev's fDevice and fSubdevice; fKms's fFd;
\* fKmsDev.  Clone's own descriptor comes before all of them.
Order == <<"devFd", "rmFd", "client", "device", "subdevice", "kmsFd", "kmsDevice">>

Descriptors == {"cloneFd", "devFd", "rmFd", "kmsFd"}

\* external: what goes with an object, or with a closed descriptor.
With(x) ==
  CASE x = "rmFd" -> {"rmFd", "client", "device", "subdevice"}
    [] x = "client" -> {"client", "device", "subdevice"}
    [] x = "device" -> {"device", "subdevice"}
    [] x = "kmsFd" -> {"kmsFd", "kmsDevice"}
    [] OTHER -> {x}

\* The member to construct now: the first one that is missing.
Turn(x) ==
  /\ stage = "making" /\ x \notin ToSet(members)
  /\ \E i \in DOMAIN Order : Order[i] = x /\ \A j \in 1 .. i - 1 : Order[j] \in ToSet(members)

\* Mutant: the temporary keeps its handle and gives the object back.
MoveAssignKeeps(x) == objects

\* member = Class(...): the member takes the handle, the temporary is left
\* with none, and its destructor gives nothing back.
MoveAssign(x) == objects \cup {x}

\* A member is whole.
Make(x) ==
  /\ members' = Append(members, x)
  /\ objects' = MoveAssign(x)
  /\ UNCHANGED <<vars, stage>>

\* An exception leaves the constructor.
Throw == stage' = "unwinding" /\ UNCHANGED <<vars, members, objects>>

\* A failed assertion ends the team; the kernel closes what it had open.
Abort ==
  /\ stage' = "none" /\ members' = <<>> /\ objects' = {}
  /\ UNCHANGED vars

-----------------------------------------------------------------------------
(* The constructor.                                                        *)

InitBegin ==
  /\ stage = "none"
  /\ stage' = "making"
  /\ UNCHANGED <<vars, members, objects>>

\* Clone() opens the device itself.
CloneBegin ==
  /\ stage = "none"
  /\ stage' = "making"
  /\ members' = <<"cloneFd">> /\ objects' = objects \cup {"cloneFd"}
  /\ UNCHANGED vars

\* The result of dup() is not looked at.
DupDevice ==
  /\ Turn("devFd")
  /\ \/ Make("devFd")
     \/ members' = Append(members, "devFd") /\ UNCHANGED <<vars, stage, objects>>

\* NvRmApi(): the control device has to open.
OpenRm == Turn("rmFd") /\ (Make("rmFd") \/ Abort)

\* NvRmApi(): the client.  An ioctl that fails, or a status of the RM, throws.
AllocClient == Turn("client") /\ (Make("client") \/ Throw)

\* NvRmDevice(): device and subdevice.
AllocDevice ==
  \E x \in {"device", "subdevice"} : Turn(x) /\ (Make(x) \/ Throw)

\* NvKmsApi(): the modeset device has to open.
OpenKms == Turn("kmsFd") /\ (Make("kmsFd") \/ Abort)

\* NvKmsDevice(): ALLOC_DEVICE has to succeed.
AllocKmsDevice == Turn("kmsDevice") /\ (Make("kmsDevice") \/ Abort)

Whole == stage = "making" /\ members # <<>> /\ Last(members) = "kmsDevice"

\* The body: there is no display, or QUERY_DISP, QUERY_DPY_DYNAMIC_DATA,
\* GRAB_OWNERSHIP, VALIDATE_MODE_INDEX or VALIDATE_MODE fails.
ConstructThrows == Whole /\ Throw

\* sInstance is set, the framebuffers are unset, Clone closes its descriptor.
ConstructDone ==
  /\ Whole
  /\ InitAccelerant
  /\ stage' = "up"
  /\ members' = Order \o <<"framebuffers">>
  /\ objects' = objects \ {"cloneFd"}

-----------------------------------------------------------------------------
(* The destructors.                                                        *)

UninitBegin ==
  /\ stage = "up"
  /\ stage' = "deleting"
  /\ UNCHANGED <<vars, members, objects>>

Destroying == stage \in {"unwinding", "deleting"} /\ members # <<>>

\* Mutant: the first member goes first.
FirstPlace == 1

\* Members are destroyed in the reverse order.
Place == Len(members)

\* The member that is destroyed next, and those it leaves.
Destroyed == members[Place]
Remaining == RemoveAt(members, Place)

\* Gives back what a bitmap owns; surfaces need the KMS device, memory and
\* mappings the RM's.
DestroyFramebuffers ==
  /\ Destroying /\ Destroyed = "framebuffers"
  /\ IF Owned("surface") = {} \/ {"device", "kmsDevice"} \subseteq objects
     THEN Uninit /\ stage' = stage
     ELSE stage' = "terminated" /\ UNCHANGED vars
  /\ members' = Remaining
  /\ UNCHANGED objects

\* ~FileDesc(): what close() says is not looked at.
CloseDescriptor ==
  /\ Destroying /\ Destroyed \in Descriptors
  /\ members' = Remaining
  /\ objects' = objects \ (IF Destroyed \in objects THEN With(Destroyed) ELSE {})
  /\ UNCHANGED <<vars, stage>>

\* A call that gives an object back fails when the object is not there, or no
\* descriptor to ask through.
GiveBack ==
  /\ members' = Remaining
  /\ stage' = IF Destroyed \in objects THEN stage ELSE "terminated"
  /\ objects' = objects \ With(Destroyed)
  /\ UNCHANGED vars

\* ~NvRmObject(): what Free() throws leaves the destructor.
FreeObject == Destroying /\ Destroyed \in {"client", "device", "subdevice"} /\ GiveBack

\* ~NvKmsDevice() asserts that FREE_DEVICE succeeds.
FreeKmsDevice == Destroying /\ Destroyed = "kmsDevice" /\ GiveBack

\* The hook returns, with an error code after an exception.
DestroyDone ==
  /\ stage \in {"unwinding", "deleting"} /\ members = <<>>
  /\ stage' = "none"
  /\ UNCHANGED <<vars, members, objects>>

-----------------------------------------------------------------------------
(* The hooks.                                                               *)

\* Calls to an object of the RM that return and do not throw.
Control(x) == {"rmFd", "client", x} \subseteq objects

\* Two calls to the subdevice.
GetDeviceInfo == Control("subdevice")

InstanceInit == Init /\ stage = "none" /\ members = <<>> /\ objects = {}

\* The hooks that set modes and tell of framebuffers.
Hook ==
  /\ stage = "up"
  /\ \/ GetFrameBufferConfig
     \/ \E b \in Ids :
          \/ \E s \in Stages : SetDisplayModeNoFramebuffer(b, s)
          \/ \E m \in Modes : SetDisplayModeFails(b, m) \/ SetDisplayMode(b, m)
  /\ UNCHANGED instanceVars

Making ==
  \/ InitBegin \/ CloneBegin
  \/ DupDevice \/ OpenRm \/ AllocClient \/ AllocDevice \/ OpenKms \/ AllocKmsDevice
  \/ ConstructThrows \/ ConstructDone

Deleting ==
  \/ UninitBegin \/ DestroyFramebuffers \/ CloseDescriptor
  \/ FreeObject \/ FreeKmsDevice \/ DestroyDone

InstanceNext == Making \/ Deleting \/ Hook

InstanceSpec == InstanceInit /\ [][InstanceNext]_allVars

-----------------------------------------------------------------------------

\* Every handle a member holds exists until that member gives it back, so that no
\* destructor throws, which would end the app_server, and the hooks reach what
\* they ask; and a constructor that
\* stops anywhere, like a deletion, leaves no descriptor and no object behind.
MembersUnwind ==
  /\ stage # "terminated"
  /\ ToSet(members) \ {"devFd", "framebuffers"} \subseteq objects
  /\ objects \subseteq ToSet(members)
  /\ stage = "none" => objects = {} /\ ~up
  /\ stage = "up" => GetDeviceInfo

\* The display's reads stay inside the memory it was given: each line of each
\* framebuffer has room for its pixels, and the last one ends inside the memory
\* that was allocated for it, as contiguous as scanout needs it and laid out as
\* it was registered.
SurfaceInMemory ==
  \A image \in {framebuffer.size, oldFramebuffer.size} \ {None} :
    LET surface == Surface(image)
        mem == Memory(image)
    IN /\ mem # None /\ mem.contiguous /\ mem.iso /\ mem.format = surface.layout /\ ~mem.compressible
       /\ 64 * surface.pitch >= surface.width
       /\ surface.pitch * surface.height <= surface.size
       /\ surface.size <= mem.size

=============================================================================
