----------------------------- MODULE NvKmsBitmap -----------------------------
(***************************************************************************)
(* Who owns graphics memory in user space: NvKmsBitmap                     *)
(* (accelerant/NvKmsBitmap.cpp) and its three members, which own an RM     *)
(* memory object, an NVKMS surface, and the memory's mapping with the area *)
(* it was mapped into (nvrm_cpp_sdk).  A bitmap is a value that names the  *)
(* resources it owns; the kernel's side k says which of them exist.  The   *)
(* operators are what constructor, destructor and move assignment do to    *)
(* both.  Calls that give a resource back do not fail here.                *)
(***************************************************************************)
EXTENDS Naturals

CONSTANT None

NoResources == [memory |-> {}, surfaces |-> {}, mappings |-> {}, areas |-> {}]

Resources(Ids) ==
  [memory : SUBSET Ids, surfaces : SUBSET Ids, mappings : SUBSET Ids, areas : SUBSET Ids]

Unset == [memory |-> None, surface |-> None, mapping |-> None, area |-> None, size |-> None]

Bitmaps(Ids, Sizes) ==
  [memory : Ids \cup {None}, surface : Ids \cup {None}, mapping : Ids \cup {None},
   area : Ids \cup {None}, size : Sizes \cup {None}]

\* An identity no resource has.
Fresh(k, b) == b \notin k.memory \cup k.surfaces \cup k.mappings \cup k.areas

MapMemory(k, b) == [k EXCEPT !.mappings = @ \cup {b}]

\* The mapping goes with the area it knows of.
UnmapMemory(k, bmp) ==
  [k EXCEPT !.mappings = @ \ {bmp.mapping},
            !.areas = IF bmp.mapping = None THEN @ ELSE @ \ {bmp.area}]

UnregisterSurface(k, bmp) == [k EXCEPT !.surfaces = @ \ {bmp.surface}]

FreeMemory(k, bmp) == [k EXCEPT !.memory = @ \ {bmp.memory}]

\* What the destructors of the members, and of a move assignment's target, give
\* back.
Release(k, bmp) == FreeMemory(UnregisterSurface(UnmapMemory(k, bmp), bmp), bmp)

\* dst = std::move(src): NvRmMemoryMapping's operator= leaves fArea as it was.
Assigned(dst, src) == [src EXCEPT !.area = dst.area]

\* What is left in a bitmap that was moved from.
Moved(src) == [Unset EXCEPT !.area = src.area]

\* The places where the constructor can throw.
Stages == {"memory", "export", "surface", "map", "area"}

\* Mutant: the surface is not given back when the mapping fails.
ConstructFailedKeepsSurface(k, b, stage) ==
  [k EXCEPT !.mappings = IF stage = "area" THEN @ \cup {b} ELSE @,
            !.surfaces = IF stage \in {"map", "area"} THEN @ \cup {b} ELSE @]

\* A constructor that throws gives back the members it had set; but nobody
\* unmaps the memory when NV_HAIKU_MAP fails after rm.MapMemory.
ConstructFailed(k, b, stage) ==
  IF stage = "area" THEN MapMemory(k, b) ELSE k

\* The constructor: all four resources exist, and the bitmap's members are
\* assigned one after the other.
Constructed(k, b) ==
  [memory |-> k.memory \cup {b}, surfaces |-> k.surfaces \cup {b},
   mappings |-> k.mappings \cup {b}, areas |-> k.areas \cup {b}]

NewBitmap(b, size) ==
  Assigned(Unset, [memory |-> b, surface |-> b, mapping |-> b, area |-> b, size |-> size])

-----------------------------------------------------------------------------
(* What is allocated, mapped and registered for an image.  Lengths count in  *)
(* units of 256 bytes, which hold 64 pixels; 16 of them are a page.          *)

\* What 32 bits of bytes can count: 2^24 units.
Addressable == 16777216

AlignUp(val, align) == ((val + (align - 1)) \div align) * align

\* Mutant: the pitch is not rounded up.
BytesPerRowDown(width) == width \div 64

BytesPerRow(width) == AlignUp(width, 64) \div 64

ImageSize(image) == (BytesPerRow(image.width) * image.height) % Addressable

\* The attributes that describe video memory.
VideoMemory ==
  [size : Nat, format : {"block linear", "pitch"}, compressible : BOOLEAN,
   contiguous : BOOLEAN, iso : BOOLEAN, scanout : BOOLEAN]

ASSUME NoMemoryAssumption == None \notin VideoMemory

\* The attributes RM is asked for, None when the request is refused.
nvKmsKapiAllocateVideoMemory(layout, size, type, compressible) ==
  IF \/ layout \notin {"block linear", "pitch"}
     \/ type \notin {"scanout", "notifier", "offscreen"}
     \/ type = "notifier" /\ layout = "block linear"
  THEN None
  ELSE [size |-> size, format |-> layout,
        compressible |-> compressible /\ layout = "block linear",
        contiguous |-> type = "scanout", iso |-> type = "scanout",
        scanout |-> type # "offscreen"]

Memory(image) ==
  nvKmsKapiAllocateVideoMemory("pitch", AlignUp(ImageSize(image), 16), "scanout", FALSE)

\* NVKMS_IOCTL_REGISTER_SURFACE.
Surface(image) ==
  [layout |-> "pitch", width |-> image.width, height |-> image.height,
   pitch |-> BytesPerRow(image.width), size |-> ImageSize(image)]

=============================================================================
