---------------------------- MODULE NvHaikuFiles ----------------------------
(***************************************************************************)
(* The open files of a GPU (/dev/nvidiaN) and of the control device        *)
(* (/dev/nvidiactl): BaseDevice.cpp, ControlDevice.cpp, Device.cpp, with   *)
(* the part of os-haiku.cpp that gives the RM pages and stores in a file   *)
(* what its next NV_HAIKU_MAP is to map.                                   *)
(*                                                                         *)
(* It is composed with NvHaikuDevice: a GPU file is a user of the device   *)
(* from AcquireRef() in Open to ReleaseRef() in Close; NVKMS is another.   *)
(*                                                                         *)
(* The kernel's file layer is as the driver needs it: calls start only on  *)
(* an open descriptor, close() runs the close hook at once, also beside    *)
(* calls under way, and the handle is freed when the last of them is back. *)
(* The pointer that FromFd() returns is no such call.                      *)
(***************************************************************************)
EXTENDS NvHaikuDevice

CONSTANTS
  GpuFiles,   \* handles of the GPU device, among the Users of the device
  CtlFiles,   \* handles of the control device
  Threads,
  Allocs,     \* nv_alloc_t: system memory the RM has allocated
  Vram,       \* graphics memory
  Cachings,   \* NV_MEMORY_* that requests ask for
  None

ASSUME FilesAssumption ==
  GpuFiles \subseteq Users /\ GpuFiles \cap CtlFiles = {} /\ IsFiniteSet(CtlFiles)
ASSUME MemoryAssumption ==
  /\ Allocs \cap Vram = {} /\ None \notin Allocs \cup Vram \cup Cachings
  /\ Cachings \subseteq {"cached", "uncached", "writecombined", "writeback", "default", "weak"}

VARIABLES
  fd,      \* descriptor of each handle; "none": there is no such handle
  fClosed,
  ctx,     \* fMmapContext of each handle
  arrays,  \* pRanges arrays on the heap
  memory,  \* cacheType of each nv_alloc_t, None when it is freed
  call,    \* what each thread is doing: where, to which file, with what
  asked,   \* history: the request whose context a file holds
  disturbed \* history: a file was closed, filled or mapped, or its pages freed,
            \* in the middle of a call that relies on it

fileVars == <<fd, fClosed, ctx, arrays, memory, call, asked, disturbed>>
allVars == <<vars, fileVars>>

Files == GpuFiles \cup CtlFiles
Requests == [mem : Allocs \cup Vram, caching : Cachings]

Empty == [valid |-> FALSE, alloc |-> None, ranges |-> None, caching |-> "cached"]
Idle == [at |-> "idle", file |-> None, arg |-> None]

\* The memory type of an area; types it does not know leave the area's own.
to_haiku_cache_type(c) ==
  CASE c = "writecombined" -> "write combining"
    [] c \in {"uncached", "default"} -> "uncached"
    [] OTHER -> "keep"

\* Threads in a call on f that the kernel knows of, and threads in any.
Inside(f) == {t \in Threads : call[t].file = f /\ call[t].at \in {"control", "rm", "area"}}
Touching(f) == {t \in Threads : call[t].file = f}
Filling == {"found", "clear", "filled", "valid"}

Begin(t, at, f, arg) == call[t] = Idle /\ call' = [call EXCEPT ![t] = [at |-> at, file |-> f, arg |-> arg]]
Step(t, from, to) == call[t].at = from /\ call' = [call EXCEPT ![t].at = to]
Return(t, from) == call[t].at = from /\ call' = [call EXCEPT ![t] = Idle]
Disturb(b) == disturbed' = (disturbed \/ b)

-----------------------------------------------------------------------------
(* Opening and closing.                                                    *)

\* There is no handle: the state a new one is made in.
Forget(f) ==
  /\ fd' = [fd EXCEPT ![f] = "none"]
  /\ fClosed' = [fClosed EXCEPT ![f] = FALSE]
  /\ ctx' = [ctx EXCEPT ![f] = Empty]
  /\ asked' = [asked EXCEPT ![f] = None]

\* A new handle of the control device.
OpenControl(f) ==
  /\ f \in CtlFiles /\ fd[f] = "none"
  /\ fd' = [fd EXCEPT ![f] = "open"]
  /\ UNCHANGED <<vars, fClosed, ctx, arrays, memory, call, asked, disturbed>>

\* A new handle of the GPU, which goes on to AcquireRef().
OpenBegin(t, f) ==
  /\ f \in GpuFiles /\ fd[f] = "none"
  /\ Begin(t, "opening", f, None)
  /\ fd' = [fd EXCEPT ![f] = "opening"]
  /\ AcquireRef(f)
  /\ UNCHANGED <<fClosed, ctx, arrays, memory, asked, disturbed>>

\* Mutant: the result of AcquireRef() is ignored.
OpenDoneUnchecked(t) == LET f == call[t].file IN
  /\ Return(t, "opening")
  /\ pc[f] \in {"open", "closed"}
  /\ fd' = [fd EXCEPT ![f] = "open"]
  /\ UNCHANGED <<vars, fClosed, ctx, arrays, memory, asked, disturbed>>

OpenDone(t) == LET f == call[t].file IN
  /\ Return(t, "opening")
  /\ pc[f] = "open"
  /\ fd' = [fd EXCEPT ![f] = "open"]
  /\ UNCHANGED <<vars, fClosed, ctx, arrays, memory, asked, disturbed>>

\* AcquireRef() failed: Open deletes the handle.
OpenFails(t) == LET f == call[t].file IN
  /\ Return(t, "opening")
  /\ pc[f] = "closed"
  /\ fd' = [fd EXCEPT ![f] = "none"]
  /\ UNCHANGED <<vars, fClosed, ctx, arrays, memory, asked, disturbed>>

\* A file goes while a thread is in it, or holds its handle without one.
CloseUnder(f) == Disturb(\E s \in Touching(f) : call[s].at \in {"rm"} \cup Filling)

\* The close hook of the control device sets fClosed.
CloseControl(f) ==
  /\ f \in CtlFiles /\ fd[f] = "open"
  /\ fClosed' = [fClosed EXCEPT ![f] = TRUE]
  /\ fd' = [fd EXCEPT ![f] = "closed"]
  /\ CloseUnder(f)
  /\ UNCHANGED <<vars, ctx, arrays, memory, call, asked>>

\* The GPU's gives its reference back first and sets fClosed afterwards.
CloseBegin(t, f) ==
  /\ f \in GpuFiles /\ fd[f] = "open"
  /\ Begin(t, "closing", f, None)
  /\ fd' = [fd EXCEPT ![f] = "closing"]
  /\ CloseUnder(f)
  /\ ReleaseRef(f)
  /\ UNCHANGED <<fClosed, ctx, arrays, memory, asked>>

CloseDone(t) == LET f == call[t].file IN
  /\ Return(t, "closing")
  /\ pc[f] = "closed"
  /\ fClosed' = [fClosed EXCEPT ![f] = TRUE]
  /\ fd' = [fd EXCEPT ![f] = "closed"]
  /\ UNCHANGED <<vars, ctx, arrays, memory, asked, disturbed>>

\* The free hook deletes the handle: rm_cleanup_file_private, then the ranges
\* of a valid context.
Free(f) ==
  /\ fd[f] = "closed" /\ Inside(f) = {}
  /\ Forget(f)
  /\ arrays' = IF ctx[f].valid /\ ctx[f].ranges # None THEN arrays - 1 ELSE arrays
  /\ UNCHANGED <<vars, memory, call, disturbed>>

-----------------------------------------------------------------------------
(* The RM: pages, and the mapping context of a file.                       *)

nv_alloc_pages(a, c) ==
  /\ memory[a] = None
  /\ memory' = [memory EXCEPT ![a] = c]
  /\ UNCHANGED <<vars, fd, fClosed, ctx, arrays, call, asked, disturbed>>

\* Nothing tells the files whose contexts name these pages.
nv_free_pages(a) ==
  /\ memory[a] # None
  /\ memory' = [memory EXCEPT ![a] = None]
  /\ Disturb(\/ \E f \in Files : fd[f] # "none" /\ ctx[f].alloc = a
             \/ \E t \in Threads : call[t].at \in Filling /\ call[t].arg.mem = a)
  /\ UNCHANGED <<vars, fd, fClosed, ctx, arrays, call, asked>>

\* The cookie of an open descriptor is its handle.
FromFd(f) == fd[f] = "open"

\* nv_add_mapping_context_to_file finds the handle and keeps the bare pointer.
MapLookup(t, f, q) ==
  /\ FromFd(f)
  /\ q.mem \in Allocs => memory[q.mem] = q.caching
  /\ Begin(t, "found", f, q)
  /\ Disturb(\E s \in Touching(f) : call[s].at \in Filling)
  /\ UNCHANGED <<vars, fd, fClosed, ctx, arrays, memory, asked>>

\* Mutant: a context that is in use is filled again.
MapCheckNothing(t) ==
  /\ Step(t, "found", "clear")
  /\ UNCHANGED <<vars, fd, fClosed, ctx, arrays, memory, asked, disturbed>>

\* NV_ERR_STATE_IN_USE; nothing ever makes a context invalid again.
MapCheck(t) ==
  /\ call[t].at = "found"
  /\ IF ctx[call[t].file].valid THEN Return(t, "found") ELSE Step(t, "found", "clear")
  /\ UNCHANGED <<vars, fd, fClosed, ctx, arrays, memory, asked, disturbed>>

Store(f, c) == ctx' = [ctx EXCEPT ![f] = c]

MapFillAlloc(t) == LET q == call[t].arg IN
  /\ Step(t, "clear", "filled")
  /\ q.mem \in Allocs
  /\ Store(call[t].file, [Empty EXCEPT !.alloc = q.mem])
  /\ UNCHANGED <<vars, fd, fClosed, arrays, memory, asked, disturbed>>

\* Mutant: any file is taken for one of the GPU.
MapFillRangesAnyFile(t) == LET q == call[t].arg IN
  /\ Step(t, "clear", "filled")
  /\ q.mem \in Vram
  /\ Store(call[t].file, [Empty EXCEPT !.ranges = q.mem])
  /\ arrays' = arrays + 1
  /\ UNCHANGED <<vars, fd, fClosed, memory, asked, disturbed>>

MapFillRanges(t) == LET q == call[t].arg IN
  /\ Step(t, "clear", "filled")
  /\ q.mem \in Vram /\ call[t].file \in GpuFiles
  /\ Store(call[t].file, [Empty EXCEPT !.ranges = q.mem])
  /\ arrays' = arrays + 1
  /\ UNCHANGED <<vars, fd, fClosed, memory, asked, disturbed>>

\* The file is another device's, or os_alloc_mem fails.
MapFillFails(t) ==
  /\ Return(t, "clear")
  /\ call[t].arg.mem \in Vram
  /\ Store(call[t].file, Empty)
  /\ UNCHANGED <<vars, fd, fClosed, arrays, memory, asked, disturbed>>

MapValid(t) ==
  /\ Step(t, "filled", "valid")
  /\ ctx' = [ctx EXCEPT ![call[t].file].valid = TRUE]
  /\ UNCHANGED <<vars, fd, fClosed, arrays, memory, asked, disturbed>>

\* Mutant: the caching is not stored.
MapCachingForgets(t) ==
  /\ Return(t, "valid")
  /\ asked' = [asked EXCEPT ![call[t].file] = call[t].arg]
  /\ UNCHANGED <<vars, fd, fClosed, ctx, arrays, memory, disturbed>>

\* The caching is stored last.
MapCaching(t) == LET f == call[t].file IN
  /\ Return(t, "valid")
  /\ ctx' = [ctx EXCEPT ![f].caching = call[t].arg.caching]
  /\ asked' = [asked EXCEPT ![f] = call[t].arg]
  /\ UNCHANGED <<vars, fd, fClosed, arrays, memory, disturbed>>

-----------------------------------------------------------------------------
(* Control().                                                              *)

ControlBegin(t, f, op) ==
  /\ fd[f] = "open"
  /\ Begin(t, "control", f, op)
  /\ UNCHANGED <<vars, fd, fClosed, ctx, arrays, memory, asked, disturbed>>

ControlClosed(t) ==
  /\ Return(t, "control")
  /\ fClosed[call[t].file]
  /\ UNCHANGED <<vars, fd, fClosed, ctx, arrays, memory, asked, disturbed>>

\* Anything that is not the driver's own goes to rm_ioctl.
ControlRm(t) ==
  /\ Step(t, "control", "rm")
  /\ ~fClosed[call[t].file] /\ call[t].arg = "rm"
  /\ Disturb(fd[call[t].file] # "open")
  /\ UNCHANGED <<vars, fd, fClosed, ctx, arrays, memory, asked>>

ControlRmDone(t) ==
  /\ Return(t, "rm")
  /\ UNCHANGED <<vars, fd, fClosed, ctx, arrays, memory, asked, disturbed>>

\* What NV_HAIKU_MAP maps; None when it refuses.
Mapped(f) ==
  IF ~ctx[f].valid THEN None
  ELSE IF f \in CtlFiles
       THEN [mem |-> ctx[f].alloc, type |-> to_haiku_cache_type(memory[ctx[f].alloc])]
       ELSE IF ctx[f].ranges = None THEN None
            ELSE [mem |-> ctx[f].ranges, type |-> to_haiku_cache_type(ctx[f].caching)]

\* The context of a control file is followed through alloc, whatever it holds.
Followed(f) == f \in CtlFiles /\ ctx[f].valid

\* NV_HAIKU_MAP makes an area; a pointer to nothing has no outcome here.
ControlMap(t) == LET f == call[t].file IN
  /\ call[t].at = "control" /\ call[t].arg = "map"
  /\ ~fClosed[f]
  /\ Followed(f) => ctx[f].alloc # None
  /\ IF Mapped(f) = None THEN Return(t, "control")
     ELSE call' = [call EXCEPT ![t] = [at |-> "area", file |-> f, arg |-> Mapped(f)]]
  /\ Disturb(\E s \in Touching(f) : call[s].at = "valid")
  /\ UNCHANGED <<vars, fd, fClosed, ctx, arrays, memory, asked>>

\* The area's id goes to the caller, or the copy fails and the area is deleted.
ControlMapDone(t) ==
  /\ Return(t, "area")
  /\ UNCHANGED <<vars, fd, fClosed, ctx, arrays, memory, asked, disturbed>>

-----------------------------------------------------------------------------

\* open_gpu() and close_gpu() of the module interface.
Nvkms(u) == (AcquireRef(u) \/ ReleaseRef(u)) /\ UNCHANGED fileVars

FilesInit ==
  /\ Init
  /\ fd = [f \in Files |-> "none"]
  /\ fClosed = [f \in Files |-> FALSE]
  /\ ctx = [f \in Files |-> Empty]
  /\ arrays = 0
  /\ memory = [a \in Allocs |-> None]
  /\ call = [t \in Threads |-> Idle]
  /\ asked = [f \in Files |-> None]
  /\ disturbed = FALSE

ThreadStep(t) ==
  \/ \E f \in Files :
       \/ OpenBegin(t, f) \/ CloseBegin(t, f)
       \/ \E q \in Requests : MapLookup(t, f, q)
       \/ \E op \in {"rm", "map"} : ControlBegin(t, f, op)
  \/ OpenDone(t) \/ OpenFails(t) \/ CloseDone(t)
  \/ MapCheck(t) \/ MapFillAlloc(t) \/ MapFillRanges(t) \/ MapFillFails(t)
  \/ MapValid(t) \/ MapCaching(t)
  \/ ControlClosed(t) \/ ControlRm(t) \/ ControlRmDone(t)
  \/ ControlMap(t) \/ ControlMapDone(t)

FilesNext ==
  \/ \E t \in Threads : ThreadStep(t)
  \/ \E f \in Files : OpenControl(f) \/ CloseControl(f) \/ Free(f)
  \/ \E a \in Allocs : nv_free_pages(a) \/ \E c \in Cachings : nv_alloc_pages(a, c)
  \/ \E u \in Users \ GpuFiles : Nvkms(u)
  \/ \E u \in Users : Proceed(u) /\ UNCHANGED fileVars

FilesSpec == FilesInit /\ [][FilesNext]_allVars

-----------------------------------------------------------------------------

\* rm_ioctl() on a GPU file finds a GPU that runs, unless opens and closes of
\* the device overlapped, or a file was closed beside calls on it.
CallsFindRunningGpu ==
  disturbed \/ overlapped \/
  \A t \in Threads : call[t].at = "rm" /\ call[t].file \in GpuFiles =>
    adapter /\ initHardware /\ handlers > 0 /\ msi /\ busMaster

\* An area that NV_HAIKU_MAP has made shows the memory of the last request the
\* RM stored in that file, with the memory type that request asked for, as
\* long as calls that fill and use a context do not overlap.
MappedAsAsked ==
  disturbed \/
  \A t \in Threads : call[t].at = "area" => LET q == asked[call[t].file] IN
    call[t].arg = [mem |-> q.mem, type |-> to_haiku_cache_type(q.caching)]

\* The arrays of ranges on the heap are those of the living contexts: a request
\* that is refused or fails half way leaves none behind.
RangesAccounted ==
  disturbed \/
  arrays = Cardinality({f \in Files : fd[f] # "none" /\ ctx[f].ranges # None})

\* A control file whose context is valid names pages that exist, so that
\* NV_HAIKU_MAP may follow the pointer; requests of the other kind that reach
\* such a file leave no context.
ContextUsable ==
  disturbed \/
  \A f \in Files : fd[f] # "none" /\ Followed(f) =>
    ctx[f].alloc \in Allocs /\ memory[ctx[f].alloc] # None

=============================================================================
