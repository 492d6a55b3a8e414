# A specification of nvidia-haiku

nvidia-haiku ports NVIDIA's GSP-based GPU driver to Haiku. The vendor's resource
manager (RM) and mode setting code (NVKMS) are linked in as they are; what the
repository contains is everything around them: an operating system layer that gives
the RM memory, locks, events and devices, the Haiku device drivers, an accelerant for
the app_server and a small C++ SDK. This directory models that code in TLA+, checks
the models with TLC on small instances and proves part of the results with TLAPS for
every size.

`PROJECT.json` holds the same information for programs: the components, the runs, the
lines of the source each definition stands for, the mutants every property is tested
against, the findings, the hazards and the theorems.

## 1. The system

Paths are relative to `src/`.

| Component | State | Operations | Talks to |
|---|---|---|---|
| Interrupt-safe pool, `nvidia_gsp/nvidia/IntrSafePool.*` | size-class groups and a reclaim group of pointers, `fLevel`, a spinlock | `Alloc`, `Free`, `Maintain`, `ReclaimAll` | called by `os_alloc_mem`, `os_free_mem`, `os_release_spinlock`; calls the kernel heap |
| OS layer, `nvidia/os-haiku.cpp` | objects the RM holds: locks, queues, page lists, mapping contexts | some 120 `os_*` / `nv_*` functions | called by the RM from threads, DPCs and interrupt handlers |
| GPU device, `nvidia/Device.*` | `fOpenCount`, `fInitHardware`, `fIrq`, PCI and MSI state | `AcquireRef`, `ReleaseRef`, `Start`, `Stop`, interrupt handler and bottom half | device files, NVKMS (`open_gpu`), interrupts |
| Open device files, `nvidia/BaseDevice.*`, `ControlDevice.*` | select pool, `fDatalessEventPending`, mapping context, `fClosed` | `Control`, `Select`, `Deselect`, `Close`, `Free`; `nv_post_event` from the RM | RM, clients |
| Driver and module, `nvidia/Driver.*`, `NvidiaModule.cpp` | the one instance, the device list | `Init`, destructor, module hooks | all of the above, NVKMS through the module interface |
| Modeset device files, `nvidia-modeset/KmsDevice.*`, `KmsDriver.*` | the driver's one mutex `Locker()`, per file a cookie, `fEventsAvailable`, a select pool | `Open`, `Control`, destructor, `EventQueueChanged`, `Select`, `Deselect` | NVKMS, which calls back inside each call |
| NVKMS timers, `nvidia-modeset/TimerQueue.*`, `nvkms-haiku.cpp` | `nvkms_timer_t`, `nvkms_ref_ptr` | allocate, free, timer interrupt, deferred call | NVKMS, kernel timers, the DPC thread |
| Accelerant, `accelerant/Accelerant.cpp`, `NvKmsBitmap.*`, `NvUtils.*` | the instance with its members, `fFramebuffer`, `fOldFramebuffer`, `fCurrentMode`, `fModeList`, `fDpmsState` | the app_server's hooks | SDK |
| SDK, `nvrm_cpp_sdk/` | owned handles of RM objects, surfaces, mappings, areas | constructors, destructors, moves | the drivers, by ioctl |

`nvidia_gsp/Drivers_cpp.h` turns C hooks into calls of these classes; which hooks a class
gets depends on the signatures of its methods. The rest is no subject for a model:
`stubs.c`, `nvkms-stub.cpp` and the header lists (functions that panic or return a
constant), the manual test programs of the accelerant.

What makes each part correct, and what is hard about it:

* *Pool.* Used in interrupt handlers and inside spinlock sections of every CPU while
  `Maintain()` gives up its lock on each round. No array overrun, no block in two hands
  or too small, no handler that spins on a lock its own CPU holds, the heap entered
  only with interrupts on, nothing left at unload, the stock replenished in the end.
* *GPU device.* The count is atomic, the work it decides on is not. The count must be
  exact when starts fail; a reference should mean a GPU that runs; the last close
  should leave it quiet.
* *Events.* The RM posts without the clients' mutex. No event lost, nobody asleep beside
  one, no notification to a client that has gone.
* *Modeset files.* Callbacks run in another file's thread and take locks inside the
  driver's lock. No call into a freed file, no deadlock, no sleeper beside an event.
* *Timers.* An interrupt, a DPC thread and NVKMS share a timer and the reference count
  behind it. The last reference frees; nothing that was deleted stays queued.
* *Open files.* What the RM stores in a file for its next `NV_HAIKU_MAP` is written in
  several steps without a lock, and close runs beside calls under way. An area must show
  what was asked for; no context may leak, nor point to pages that are gone; a call must
  find a running GPU.
* *Drivers and module.* Two drivers depend on each other in both directions, and each step
  of `Init()` may fail. Teardown must undo what was done and nothing else; a published name
  must open the device with that number; NVKMS must not be loaded without the RM.
* *Accelerant.* Any call of a mode set, and of the constructor, may throw. Display, mode and framebuffer must agree
  afterwards, the app_server's drawing target must stay mapped, nothing may leak; modes
  pass through two conversions on their way there and back.

The hazards behind these sentences, each at its line, are listed in `PROJECT.json`;
those no property covers yet carry a note.

## 2. The modules

Each component has a module with its state as variables and an action per operation
or, where other threads can interfere, per step between two such points. `MC<module>`
extends it with symmetry sets and sets of sizes for TLC; the constants get their values
in the `.cfg` files. Proofs are in `<module>Proofs`. An operator marked `Mutant:` is a
deliberately wrong form of the definition that follows it; no behaviour of the model
uses it, and it serves to show that a property would notice the mistake.

### IntrSafePool, with BlockLedger

A CPU is its thread plus the handler that may sit on top of it. `intr`, `isr` and
`stack` are its interrupt state, the handler and the saved `oldIrql`s of the RM spinlocks
it holds. `items[0]` is `fReclaimGroup`, `items[i]` is `fGroups[i-1]`, and a group is the
stack of its first `fCount` slots. `level` and `lock` are `fLevel` and `fSpinlock`. `cap`
and `want` say which blocks the heap has given, how large, and what RM asked for.

`Alloc` and `Free` run under the spinlock with interrupts off and are two steps each:
taking the lock (`EnterAlloc`, `EnterFree`) and the rest. `Maintain()` is cut wherever
another CPU or a handler can get in: `maintain -> lock -> loop -> unlocked -> heap ->
heapdone -> relock -> loop`, with the early return (`MaintainBusy`) when `fLevel` was
positive. Filling and reclaiming share the path; `ReclaimAll()` of the teardown is
the same path in phase `unload`. The walk of `Alloc` over the size classes is the set
`Fitting(size)` and the first group in it with a block.

The thread that first fills the pool, in `NvHaikuDriver::Init`, is in `Init`. Which RM
spinlock a CPU takes is left out, so sections of different CPUs overlap freely. A CPU
runs one thread that is not migrated or preempted inside `Maintain()`; other threads of
the same CPU would only add behaviours of "another CPU".

`BlockLedger` is the abstract specification: each block is with the heap, in stock,
used, or in the trash, and may only move along seven arrows. `ImplementsLedger` is the
refinement, `PlaceOf` its mapping. It says, for example, that a block freed in a handler
passes through the heap (which zeroes it) before anyone gets it again.

### NvHaikuDevice

`pc[u]` walks a user through `AcquireRef` / `Start` (`pci, msi, init, started, failed`)
and `ReleaseRef` / `Stop` (`shutdown, down, irqoff, pcioff`). The hardware is its
observable state: adapter initialised, number of installed handlers, MSI, bus mastering.
`fIrq` is never cleared and results the code ignores are ignored here. The first opener's
failure undoes only the count, as in the code. `overlapped` is a history variable: did
two of these calls ever overlap?

### NvHaikuFiles

The files of one GPU and of the control device, composed with `NvHaikuDevice` (it extends
it): a GPU file is a user of the device from `OpenBegin` to `CloseDone`, NVKMS is one by
`open_gpu` (`Nvkms`). `call[t]` is where thread `t` is and to which file; a call is cut
wherever another thread can get in. `nv_add_mapping_context_to_file` is `MapLookup`,
`MapCheck`, `MapFill...`, `MapValid`, `MapCaching`; `NV_HAIKU_MAP` is `ControlMap` and
`ControlMapDone`; every other ioctl goes to the RM (`ControlRm`). `nv_alloc_pages` and
`nv_free_pages` give and take the pages a context may name.

`asked` is a history variable, the request whose context a file holds. So is `disturbed`:
it becomes true when a file is closed, filled or mapped, or its pages are freed, in the
middle of a call that relies on it. The code has no defence there (it carries TODOs), and
nothing is claimed afterwards; what the model shows is that this is the *only* way to get
a wrong area, a lost array or a dangling context.

### NvHaikuDriver, with NvFirmware

`Init()` and the destructor of the GPU driver, one step per thing done; each may fail and
then the destructor starts. `holders` is who holds the `nvidia` module: the devfs driver
and `nvidia-modeset`, in any order. The bus is a sequence of PCI functions; `Probe` walks
it, `ScanBars` is the loop over the BAR registers, `PciHandle` and `PciConfig` are what
the RM reads and writes through a handle. `names` is what is published; `Open` is
`FindDevice` and the class of hooks `Drivers_cpp.h` builds. A name is a sequence of digits
and other characters. `NvFirmware` has the search for firmware files as operators, over
whatever data directories there are.

### SelectEvents

`nv_post_event` for dataless events (flag, then pool), for events with data (pool only:
the branch that would keep the data is a TODO in the code), and `Select` / `Deselect`.
`owed` is a history variable: a dataless event nobody was told of. The notification of
the pool is cut into one step per waiter.

### NvHaikuKmsDevice

Every open file has a user thread and a `select()` thread. NVKMS is external: inside a
call it may queue an event for any client and then calls `nvkms_event_queue_changed`,
modelled as `callback[h]`, which `EventQueueChanged` delivers when it gets the target
file's select mutex. A `nullptr` from `nvKmsOpen` sends the handle straight to its
destructor, whose `nvKmsClose` depends on the cookie.

### TimerQueue

Timers of both kinds (plain, and with a reference pointer), the kernel's timer list
(`armed`), the DPC queue and the thread that serves it, and `nvkms_ref_ptr` with its
count. Critical sections under a timer's own spinlock are single steps. When a plain
timer is freed while the DPC thread is inside its `DoDPC`, the code goes on with a
deleted object; that has no defined outcome, and the thread goes `wild`: from there on
it takes no step. `nvkms_alloc_timer` uses this class only in builds with
`NV_TIMER_QUEUE_ENABLED`, so the module is about the class as it is written.

### NvAccelerant, with NvKmsBitmap

The hooks run one at a time, so a hook is one action and the calls that may fail are a
choice inside it: the place where `NvKmsBitmap`'s constructor throws, the failure of
`SET_MODE`, success. `NvKmsBitmap` says what constructor, destructor and move assignment
do to the owner (a record of the resources it names) and to the kernel's side (which of
them exist). The moves are those of the source, member by member: `fArea` is not
assigned. `drawing` and `behind` remember what the app_server was last told by
`GetFrameBufferConfig` and how many mode sets ago. Calls that give a resource back are
taken to succeed. Pitch, size and allocation of an image are operators of `NvKmsBitmap`
that count in units of 256 bytes, so that 32-bit products wrap within TLC's integers.

### NvAccelerantInstance

The instance is made and deleted member by member. `members` is what is constructed, in
the order of declaration; `objects` is what exists in the kernel, where closing a
descriptor takes its objects along. An exception unwinds the members from the last to the
first, and a destructor whose call is refused would end the team (`"terminated"`). It is
composed with `NvAccelerant`: the last step of the constructor is `InitAccelerant`, and
`Uninit` is the destruction of the framebuffers, so each of its behaviours is one of
`NvAccelerant` (a theorem, below).

### AccelerantModes

Finding a display, listing its modes, and the hooks that convert, propose, set and tell
modes, EDID and DPMS. The display is external and may change between any two calls.
Timings keep what the conversions and comparisons use: clock, sizes, totals, interlace,
polarities. `shown` and `power` are what the hardware does; `answer` is the last
question with its answer.

## 3. The runs

| Run | Shows | Bounds |
|---|---|---|
| `pool_safety` | no overrun, self-deadlock, aliasing, loss, undersized block; all given back at unload | 2 CPUs, 3 blocks, 2 groups of one block, nesting 2, a heap that may fail |
| `pool_ledger` | `BlockLedger` is implemented, `underflow` means empty, the stock recovers | 2 CPUs, 2 blocks, 2 groups, a heap that does not fail, fair |
| `pool_underflow` | **violated**: `underflow` with blocks in the group | 1 CPU, 1 group of 2, a heap that may fail |
| `files` | exact open count, one starter, running while referenced, off after the last close; calls find a running GPU, areas show what was asked for, no array of ranges leaks, contexts name pages that exist | 1 GPU file, 1 control file, NVKMS, 2 threads, 1 allocation, 1 piece of graphics memory, 2 memory types, up to 2 handlers |
| `device_overlap` | **violated**: a user holds a reference to a GPU that is being stopped | 2 users, no start fails |
| `driver` | teardown mirrors initialisation, names open the devices they name, NVKMS only over a module, the right firmware or none | 3 buses of up to 3 functions, every step may fail, every set of 4 data directories |
| `select` | no sleeper beside an event, nobody notified after `Deselect`, every event delivered | 2 posters, 2 clients, fair |
| `kms` | no client leaks, no callback to a dead file, nobody asleep beside an event, open and close end | 2 files, 2 events per client, fair |
| `timers` | reference counts are exact, nothing deleted stays queued, memory is given back | 2 timers, 1 reference pointer, both kinds, both delays, fair |
| `accelerant` | instance made and unwound, display and framebuffer agree, the drawing target stays, nothing leaks, the display reads inside its memory | 6 allocations, 2 modes, every call may fail |
| `accelerant_area` | **violated**: an area outlives its mapping | 3 allocations, 1 mode |
| `modes` | proposals fit and can be set, the mode told is the mode set | 2 displays with 4 and 1 modes, 3 attempts |

Why the bounds suffice:

* Pool: two CPUs give the one lock drop that matters, plus a handler on each; a
  third would only repeat the second's part. Groups of one block are both full and empty
  within a step; the reclaim group of one overflows. The sizes 16 and 17 are the last
  request of one class and the first of the next; 33 fits none. Three blocks let one
  be in stock, one in hand and one reclaimed at once.
* Files: a hazard of a file is one thread against another, and one file's state is never
  part of another's; a file of each kind and NVKMS beside them also give the device its
  two overlapping users. `MaxHandlers` bounds how often a start may fail after installing
  a handler. The constraint `Orderly` ends a behaviour at its first `disturbed` state:
  the properties about files say nothing of such states, those about the device do not
  depend on them, and the theorems do without it.
* Driver: a bus without a GPU, one with a bridge before a GPU, one with a function between
  two GPUs, with 64-bit BARs and registers without one in several places. `MaxUint32` is 50 and names are
  tried up to two characters, so that numbers on both sides of the bound and of the list
  occur. `PathLength` is 10: paths of 7 and 8 are the longest that fits and one too long.
* Events, modeset files: two of each kind, because each property is about one actor and
  what another does to it. Two events tell "one less" from "empty".
* Timers: two timers can share a reference pointer or be one of each kind; memory is used
  again when a timer is gone, so that a stale entry can meet a new timer.
* Accelerant: identities are never reused while in use; at most two framebuffers are
  alive, so six allow for several mode sets whose failures left mappings behind. One mode
  has a width that is no multiple of 64, the other is the largest there is.
* Modes: `Kilo` is 10 instead of 1000 and clocks are no multiples of it, so that every
  rounding loses something. Two rates of one size, an interlaced mode and one that does
  not validate. `Attempts` (10 in the code) and `EdidSize` only count.

`CHECK_DEADLOCK FALSE` is set for the pool (a panic stops the system, so does the end of
the teardown) and for `files` (`MaxHandlers` ends the behaviours in which starts keep
failing). Everywhere else TLC also checks that the system never stops.

### Fairness

* Pool: code that runs on a CPU goes on (`WF` of `MaintainStep`, `CallStep`), an RM
  spinlock section ends, and a handler returns even when it enters and leaves such
  sections on the way (`SF`). Nothing is assumed of RM calling the pool.
  `StockRecovers` has its premise in the formula: once traffic ends while outermost
  spinlock releases go on. With a heap that is exhausted again and again it cannot hold,
  and the formula says so.
* `SelectEvents`, `NvHaikuKmsDevice`, `TimerQueue`: Haiku's mutexes queue their waiters,
  hence strong fairness for the steps that take one. Calls into NVKMS return. Clients
  call `select()` again, and memory for a pool entry is not refused every time. Timeouts
  are never relied on.
* The files, drivers and the accelerant have safety properties only; `OffAfterLastClose` is
  an action property.

## 4. Findings

1. **A failed `calloc` can panic a pool that is not empty** (`pool_underflow`).
   `Maintain()` pushes the result unchecked; a `nullptr` hides the blocks under it.
2. **A last close and a first open that overlap leave a stopped GPU with a user**
   (`device_overlap`). `fetch_sub` and `Stop()`, `fetch_add` and `Start()` are not ordered
   by a lock. `files` shows, and `UpCorrect` proves, that without overlap all is well.
3. **`NvRmMemoryMapping::operator=` forgets `fArea`** (`accelerant_area`), and every
   framebuffer is filled by assignment, so no framebuffer's area is ever deleted.

More is recorded with the hazards, where a property is conditional on it. A delayed timer
never calls its `fProc`, because `TimerHook` does not set `fDpcScheduled`; its reference
stays (`Stranded`), and `Free()` does not know of the call it has queued (`hooked`).
`Free()` has no defence against a deferred call under way (`"wild"`). A mapping context is
filled and used without a lock, and a pointer to a handle is kept without a reference
(`disturbed`). `GetPixelClockLimits` looks for the interlace flag in `v_display`, and
`nv_get_firmware` clears its buffer before it looks whether there is one (`Stops`).

## 5. The proofs

All theorems are about the specification without fairness, for every value of the
constants that satisfies the named assumptions of the modules: `NoCpu`, `Null`, `None`,
`Nobody` are not among the things they stand apart from, sizes, counts and capacities are
naturals and those that must not be zero are positive, users and control files are
finitely many, GPU files are among the users, posters are no waiters. Some assumptions say
what comes from outside, each named in the module that declares the constant:

* `BusesAssumption`: a PCI function has a place of its own, a bus no more functions than a
  `uint32` counts, and the upper half of a 64-bit BAR is no BAR. That is PCI.
* `DirectoriesAssumption`: there are the four directories `find_directory` is asked for,
  and `read_pos` reads no more of a file than there is. `PathLengthAssumption`: a path
  buffer has a size.
* `ModesAssumption`, `NoMemoryAssumption`: an image has less than 4 GB (the code multiplies 32-bit
  numbers; widths and heights are 16 bits, so only an image beyond 32767 × 32767 could have
  more), and the handle that stands for no memory is none that is given out.
* `DisplaysAssumption`, `RequestsAssumption`: the fields of NVKMS's and the app_server's mode timings are
  numbers, totals not zero. `CalcRefreshRate` divides by them unchecked (a hazard without a
  property), so a mode with a zero total is outside the model, not harmless.

Recursive functions are used as functions, not as `RECURSIVE` operators. What they compute is
proved by induction with sets for predicates: `Least` (a set of naturals has a least
element, from the well-foundedness of `<`) and `Induct` (a set with 0 and all successors is
`Nat`), since the library's induction theorems take operators. A `CHOOSE` of a function
that keeps to a recursion is shown to exist first, up to any number (`DigitsUpTo`, `ValueIs`,
`BarsExist`, `BestIsNearest`).

**IntrSafePoolProofs.** `TypeCorrect`, `MaintainExclusive`, `GroupsBounded`,
`NoSelfDeadlock` and `HeapCallsSafe` follow from one inductive invariant, `IInv == TypeOK /\
CpuInv /\ MaintainInv`.
`CpuInv` ties the interrupt flag of each CPU to the stage of its thread, its handler
and the saved states on its stack: only the outermost release can find interrupts to be
enabled, hence only it goes on to the heap. Without it `HolderUninterruptible` is not
inductive, since nothing would say what `os_release_spinlock` restores.
`MaintainInv` holds `OneMaintainer`, `PhaseState` (the teardown is alone) and `GroupBound`. The
last is the core: its second half, that the group still has room while the maintainer is
away, is what makes the unchecked store safe, and it survives because others can only
shrink a stocked group (`ShorterGroups`) and nobody else fills it (`OneMaintainer`).

The promises about blocks need a second invariant on top, `OwnerInv`. `Owned` is `NoAlias`
without the counting: for each block, being in a slot, in the maintainer's `ptr`, in a
Free under way or in RM's hands excludes the others. It is inductive with `HandState`,
that `ptr` is only written when it holds nothing (or `Maintain()` would lose a block), and
each step moves at most one block, so a step lemma names that block (`AllocPlaces`,
`FreePlaces`, ...) and `StaysOwned` does the rest. `OnePlace` counts at the end;
`SizeState` (a stocked block has its group's size) gives `BlocksFit`, and `UnloadState`
(`ReclaimAll()` leaves empty groups behind it) gives `TeardownComplete`.
`PoolImplementsLedger` is the refinement of `BlockLedger`: with `Owned`, `PlaceOf` of a
block follows from the one place it is in, and each step is one of the ledger's moves or
none. `UnderflowIsHonest` assumes a heap that does not fail, as it must: finding 1 is what
happens otherwise. One assumption is arithmetic, `ItemSizeAssumption`, that a power of
two is positive: the provers do not know of exponentiation. TLC evaluates it in each run.

**NvHaikuFilesProofs, the device.** `OpenCountCorrect` and `StartExclusive` from `CountInv`. The count
is the cardinality of a set of users, so the step lemmas say what adding or removing one
element does to it. `OneStarter` follows from the count: whoever starts found zero, so
nobody is counted, and whoever is starting is counted. `UpCorrect` and `OffCorrect` add
`Sequential`: as long as nothing overlapped, whoever is inside one of the calls is alone
(`Alone`), so that the hardware's state follows from where that user is (`Hardware`), and
an adapter that is up has a user who accounts for it (`Accounted`).

**NvHaikuFilesProofs, the files.** `FilesUseDevice`: every behaviour of the files is one of the device
below them, hence all of the above holds there too. `CallsCorrect`, `MapCorrect`,
`RangesCorrect` and `ContextCorrect` follow from `FilesInv`. `Life` says that whoever opens
or closes a file has it to itself and that an open GPU file holds its reference. `Calm`
says, until something is disturbed, that no two threads fill one context (`Apart`) and what
a thread at each place of the fill knows of it (`ThreadInv`, `FileInv`): the context of a
file is empty, or being filled by one thread for one request, or the context of `asked`.
`RangesAccounted` is the cardinality of a set again, one step of it per fill and free.

**NvHaikuDriverProofs.** `TeardownCorrect` and `KmsCorrect`. `Stage` says what exists at each
place of `Init()`; the destructor may start from any of them, so for it only `Mirror`
holds: what exists rests on what it needs. That no private state of a device outlives the
RM needs `Private`, that each belongs to a device the loop has yet to delete.

`NamesCorrect` is about any bus, any number of GPUs and names of any length. The invariant
is `Cards` (the devices are GPUs of the bus, in the order of the scan, with a handle to
their own function or none) and `Names` (each entry is the name of its position or was
never set). The rest is what the operators compute. `DecimalWrites`: the digits of a number
are those of its value, without a leading zero; `WrittenBack`: digits without a leading
zero are how their value is written; hence `ParseOfDecimal` and `ParseIs`, that
`ParseDeviceName` undoes `Decimal` and takes nothing else, and `OneNameEach`, which TLC can only
try for two characters. `BarsAreBars`: the scan of the BARs never stops at the upper half
of one. `OwnPlace`: a handle found by its place is the function's own, because places are
unique. `FirmwareCorrect` says of any directories that the first file found is whole or
nothing is handed out (`FirmwareIsWhole`).

**SelectEventsProofs.** `NoSleeper` and `OnlyRegistered` from `EventInv`: a sleeper beside the
flag that was not notified is in the pool, and a poster is about to walk it or has this
sleeper among those it has still to reach.

**NvHaikuKmsDeviceProofs.** `ClientsCorrect`, `CallbacksCorrect` and `SleepersCorrect` from
`KmsInv`. The key is `CallbackInv`: a thread about to make a callback holds `Locker()`, so
nobody else is in NVKMS, and the file it calls has a client, which only a call into
NVKMS could take away. `fEventsAvailable` then follows the queue but for the callback
under way (`SelectInv`).

**TimerQueueProofs.** `RefCountCorrect` from `DpcInv`: the DPC thread works on a live timer,
whose reference it has not given back before `DpcPut`; and an owner about to put has
cleared `ptr`. Timers need not be finitely many, the live ones always are.
`DeletedIsPendingNowhere` from `PendInv`: no timer is twice in the DPC queue, so taking the head or
cancelling an entry leaves none behind (`TakenQueue`, `CancelledQueue`), and a timer that is
deleted is neither armed nor queued unless the hook queued it again.

**NvAccelerantProofs.** `HeadOwnedCorrect`, `ModeCorrect` and `NoLeak` from `OwnerInv`, which
adds to the properties that a bitmap is *shaped*: all its resources are those of one
allocation, or it has none, and its area is not set. With that, move assignment hands over
the source as it is and the moved-from object is empty, so releasing the old
framebuffer releases nothing the display reads. `DrawCorrect` adds `DrawInv`, which of the
two framebuffers the app_server draws into. `InstanceImplements` is the refinement:
every step of `NvAccelerantInstance` is one of `NvAccelerant` or leaves its variables alone.
`MembersUnwindCorrect` (`UnwindInvariance`): wherever the constructor is, the members there are
a prefix of the order of declaration and each has what the others rely on, so unwinding
from the last to the first never meets a refused call. `SurfaceCorrect`: a pitch rounded up
covers the width, and a size that does not wrap covers every row.

**AccelerantModesProofs.** From one invariant, `ModesInv == Listed /\ Shown /\ Answered`.
`Listed`: as long as no display was plugged since the search, the list has exactly the modes
that validated of what the constructor has seen so far. `Shown`: what NVKMS has was set by the
instance there is. `Answered`: the last answer is still what the hook would answer, since
no hook changes the list. `ModeToldCorrect` then is arithmetic: Hz divided from a multiple of
`Kilo` is exact (`AskedTimings`). In the other direction division rounds down, so what is told
of a listed mode asks for no more clock than it has (`ToldTimings`), which is why
`UsableCorrect` holds. `ProposalCorrect` needs what the loop over the list finds: after k rounds
it has the nearest of the first k modes (`RoundIsNearest`, `BestIsNearest`).

Every safety property that a run checks is stated by a theorem. Only model-checked:

* liveness (`StockRecovers`, `EventReachesClient`, `OpenAndCloseEnd`, `RefPtrReclaimed`):
  fairness and `ENABLED` are out of the prover's reach.

No module uses `RECURSIVE`.

## 6. Not modelled

* GPU device: the interrupt handler and its bottom half. They call the RM and keep nothing
  of their own.
* OS layer: mutexes, rwlocks, semaphores and wait queues, which forward to the kernel's;
  string, time and log helpers; stubs, about a third of the file.
* Driver hooks that only forward a call (`read`, `write`, `ioctl` wrappers).
* Timers: `fTimerList`, which nothing reads. Semaphores of `nvkms-haiku.cpp`, two kernel
  calls each.
* Accelerant: the cursor hooks (`#if 0`), `nvKmsKapiAllocateSystemMemory`, which nobody
  calls. SDK: `ImportObjectFromFd`, `AllocOsEvent`, `FreeOsEvent`, `CardInfo`, which nobody
  calls either.
* `stubs.c`, `nvkms-stub.cpp`, header lists and the test programs.

NVKMS, the RM, the kernel's module manager, file layer and DPC queue are external: modelled
as the sources rely on them.

## 7. Plan

All modules of the plan are in place. Left, in order of what they would add:

1. `TimerQueue`: `TimerHook` and `Free()` in finer steps, the deferred call against the
   teardown of the driver.
2. `AccelerantModes`: composition with `NvAccelerant`, whose mode sets it abstracts.
3. A wait queue of the RM against an abstract condition, should it get state of its own.
