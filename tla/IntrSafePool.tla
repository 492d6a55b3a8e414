---------------------------- MODULE IntrSafePool ----------------------------
(***************************************************************************)
(* The interrupt-safe memory pool of the kernel driver                     *)
(* (nvidia_gsp/nvidia/IntrSafePool.cpp) with its callers in os-haiku.cpp.  *)
(*                                                                         *)
(* The kernel heap may only be used with interrupts enabled.  RM code that *)
(* allocates inside a spinlock section or an interrupt handler gets a      *)
(* block kept in stock by the pool, and a block it frees there waits in    *)
(* fReclaimGroup.  Maintain(), called when the outermost RM spinlock is    *)
(* released, gives the reclaimed blocks back to the heap and refills the   *)
(* groups; around each heap call it drops the pool's spinlock and enables  *)
(* interrupts, so that other CPUs and handlers use the pool meanwhile.     *)
(*                                                                         *)
(* A CPU stands for the thread that runs on it and for the handler that    *)
(* may interrupt that thread.  Which RM spinlock is taken is left out: RM  *)
(* sections of different CPUs may overlap.                                 *)
(***************************************************************************)
EXTENDS Naturals, Sequences, FiniteSets

CONSTANTS
  Cpus, NoCpu,   \* the CPUs; NoCpu is nobody, for a free lock
  Blocks, Null,  \* the blocks the heap can give; Null is nullptr
  GroupCount,    \* kGroupCount
  GroupMax,      \* kGroupMaxItemCount
  ReclaimMax,    \* capacity of fReclaimGroup, 4096 in the code
  MinSize,       \* kMinSize, the item size of the first group
  Sizes,         \* the sizes RM asks for
  MaxNest,       \* bound on nested RM spinlocks of one CPU
  CallocMayFail  \* TRUE: the heap may return nullptr

ASSUME NoCpuAssumption == NoCpu \notin Cpus
ASSUME NullAssumption == Null \notin Blocks
ASSUME ShapeAssumption ==
  GroupCount \in Nat /\ GroupMax \in Nat \ {0} /\ ReclaimMax \in Nat \ {0}
ASSUME SizeAssumption == MinSize \in Nat \ {0} /\ Sizes \subseteq Nat \ {0}
ASSUME NestAssumption == MaxNest \in Nat
ASSUME CallocAssumption == CallocMayFail \in BOOLEAN

VARIABLES
  \* the pool
  items,     \* the stack of each group; 0 is fReclaimGroup, i > 0 is fGroups[i-1]
  level,     \* fLevel
  lock,      \* the CPU that holds fSpinlock, or NoCpu
  \* the CPUs
  intr,      \* are_interrupts_enabled() on each CPU
  isr,       \* the CPU runs an interrupt handler
  stack,     \* the oldIrql of each RM spinlock the CPU holds, innermost last
  call,      \* the pool operation the CPU runs under fSpinlock
  pc,        \* where the CPU's thread is in Maintain() or ReclaimAll()
  gi,        \* the group that call works on
  hand,      \* its local ptr
  \* the memory and the driver
  cap,       \* size a block was allocated with; 0: it is the heap's
  want,      \* size its RM owner asked for; 0: RM does not own it
  phase,     \* of the driver: init, up, unload, down
  panicked   \* the panic() that stopped the system

poolVars == <<items, level, lock>>
cpuVars == <<intr, isr, stack, call>>
maintVars == <<pc, gi, hand>>
memVars == <<cap, want>>
sysVars == <<phase, panicked>>
vars == <<poolVars, cpuVars, maintVars, memVars, sysVars>>

Groups == 0 .. GroupCount
Reclaim == 0
Capacity(i) == IF i = Reclaim THEN ReclaimMax ELSE GroupMax

\* The size of group i's items: `size` of Maintain() when it fills group i.
ItemSize(i) == MinSize * 2^(i - 1)

\* Arithmetic the provers have no theory of: a power of two is positive.
ASSUME ItemSizeAssumption == \A i \in Groups \ {Reclaim} : ItemSize(i) \in Nat \ {0}

\* Mutant: the loop over group sizes stops one byte early.
FittingOffByOne(size) == {i \in Groups \ {Reclaim} : ItemSize(i) + 1 >= size}

\* The groups Alloc(size) may serve a request from: n .. kGroupCount-1.
Fitting(size) == {i \in Groups \ {Reclaim} : ItemSize(i) >= size}

Top(s) == s[Len(s)]
Pop(s) == SubSeq(s, 1, Len(s) - 1)

NoCall == [op |-> "none"]
AllocCalls == [op : {"alloc"}, size : Sizes]
FreeCalls == [op : {"free"}, block : Blocks]

NoPanic == [why |-> "none"]
Underflow(size) == [why |-> "underflow", size |-> size]
Overflow == [why |-> "overflow"]

Running == panicked = NoPanic

-----------------------------------------------------------------------------
(* The RM core on a CPU: its thread outside Maintain(), or its handler.    *)

RmCode(c) ==
  /\ Running /\ phase = "up"
  /\ call[c] = NoCall
  /\ pc[c] = "run" \/ isr[c]

\* os_acquire_spinlock: disable_interrupts() returns the state it found.
os_acquire_spinlock(c) ==
  /\ RmCode(c) /\ Len(stack[c]) < MaxNest
  /\ stack' = [stack EXCEPT ![c] = Append(@, intr[c])]
  /\ intr' = [intr EXCEPT ![c] = FALSE]
  /\ UNCHANGED <<poolVars, isr, call, maintVars, memVars, sysVars>>

\* Mutant: every release goes on to Maintain().
ReleaseAlwaysMaintains(c) ==
  /\ RmCode(c) /\ stack[c] # <<>>
  /\ intr' = [intr EXCEPT ![c] = Top(stack[c])]
  /\ pc' = [pc EXCEPT ![c] = "maintain"]
  /\ stack' = [stack EXCEPT ![c] = Pop(@)]
  /\ UNCHANGED <<poolVars, isr, call, gi, hand, memVars, sysVars>>

\* os_release_spinlock: only the outermost release goes on to Maintain().
os_release_spinlock(c) ==
  /\ RmCode(c) /\ stack[c] # <<>>
  /\ LET oldIrql == Top(stack[c]) IN
       /\ intr' = [intr EXCEPT ![c] = oldIrql]
       /\ pc' = [pc EXCEPT ![c] = IF oldIrql THEN "maintain" ELSE @]
  /\ stack' = [stack EXCEPT ![c] = Pop(@)]
  /\ UNCHANGED <<poolVars, isr, call, gi, hand, memVars, sysVars>>

\* A device interrupt arrives on a CPU, and its handler returns.
Interrupt(c) ==
  /\ Running /\ phase = "up"
  /\ intr[c]
  /\ isr' = [isr EXCEPT ![c] = TRUE]
  /\ intr' = [intr EXCEPT ![c] = FALSE]
  /\ UNCHANGED <<poolVars, stack, call, maintVars, memVars, sysVars>>

InterruptReturn(c) ==
  /\ RmCode(c) /\ isr[c] /\ stack[c] = <<>>
  /\ isr' = [isr EXCEPT ![c] = FALSE]
  /\ intr' = [intr EXCEPT ![c] = TRUE]
  /\ UNCHANGED <<poolVars, stack, call, maintVars, memVars, sysVars>>

UsePool(c) == ~intr[c]

\* os_alloc_mem with interrupts enabled: calloc(1, size).
HeapAlloc(c) ==
  /\ RmCode(c) /\ ~UsePool(c)
  /\ \E b \in Blocks, size \in Sizes :
       /\ cap[b] = 0
       /\ cap' = [cap EXCEPT ![b] = size]
       /\ want' = [want EXCEPT ![b] = size]
  /\ UNCHANGED <<poolVars, cpuVars, maintVars, sysVars>>

\* os_free_mem with interrupts enabled: free(address).
HeapFree(c) ==
  /\ RmCode(c) /\ ~UsePool(c)
  /\ \E b \in Blocks :
       /\ want[b] > 0
       /\ cap' = [cap EXCEPT ![b] = 0]
       /\ want' = [want EXCEPT ![b] = 0]
  /\ UNCHANGED <<poolVars, cpuVars, maintVars, sysVars>>

\* os_alloc_mem / os_free_mem with interrupts disabled: IntrSafePool::Alloc
\* or Free takes fSpinlock.  SpinLocker leaves the interrupts as they are.
EnterAlloc(c) ==
  /\ RmCode(c) /\ UsePool(c)
  /\ lock = NoCpu /\ lock' = c
  /\ \E size \in Sizes :
       call' = [call EXCEPT ![c] = [op |-> "alloc", size |-> size]]
  /\ UNCHANGED <<items, level, intr, isr, stack, maintVars, memVars, sysVars>>

EnterFree(c) ==
  /\ RmCode(c) /\ UsePool(c)
  /\ lock = NoCpu /\ lock' = c
  /\ \E b \in Blocks :
       /\ want[b] > 0
       /\ want' = [want EXCEPT ![b] = 0]
       /\ call' = [call EXCEPT ![c] = [op |-> "free", block |-> b]]
  /\ UNCHANGED <<items, level, intr, isr, stack, maintVars, cap, sysVars>>

\* Alloc tries the fitting groups in order and takes the first block it
\* pops.  A nullptr that a failed calloc left on top of a group is popped too,
\* and the walk goes on with the next group.
HasBlock(i) == items[i] # <<>> /\ Top(items[i]) # Null

PopGroups(S) ==
  [j \in Groups |-> IF j \in S /\ items[j] # <<>> THEN Pop(items[j]) ELSE items[j]]

Alloc(c) ==
  /\ Running /\ call[c] \in AllocCalls
  /\ \E i \in Fitting(call[c].size) :
       /\ HasBlock(i)
       /\ \A j \in Fitting(call[c].size) : HasBlock(j) => i <= j
       /\ want' = [want EXCEPT ![Top(items[i])] = call[c].size]
       /\ items' = PopGroups({j \in Fitting(call[c].size) : j <= i})
  /\ call' = [call EXCEPT ![c] = NoCall]
  /\ lock' = NoCpu
  /\ UNCHANGED <<level, intr, isr, stack, maintVars, cap, sysVars>>

\* Mutant: Alloc gives up when the first fitting group is empty.
AllocUnderflowEager(c) ==
  /\ Running /\ call[c] \in AllocCalls
  /\ \A i \in Fitting(call[c].size) :
       (\A j \in Fitting(call[c].size) : i <= j) => ~HasBlock(i)
  /\ items' = PopGroups({i \in Fitting(call[c].size) :
                          \A j \in Fitting(call[c].size) : i <= j})
  /\ panicked' = Underflow(call[c].size)
  /\ UNCHANGED <<level, lock, cpuVars, maintVars, memVars, phase>>

AllocUnderflow(c) ==
  /\ Running /\ call[c] \in AllocCalls
  /\ \A i \in Fitting(call[c].size) : ~HasBlock(i)
  /\ items' = PopGroups(Fitting(call[c].size))
  /\ panicked' = Underflow(call[c].size)
  /\ UNCHANGED <<level, lock, cpuVars, maintVars, memVars, phase>>

\* Mutant: the block goes back into a stocked group.
FreeRecycles(c) ==
  /\ Running /\ call[c] \in FreeCalls
  /\ Len(items[GroupCount]) < GroupMax
  /\ items' = [items EXCEPT ![GroupCount] = Append(@, call[c].block)]
  /\ call' = [call EXCEPT ![c] = NoCall]
  /\ lock' = NoCpu
  /\ UNCHANGED <<level, intr, isr, stack, maintVars, memVars, sysVars>>

\* Group::Free on fReclaimGroup.
Free(c) ==
  /\ Running /\ call[c] \in FreeCalls
  /\ Len(items[Reclaim]) < ReclaimMax
  /\ items' = [items EXCEPT ![Reclaim] = Append(@, call[c].block)]
  /\ call' = [call EXCEPT ![c] = NoCall]
  /\ lock' = NoCpu
  /\ UNCHANGED <<level, intr, isr, stack, maintVars, memVars, sysVars>>

FreeOverflow(c) ==
  /\ Running /\ call[c] \in FreeCalls
  /\ Len(items[Reclaim]) >= ReclaimMax
  /\ panicked' = Overflow
  /\ UNCHANGED <<poolVars, cpuVars, maintVars, memVars, phase>>

-----------------------------------------------------------------------------
(* Maintain(), and ReclaimAll() when the driver is torn down.              *)

\* The thread itself takes a step: no handler sits on top of it.
Thread(c) == Running /\ ~isr[c]

\* InterruptsSpinLocker: interrupts off first, then the lock.
DisableForMaintain(c) ==
  /\ Thread(c) /\ pc[c] = "maintain"
  /\ intr' = [intr EXCEPT ![c] = FALSE]
  /\ pc' = [pc EXCEPT ![c] = "lock"]
  /\ UNCHANGED <<poolVars, isr, stack, call, gi, hand, memVars, sysVars>>

\* oldLevel > 0: somebody else is at it, fLevel goes up and down again.
MaintainBusy(c) ==
  /\ Thread(c) /\ pc[c] = "lock" /\ phase # "unload"
  /\ lock = NoCpu
  /\ level > 0
  /\ intr' = [intr EXCEPT ![c] = TRUE]
  /\ pc' = [pc EXCEPT ![c] = "run"]
  /\ UNCHANGED <<poolVars, isr, stack, call, gi, hand, memVars, sysVars>>

\* Mutant: fLevel is not looked at.
MaintainBeginUnguarded(c) ==
  /\ Thread(c) /\ pc[c] = "lock" /\ phase # "unload"
  /\ lock = NoCpu
  /\ lock' = c
  /\ level' = level + 1
  /\ gi' = [gi EXCEPT ![c] = Reclaim]
  /\ pc' = [pc EXCEPT ![c] = "loop"]
  /\ UNCHANGED <<items, cpuVars, hand, memVars, sysVars>>

MaintainBegin(c) ==
  /\ Thread(c) /\ pc[c] = "lock" /\ phase # "unload"
  /\ lock = NoCpu
  /\ level = 0
  /\ lock' = c
  /\ level' = level + 1
  /\ gi' = [gi EXCEPT ![c] = Reclaim]
  /\ pc' = [pc EXCEPT ![c] = "loop"]
  /\ UNCHANGED <<items, cpuVars, hand, memVars, sysVars>>

\* Does the loop the thread is in give blocks back, or take blocks from the
\* heap?  ReclaimAll() empties every group, Maintain() only fReclaimGroup.
Reclaiming(c) == gi[c] = Reclaim \/ phase = "unload"
Filling(c) == ~Reclaiming(c)

HoldsLoop(c) == Thread(c) /\ pc[c] = "loop" /\ lock = c

\* Mutant: count-- is missing.
ReclaimNextKeeps(c) ==
  /\ HoldsLoop(c) /\ Reclaiming(c)
  /\ items[gi[c]] # <<>>
  /\ hand' = [hand EXCEPT ![c] = Top(items[gi[c]])]
  /\ lock' = NoCpu
  /\ pc' = [pc EXCEPT ![c] = "unlocked"]
  /\ UNCHANGED <<items, level, cpuVars, gi, memVars, sysVars>>

\* One round of Group::ReclaimAll: pop a block and release the lock.
ReclaimNext(c) ==
  /\ HoldsLoop(c) /\ Reclaiming(c)
  /\ items[gi[c]] # <<>>
  /\ hand' = [hand EXCEPT ![c] = Top(items[gi[c]])]
  /\ items' = [items EXCEPT ![gi[c]] = Pop(@)]
  /\ lock' = NoCpu
  /\ pc' = [pc EXCEPT ![c] = "unlocked"]
  /\ UNCHANGED <<level, cpuVars, gi, memVars, sysVars>>

\* One round of the fill loop: the group is short, release the lock.
FillNext(c) ==
  /\ HoldsLoop(c) /\ Filling(c)
  /\ Len(items[gi[c]]) < GroupMax
  /\ lock' = NoCpu
  /\ pc' = [pc EXCEPT ![c] = "unlocked"]
  /\ UNCHANGED <<items, level, cpuVars, gi, hand, memVars, sysVars>>

EnableInterrupts(c) ==
  /\ Thread(c) /\ pc[c] = "unlocked"
  /\ intr' = [intr EXCEPT ![c] = TRUE]
  /\ pc' = [pc EXCEPT ![c] = "heap"]
  /\ UNCHANGED <<poolVars, isr, stack, call, gi, hand, memVars, sysVars>>

\* free(ptr); free(nullptr) does nothing.
HeapFreeHand(c) ==
  /\ Thread(c) /\ pc[c] = "heap" /\ Reclaiming(c)
  /\ cap' = [b \in Blocks |-> IF b = hand[c] THEN 0 ELSE cap[b]]
  /\ hand' = [hand EXCEPT ![c] = Null]
  /\ pc' = [pc EXCEPT ![c] = "heapdone"]
  /\ UNCHANGED <<poolVars, cpuVars, gi, want, sysVars>>

\* calloc(1, size): its result is not tested.
HeapFillHand(c) ==
  /\ Thread(c) /\ pc[c] = "heap" /\ Filling(c)
  /\ \E b \in Blocks :
       /\ cap[b] = 0
       /\ cap' = [cap EXCEPT ![b] = ItemSize(gi[c])]
       /\ hand' = [hand EXCEPT ![c] = b]
  /\ pc' = [pc EXCEPT ![c] = "heapdone"]
  /\ UNCHANGED <<poolVars, cpuVars, gi, want, sysVars>>

HeapFillFails(c) ==
  /\ Thread(c) /\ pc[c] = "heap" /\ Filling(c)
  /\ CallocMayFail
  /\ hand' = [hand EXCEPT ![c] = Null]
  /\ pc' = [pc EXCEPT ![c] = "heapdone"]
  /\ UNCHANGED <<poolVars, cpuVars, gi, memVars, sysVars>>

\* Mutant: the lock is taken again with interrupts on.
DisableInterruptsMissing(c) ==
  /\ Thread(c) /\ pc[c] = "heapdone"
  /\ pc' = [pc EXCEPT ![c] = "relock"]
  /\ UNCHANGED <<poolVars, cpuVars, gi, hand, memVars, sysVars>>

DisableInterrupts(c) ==
  /\ Thread(c) /\ pc[c] = "heapdone"
  /\ intr' = [intr EXCEPT ![c] = FALSE]
  /\ pc' = [pc EXCEPT ![c] = "relock"]
  /\ UNCHANGED <<poolVars, isr, stack, call, gi, hand, memVars, sysVars>>

\* The lock is taken again; after calloc the block (or nullptr) is pushed,
\* without another look at the group's count.
RelockReclaim(c) ==
  /\ Thread(c) /\ pc[c] = "relock" /\ Reclaiming(c)
  /\ lock = NoCpu /\ lock' = c
  /\ pc' = [pc EXCEPT ![c] = "loop"]
  /\ UNCHANGED <<items, level, cpuVars, gi, hand, memVars, sysVars>>

RelockFill(c) ==
  /\ Thread(c) /\ pc[c] = "relock" /\ Filling(c)
  /\ lock = NoCpu /\ lock' = c
  /\ items' = [items EXCEPT ![gi[c]] = Append(@, hand[c])]
  /\ hand' = [hand EXCEPT ![c] = Null]
  /\ pc' = [pc EXCEPT ![c] = "loop"]
  /\ UNCHANGED <<level, cpuVars, gi, memVars, sysVars>>

\* The loop on this group is over.
GroupDone(c) ==
  IF Reclaiming(c) THEN items[gi[c]] = <<>> ELSE Len(items[gi[c]]) >= GroupMax

NextGroup(c) ==
  /\ HoldsLoop(c) /\ GroupDone(c)
  /\ gi[c] < GroupCount
  /\ gi' = [gi EXCEPT ![c] = @ + 1]
  /\ UNCHANGED <<poolVars, cpuVars, pc, hand, memVars, sysVars>>

\* Mutant: fLevel-- is missing.
MaintainEndKeepsLevel(c) ==
  /\ HoldsLoop(c) /\ GroupDone(c)
  /\ gi[c] = GroupCount /\ phase # "unload"
  /\ lock' = NoCpu
  /\ intr' = [intr EXCEPT ![c] = TRUE]
  /\ pc' = [pc EXCEPT ![c] = "run"]
  /\ phase' = "up"
  /\ UNCHANGED <<items, level, isr, stack, call, gi, hand, memVars, panicked>>

\* fLevel--, then the lock and the interrupt state are restored.  The first
\* Maintain() is the one of NvHaikuDriver::Init: RM runs after it.
MaintainEnd(c) ==
  /\ HoldsLoop(c) /\ GroupDone(c)
  /\ gi[c] = GroupCount /\ phase # "unload"
  /\ level' = level - 1
  /\ lock' = NoCpu
  /\ intr' = [intr EXCEPT ![c] = TRUE]
  /\ pc' = [pc EXCEPT ![c] = "run"]
  /\ phase' = "up"
  /\ UNCHANGED <<items, isr, stack, call, gi, hand, memVars, panicked>>

\* ~NvHaikuDriver after rm_shutdown_rm: nobody uses the pool any more.
Quiet == \A c \in Cpus :
  pc[c] = "run" /\ ~isr[c] /\ call[c] = NoCall /\ stack[c] = <<>>

UnloadBegin(c) ==
  /\ Running /\ phase = "up" /\ Quiet
  /\ phase' = "unload"
  /\ intr' = [intr EXCEPT ![c] = FALSE]
  /\ lock' = c
  /\ gi' = [gi EXCEPT ![c] = Reclaim]
  /\ pc' = [pc EXCEPT ![c] = "loop"]
  /\ UNCHANGED <<items, level, isr, stack, call, hand, memVars, panicked>>

\* Mutant: the last group is left out.
UnloadEndEarly(c) ==
  /\ HoldsLoop(c) /\ GroupDone(c)
  /\ gi[c] + 1 >= GroupCount /\ phase = "unload"
  /\ lock' = NoCpu
  /\ intr' = [intr EXCEPT ![c] = TRUE]
  /\ pc' = [pc EXCEPT ![c] = "run"]
  /\ phase' = "down"
  /\ UNCHANGED <<items, level, isr, stack, call, gi, hand, memVars, panicked>>

UnloadEnd(c) ==
  /\ HoldsLoop(c) /\ GroupDone(c)
  /\ gi[c] = GroupCount /\ phase = "unload"
  /\ lock' = NoCpu
  /\ intr' = [intr EXCEPT ![c] = TRUE]
  /\ pc' = [pc EXCEPT ![c] = "run"]
  /\ phase' = "down"
  /\ UNCHANGED <<items, level, isr, stack, call, gi, hand, memVars, panicked>>

-----------------------------------------------------------------------------

Init ==
  /\ items = [i \in Groups |-> <<>>]
  /\ level = 0
  /\ lock = NoCpu
  /\ intr = [c \in Cpus |-> TRUE]
  /\ isr = [c \in Cpus |-> FALSE]
  /\ stack = [c \in Cpus |-> <<>>]
  /\ call = [c \in Cpus |-> NoCall]
  /\ \E boot \in Cpus :
       pc = [c \in Cpus |-> IF c = boot THEN "maintain" ELSE "run"]
  /\ gi = [c \in Cpus |-> Reclaim]
  /\ hand = [c \in Cpus |-> Null]
  /\ cap = [b \in Blocks |-> 0]
  /\ want = [b \in Blocks |-> 0]
  /\ phase = "init"
  /\ panicked = NoPanic

RmStep(c) ==
  \/ os_acquire_spinlock(c) \/ os_release_spinlock(c)
  \/ HeapAlloc(c) \/ HeapFree(c)
  \/ EnterAlloc(c) \/ EnterFree(c)

CallStep(c) ==
  \/ Alloc(c) \/ AllocUnderflow(c)
  \/ Free(c) \/ FreeOverflow(c)

MaintainStep(c) ==
  \/ DisableForMaintain(c) \/ MaintainBusy(c) \/ MaintainBegin(c)
  \/ ReclaimNext(c) \/ FillNext(c) \/ EnableInterrupts(c)
  \/ HeapFreeHand(c) \/ HeapFillHand(c) \/ HeapFillFails(c)
  \/ DisableInterrupts(c) \/ RelockReclaim(c) \/ RelockFill(c)
  \/ NextGroup(c) \/ MaintainEnd(c) \/ UnloadEnd(c)

Next == \E c \in Cpus :
  \/ RmStep(c) \/ CallStep(c) \/ MaintainStep(c)
  \/ Interrupt(c) \/ InterruptReturn(c) \/ UnloadBegin(c)

Spec == Init /\ [][Next]_vars

\* A CPU goes on with the pool code it is in, RM's spinlock sections end, and
\* no handler runs for ever (strongly fair: one that goes in and out of
\* spinlock sections still returns).
FairSpec == Spec /\ \A c \in Cpus :
  /\ WF_vars(MaintainStep(c))
  /\ WF_vars(CallStep(c))
  /\ WF_vars(os_release_spinlock(c))
  /\ SF_vars(InterruptReturn(c))

-----------------------------------------------------------------------------
(* What must hold.                                                         *)

Stages == {"run", "maintain", "lock", "loop", "unlocked", "heap", "heapdone", "relock"}

\* Every variable keeps to its type: stacks of blocks or nullptr per group,
\* fLevel never below zero, one stage of Maintain() per CPU.
TypeOK ==
  /\ items \in [Groups -> Seq(Blocks \cup {Null})]
  /\ level \in Nat
  /\ lock \in Cpus \cup {NoCpu}
  /\ intr \in [Cpus -> BOOLEAN] /\ isr \in [Cpus -> BOOLEAN]
  /\ stack \in [Cpus -> Seq(BOOLEAN)]
  /\ call \in [Cpus -> {NoCall} \cup AllocCalls \cup FreeCalls]
  /\ pc \in [Cpus -> Stages]
  /\ gi \in [Cpus -> Groups]
  /\ hand \in [Cpus -> Blocks \cup {Null}]
  /\ cap \in [Blocks -> {0} \cup Sizes \cup {ItemSize(i) : i \in Groups \ {Reclaim}}]
  /\ want \in [Blocks -> {0} \cup Sizes]
  /\ phase \in {"init", "up", "unload", "down"}
  /\ panicked \in {NoPanic, Overflow} \cup {Underflow(s) : s \in Sizes}

\* The thread is between the fLevel++ that let it in and its fLevel--, or in
\* the teardown's ReclaimAll().
Maintaining(c) == pc[c] \in {"loop", "unlocked", "heap", "heapdone", "relock"}

\* fLevel lets one thread at a time into the loops of Maintain(), although
\* they drop the lock on every round; it counts that thread and comes back
\* to zero, so that the next Maintain() is not turned away for ever.
OneMaintainer ==
  /\ \A c, d \in Cpus : Maintaining(c) /\ Maintaining(d) => c = d
  /\ level = IF phase # "unload" /\ \E c \in Cpus : Maintaining(c) THEN 1 ELSE 0

\* No group grows past its array.  Maintain() stores the new block without a
\* test after it was without the lock: while it is away, the room it saw in
\* the group must still be there.
GroupBound ==
  /\ \A i \in Groups : Len(items[i]) <= Capacity(i)
  /\ \A c \in Cpus :
       Maintaining(c) /\ pc[c] # "loop" /\ Filling(c) => Len(items[gi[c]]) < GroupMax

\* Whoever holds the pool's spinlock has interrupts off: a handler on the same
\* CPU that allocates would spin on that lock for ever.
HolderUninterruptible == \A c \in Cpus : lock = c => ~intr[c]

\* The heap is entered only with interrupts on, without the pool's spinlock
\* and without any RM spinlock, although Maintain() turns interrupts on
\* without looking at the state it was called in.
HeapCallsInterruptible ==
  \A c \in Cpus :
    pc[c] = "heap" /\ ~isr[c] => intr[c] /\ lock # c /\ stack[c] = <<>>

Copies(b) ==
  Cardinality({s \in Groups \X (1 .. ReclaimMax + GroupMax) :
                 s[2] <= Len(items[s[1]]) /\ items[s[1]][s[2]] = b})
  + Cardinality({c \in Cpus : hand[c] = b})
  + Cardinality({c \in Cpus : call[c] = [op |-> "free", block |-> b]})
  + (IF want[b] > 0 THEN 1 ELSE 0)

\* A block that the heap gave is in exactly one place (a slot of a group, the
\* local of the maintainer, a Free in progress, or RM's hands), and one the
\* heap has is in none: never handed out twice, freed twice, or lost.
NoAlias == \A b \in Blocks : Copies(b) = IF cap[b] > 0 THEN 1 ELSE 0

\* RM never gets a block smaller than it asked for: the size that Maintain()
\* doubles along the groups agrees with the group Alloc() starts from.
BlockFits == \A b \in Blocks : want[b] > 0 => want[b] <= cap[b]

\* After the driver's teardown no group holds a block, and every block that
\* did not go back to the heap is one RM never freed.
UnloadEmpties ==
  phase = "down" =>
    /\ \A i \in Groups : items[i] = <<>>
    /\ \A b \in Blocks : cap[b] > 0 => want[b] > 0

\* panic("IntrSafePool: underflow") says the pool ran dry: no group that fits
\* the request holds a block.
UnderflowMeansEmpty ==
  \A size \in Sizes : panicked = Underflow(size) =>
    \A i \in Fitting(size), b \in Blocks :
      \A k \in 1 .. Len(items[i]) : items[i][k] # b

\* Where a block is, for BlockLedger.
InTrash(b) ==
  \/ \E k \in 1 .. Len(items[Reclaim]) : items[Reclaim][k] = b
  \/ \E c \in Cpus : call[c] = [op |-> "free", block |-> b]
  \/ \E c \in Cpus : hand[c] = b /\ gi[c] = Reclaim

PlaceOf(b) ==
  IF want[b] > 0 THEN "used"
  ELSE IF cap[b] = 0 THEN "heap"
  ELSE IF InTrash(b) THEN "trash" ELSE "stock"

Ledger == INSTANCE BlockLedger WITH
  place <- [b \in Blocks |-> PlaceOf(b)],
  closing <- phase \in {"unload", "down"}

\* The pool keeps BlockLedger's promises: in particular a block given back in
\* a handler passes through the heap before anybody gets it again.
ImplementsLedger == Ledger!LedgerSpec

-----------------------------------------------------------------------------
(* Liveness.                                                               *)

Traffic == \E c \in Cpus :
  EnterAlloc(c) \/ EnterFree(c) \/ Interrupt(c) \/ UnloadBegin(c)

OuterRelease == \E c \in Cpus : os_release_spinlock(c) /\ intr'[c]

HeapExhausted == \A b \in Blocks : cap[b] # 0

Stocked ==
  /\ items[Reclaim] = <<>>
  /\ \A i \in Groups \ {Reclaim} : Len(items[i]) = GroupMax

\* A Maintain() that returns early because another one runs leaves a shortage
\* behind; it is made good later: once handlers and pool traffic stop while RM
\* goes on releasing spinlocks, the groups are full and nothing waits to be
\* reclaimed, unless the heap runs out again and again.
StockRecovers ==
  (<>[][~Traffic]_vars /\ []<><<OuterRelease>>_vars) =>
    (<>[](Stocked \/ phase # "up" \/ ~Running) \/ []<>HeapExhausted)

=============================================================================
