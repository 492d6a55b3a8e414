------------------------- MODULE IntrSafePoolProofs -------------------------
(***************************************************************************)
(* The invariants of IntrSafePool, proved for any number of CPUs, blocks,  *)
(* groups and sizes.  IInv is the inductive invariant: besides the types   *)
(* it says exactly when interrupts are on, what the saved states on the    *)
(* stack of RM spinlocks are, and who holds the pool's spinlock.  OwnerInv *)
(* says where each block is and how large it is; the promises about blocks *)
(* (NoAlias, BlockFits, UnloadEmpties, BlockLedger) follow from both.      *)
(***************************************************************************)
EXTENDS IntrSafePool, SequenceTheorems, FiniteSetTheorems, TLAPS

\* A thread stands at one of these places with interrupts on.
Interruptible == {"run", "maintain", "heap", "heapdone"}

IntrState == \A c \in Cpus :
  intr[c] <=> (~isr[c] /\ stack[c] = <<>> /\ pc[c] \in Interruptible)

StackState == \A c \in Cpus :
  /\ isr[c] => pc[c] \in Interruptible
  /\ ~isr[c] /\ stack[c] # <<>> => pc[c] = "run"
  /\ \A k \in 1 .. Len(stack[c]) : stack[c][k] <=> (k = 1 /\ ~isr[c])

LockState == \A c \in Cpus :
  /\ lock = c <=> (pc[c] = "loop" \/ call[c] # NoCall)
  /\ call[c] # NoCall => pc[c] \in Interruptible /\ ~intr[c]

CpuInv == IntrState /\ StackState /\ LockState

PhaseState ==
  phase \in {"unload", "down"} =>
    \A c \in Cpus : pc[c] = "run" \/ (phase = "unload" /\ Maintaining(c))

MaintainInv == PhaseState /\ OneMaintainer /\ GroupBound

IInv == TypeOK /\ CpuInv /\ MaintainInv

-----------------------------------------------------------------------------
(* Stacks.                                                                 *)

\* Taking the top off a stack that is not empty: what is left is a stack of the
\* same values, one shorter, and the top is one of them.
LEMMA PopProperties ==
  ASSUME NEW S, NEW s \in Seq(S), s # <<>>
  PROVE  /\ Top(s) \in S
         /\ Pop(s) \in Seq(S)
         /\ Len(s) \in Nat \ {0}
         /\ Len(Pop(s)) = Len(s) - 1
         /\ \A k \in 1 .. Len(s) - 1 : Pop(s)[k] = s[k]
<1>1. Len(s) \in Nat \ {0}
  BY EmptySeq
<1>2. \A k \in 1 .. Len(s) : s[k] \in S
  BY ElementOfSeq
<1>3. Top(s) \in S
  BY <1>1, <1>2 DEF Top
<1>4. \A k \in 1 .. Len(s) - 1 : s[k] \in S
  BY <1>1, <1>2
<1> DEFINE n == Len(s) - 1
<1>5. n \in Nat /\ 1 \in Int /\ \A k \in 1 .. n : s[k] \in S
  BY <1>1, <1>4
<1>6. Pop(s) = SubSeq(s, 1, n)
  BY DEF Pop
<1> HIDE DEF n
<1>7. /\ Pop(s) \in Seq(S)
      /\ Len(Pop(s)) = IF 1 <= n THEN n - 1 + 1 ELSE 0
      /\ \A k \in 1 .. n - 1 + 1 : Pop(s)[k] = s[1 + k - 1]
  <2>1. n \in Int
    BY <1>5
  <2> QED
    BY <1>5, <1>6, <2>1, SubSeqProperties
<1>8. Len(Pop(s)) = n
  BY <1>5, <1>7
<1>9. \A k \in 1 .. n : Pop(s)[k] = s[k]
  <2> TAKE k \in 1 .. n
  <2>1. k \in 1 .. n - 1 + 1 /\ 1 + k - 1 = k
    BY <1>5
  <2> QED
    BY <1>7, <2>1
<1> QED
  BY <1>1, <1>3, <1>7, <1>8, <1>9 DEF n

\* Every group of PopGroups(S) is a stack, no longer than it was.
LEMMA PopGroupsProperties ==
  ASSUME TypeOK, NEW S
  PROVE  /\ PopGroups(S) \in [Groups -> Seq(Blocks \cup {Null})]
         /\ \A i \in Groups : Len(PopGroups(S)[i]) <= Len(items[i])
<1>1. ASSUME NEW i \in Groups
      PROVE  /\ (IF i \in S /\ items[i] # <<>> THEN Pop(items[i]) ELSE items[i])
                  \in Seq(Blocks \cup {Null})
             /\ Len(IF i \in S /\ items[i] # <<>> THEN Pop(items[i]) ELSE items[i])
                  <= Len(items[i])
  <2>1. items[i] \in Seq(Blocks \cup {Null}) /\ Len(items[i]) \in Nat
    BY <1>1, LenProperties DEF TypeOK
  <2>2. CASE items[i] # <<>>
    BY <2>1, <2>2, PopProperties
  <2>3. CASE items[i] = <<>>
    BY <2>1, <2>3
  <2> QED
    BY <2>2, <2>3
<1> QED
  BY <1>1 DEF PopGroups

-----------------------------------------------------------------------------
(* Types.                                                                  *)

\* Every step keeps the types; fLevel-- stays in Nat because the thread that
\* runs it was counted.
LEMMA TypeStep ==
  ASSUME TypeOK, OneMaintainer, [Next]_vars
  PROVE  TypeOK'
<1> USE DEF TypeOK, poolVars, cpuVars, maintVars, memVars, sysVars, Stages
<1>1. ASSUME NEW c \in Cpus, os_acquire_spinlock(c) PROVE TypeOK'
  BY <1>1 DEF os_acquire_spinlock
<1>2. ASSUME NEW c \in Cpus, os_release_spinlock(c) PROVE TypeOK'
  <2>1. stack[c] \in Seq(BOOLEAN) /\ stack[c] # <<>>
    BY <1>2 DEF os_release_spinlock
  <2>2. Top(stack[c]) \in BOOLEAN /\ Pop(stack[c]) \in Seq(BOOLEAN)
    BY <2>1, PopProperties
  <2> QED
    BY <1>2, <2>2 DEF os_release_spinlock
<1>3. ASSUME NEW c \in Cpus, HeapAlloc(c) PROVE TypeOK'
  BY <1>3 DEF HeapAlloc
<1>4. ASSUME NEW c \in Cpus, HeapFree(c) PROVE TypeOK'
  BY <1>4 DEF HeapFree
<1>5. ASSUME NEW c \in Cpus, EnterAlloc(c) PROVE TypeOK'
  BY <1>5 DEF EnterAlloc, AllocCalls
<1>6. ASSUME NEW c \in Cpus, EnterFree(c) PROVE TypeOK'
  BY <1>6 DEF EnterFree, FreeCalls
<1>7. ASSUME NEW c \in Cpus, Alloc(c) PROVE TypeOK'
  <2>1. call[c].size \in Sizes
    BY <1>7 DEF Alloc, AllocCalls
  <2>2. PICK i \in Fitting(call[c].size) :
          /\ HasBlock(i)
          /\ want' = [want EXCEPT ![Top(items[i])] = call[c].size]
          /\ items' = PopGroups({j \in Fitting(call[c].size) : j <= i})
    BY <1>7 DEF Alloc
  <2>3. items' \in [Groups -> Seq(Blocks \cup {Null})]
    BY <2>2, PopGroupsProperties
  <2>4. want' \in [Blocks -> {0} \cup Sizes]
    BY <2>1, <2>2
  <2> QED
    BY <1>7, <2>3, <2>4 DEF Alloc
<1>8. ASSUME NEW c \in Cpus, AllocUnderflow(c) PROVE TypeOK'
  <2>1. call[c].size \in Sizes
    BY <1>8 DEF AllocUnderflow, AllocCalls
  <2>2. items' \in [Groups -> Seq(Blocks \cup {Null})]
    BY <1>8, PopGroupsProperties DEF AllocUnderflow
  <2> QED
    BY <1>8, <2>1, <2>2 DEF AllocUnderflow
<1>9. ASSUME NEW c \in Cpus, Free(c) PROVE TypeOK'
  <2>1. call[c].block \in Blocks
    BY <1>9 DEF Free, FreeCalls
  <2>2. Append(items[Reclaim], call[c].block) \in Seq(Blocks \cup {Null})
    <3>1. items[Reclaim] \in Seq(Blocks \cup {Null})
      BY ShapeAssumption DEF Groups, Reclaim
    <3> QED
      BY <2>1, <3>1
  <2>3. items' \in [Groups -> Seq(Blocks \cup {Null})]
    BY <1>9, <2>2 DEF Free
  <2> QED
    BY <1>9, <2>3 DEF Free
<1>10. ASSUME NEW c \in Cpus, FreeOverflow(c) PROVE TypeOK'
  BY <1>10 DEF FreeOverflow
<1>11. ASSUME NEW c \in Cpus, DisableForMaintain(c) PROVE TypeOK'
  BY <1>11 DEF DisableForMaintain
<1>12. ASSUME NEW c \in Cpus, MaintainBusy(c) PROVE TypeOK'
  BY <1>12 DEF MaintainBusy
<1>13. ASSUME NEW c \in Cpus, MaintainBegin(c) PROVE TypeOK'
  BY <1>13, ShapeAssumption DEF MaintainBegin, Groups, Reclaim
<1>14. ASSUME NEW c \in Cpus, ReclaimNext(c) PROVE TypeOK'
  <2>1. items[gi[c]] \in Seq(Blocks \cup {Null}) /\ items[gi[c]] # <<>>
    BY <1>14 DEF ReclaimNext
  <2>2. /\ Top(items[gi[c]]) \in Blocks \cup {Null}
        /\ Pop(items[gi[c]]) \in Seq(Blocks \cup {Null})
    BY <2>1, PopProperties
  <2> QED
    BY <1>14, <2>2 DEF ReclaimNext
<1>15. ASSUME NEW c \in Cpus, FillNext(c) PROVE TypeOK'
  BY <1>15 DEF FillNext
<1>16. ASSUME NEW c \in Cpus, EnableInterrupts(c) PROVE TypeOK'
  BY <1>16 DEF EnableInterrupts
<1>17. ASSUME NEW c \in Cpus, HeapFreeHand(c) PROVE TypeOK'
  BY <1>17 DEF HeapFreeHand
<1>18. ASSUME NEW c \in Cpus, HeapFillHand(c) PROVE TypeOK'
  <2>1. gi[c] \in Groups \ {Reclaim}
    BY <1>18 DEF HeapFillHand, Filling, Reclaiming
  <2>2. cap' \in [Blocks -> {0} \cup Sizes \cup {ItemSize(i) : i \in Groups \ {Reclaim}}]
    BY <1>18, <2>1 DEF HeapFillHand
  <2> QED
    BY <1>18, <2>2 DEF HeapFillHand
<1>19. ASSUME NEW c \in Cpus, HeapFillFails(c) PROVE TypeOK'
  BY <1>19 DEF HeapFillFails
<1>20. ASSUME NEW c \in Cpus, DisableInterrupts(c) PROVE TypeOK'
  BY <1>20 DEF DisableInterrupts
<1>21. ASSUME NEW c \in Cpus, RelockReclaim(c) PROVE TypeOK'
  BY <1>21 DEF RelockReclaim
<1>22. ASSUME NEW c \in Cpus, RelockFill(c) PROVE TypeOK'
  BY <1>22 DEF RelockFill
<1>23. ASSUME NEW c \in Cpus, NextGroup(c) PROVE TypeOK'
  <2>1. gi' \in [Cpus -> Groups]
    <3>1. gi[c] + 1 \in Groups
      BY <1>23, ShapeAssumption DEF NextGroup, Groups
    <3> QED
      BY <1>23, <3>1 DEF NextGroup
  <2> QED
    BY <1>23, <2>1 DEF NextGroup
<1>24. ASSUME NEW c \in Cpus, MaintainEnd(c) PROVE TypeOK'
  <2>1. level = 1
    BY <1>24 DEF MaintainEnd, HoldsLoop, OneMaintainer, Maintaining
  <2>2. level' \in Nat
    BY <1>24, <2>1 DEF MaintainEnd
  <2> QED
    BY <1>24, <2>2 DEF MaintainEnd
<1>25. ASSUME NEW c \in Cpus, UnloadEnd(c) PROVE TypeOK'
  BY <1>25 DEF UnloadEnd
<1>26. ASSUME NEW c \in Cpus, Interrupt(c) PROVE TypeOK'
  BY <1>26 DEF Interrupt
<1>27. ASSUME NEW c \in Cpus, InterruptReturn(c) PROVE TypeOK'
  BY <1>27 DEF InterruptReturn
<1>28. ASSUME NEW c \in Cpus, UnloadBegin(c) PROVE TypeOK'
  BY <1>28, ShapeAssumption DEF UnloadBegin, Groups, Reclaim
<1>29. CASE UNCHANGED vars
  BY <1>29 DEF vars
<1> QED
  BY <1>1, <1>2, <1>3, <1>4, <1>5, <1>6, <1>7, <1>8, <1>9, <1>10, <1>11, <1>12, <1>13, <1>14, <1>15, <1>16, <1>17, <1>18, <1>19, <1>20, <1>21, <1>22, <1>23, <1>24, <1>25, <1>26, <1>27, <1>28, <1>29
     DEF Next, RmStep, CallStep, MaintainStep

-----------------------------------------------------------------------------
(* The CPUs.                                                               *)

\* A pool operation in progress is told from none.
LEMMA CallsAreCalls ==
  /\ \A x \in AllocCalls \cup FreeCalls : x # NoCall
  /\ \A size \in Sizes : [op |-> "alloc", size |-> size] \in AllocCalls
  /\ \A b \in Blocks : [op |-> "free", block |-> b] \in FreeCalls
<1>1. \A x \in AllocCalls : x.op = "alloc"
  BY DEF AllocCalls
<1>2. \A x \in FreeCalls : x.op = "free"
  BY DEF FreeCalls
<1>3. NoCall.op = "none"
  BY DEF NoCall
<1>4. \A size \in Sizes : [op |-> "alloc", size |-> size] \in AllocCalls
  BY DEF AllocCalls
<1>5. \A b \in Blocks : [op |-> "free", block |-> b] \in FreeCalls
  BY DEF FreeCalls
<1> QED
  BY <1>1, <1>2, <1>3, <1>4, <1>5

\* Interrupts, the stack of saved states and the pool's spinlock keep in step.
LEMMA CpuStep ==
  ASSUME TypeOK, CpuInv, [Next]_vars
  PROVE  CpuInv'
<1> USE NoCpuAssumption DEF TypeOK, CpuInv, IntrState, StackState, LockState,
        Interruptible, poolVars, cpuVars, maintVars, memVars, sysVars
<1>1. ASSUME NEW c \in Cpus, os_acquire_spinlock(c) PROVE CpuInv'
  <2>1. stack[c] \in Seq(BOOLEAN) /\ intr[c] \in BOOLEAN
    OBVIOUS
  <2>2. /\ Len(Append(stack[c], intr[c])) = Len(stack[c]) + 1
        /\ Len(stack[c]) \in Nat
        /\ Append(stack[c], intr[c])[Len(stack[c]) + 1] = intr[c]
        /\ \A k \in 1 .. Len(stack[c]) : Append(stack[c], intr[c])[k] = stack[c][k]
    BY <2>1
  <2>3. stack'[c] = Append(stack[c], intr[c]) /\ stack'[c] # <<>>
    <3>1. stack'[c] = Append(stack[c], intr[c])
      BY <1>1 DEF os_acquire_spinlock
    <3>2. Append(stack[c], intr[c]) # <<>>
      BY ONLY <2>1, <2>2, EmptySeq
    <3> QED
      BY <3>1, <3>2
  <2>4. pc[c] \in Interruptible /\ (~isr[c] => pc[c] = "run") /\ call[c] = NoCall
    BY <1>1 DEF os_acquire_spinlock, RmCode
  <2>5. intr[c] <=> (~isr[c] /\ Len(stack[c]) = 0)
    BY <2>4, <2>1, EmptySeq
  <2>6. \A k \in 1 .. Len(stack'[c]) : stack'[c][k] <=> (k = 1 /\ ~isr[c])
    BY <2>2, <2>3, <2>5
  <2>7. IntrState'
    BY <1>1, <2>3 DEF os_acquire_spinlock
  <2>8. StackState'
    BY <1>1, <2>3, <2>4, <2>6 DEF os_acquire_spinlock
  <2>9. LockState'
    BY <1>1 DEF os_acquire_spinlock
  <2> QED
    BY <2>7, <2>8, <2>9
<1>2. ASSUME NEW c \in Cpus, os_release_spinlock(c) PROVE CpuInv'
  <2>1. stack[c] \in Seq(BOOLEAN) /\ stack[c] # <<>>
    BY <1>2 DEF os_release_spinlock
  <2>2. /\ Pop(stack[c]) \in Seq(BOOLEAN)
        /\ Len(stack[c]) \in Nat \ {0}
        /\ Len(Pop(stack[c])) = Len(stack[c]) - 1
        /\ \A k \in 1 .. Len(stack[c]) - 1 : Pop(stack[c])[k] = stack[c][k]
    BY ONLY <2>1, PopProperties
  <2>3. Top(stack[c]) <=> (Len(stack[c]) = 1 /\ ~isr[c])
    <3>1. stack[c][Len(stack[c])] <=> (Len(stack[c]) = 1 /\ ~isr[c])
      BY <2>2
    <3> QED
      BY <3>1 DEF Top
  <2>4. stack'[c] = Pop(stack[c]) /\ (stack'[c] = <<>> <=> Len(stack[c]) = 1)
    <3>1. stack'[c] = Pop(stack[c])
      BY <1>2 DEF os_release_spinlock
    <3>2. Pop(stack[c]) = <<>> <=> Len(Pop(stack[c])) = 0
      BY <2>2, EmptySeq
    <3> QED
      BY <2>2, <3>1, <3>2
  <2>5. pc[c] \in Interruptible /\ (~isr[c] => pc[c] = "run") /\ call[c] = NoCall
    BY <1>2 DEF os_release_spinlock, RmCode
  <2>6. IntrState'
    BY <1>2, <2>3, <2>4, <2>5 DEF os_release_spinlock
  <2>7. \A k \in 1 .. Len(stack'[c]) : stack'[c][k] <=> (k = 1 /\ ~isr[c])
    <3>1. \A k \in 1 .. Len(stack[c]) : stack[c][k] <=> (k = 1 /\ ~isr[c])
      OBVIOUS
    <3>2. \A k \in 1 .. Len(stack[c]) - 1 : k \in 1 .. Len(stack[c])
      BY <2>2
    <3>3. \A k \in 1 .. Len(stack[c]) - 1 :
            Pop(stack[c])[k] <=> (k = 1 /\ ~isr[c])
      BY <2>2, <3>1, <3>2
    <3> QED
      BY <2>2, <2>4, <3>3
  <2>8. StackState'
    BY <1>2, <2>3, <2>4, <2>5, <2>7 DEF os_release_spinlock
  <2>9. LockState'
    BY <1>2, <2>5 DEF os_release_spinlock
  <2> QED
    BY <2>6, <2>8, <2>9
<1>3. ASSUME NEW c \in Cpus, HeapAlloc(c) PROVE CpuInv'
  BY <1>3 DEF HeapAlloc
<1>4. ASSUME NEW c \in Cpus, HeapFree(c) PROVE CpuInv'
  BY <1>4 DEF HeapFree
<1>5. ASSUME NEW c \in Cpus, EnterAlloc(c) PROVE CpuInv'
  <2>1. PICK size \in Sizes :
          call' = [call EXCEPT ![c] = [op |-> "alloc", size |-> size]]
    BY <1>5 DEF EnterAlloc
  <2>2. call'[c] # NoCall
    BY <2>1, CallsAreCalls
  <2> QED
    BY <1>5, <2>1, <2>2 DEF EnterAlloc, RmCode, UsePool
<1>6. ASSUME NEW c \in Cpus, EnterFree(c) PROVE CpuInv'
  <2>1. PICK b \in Blocks :
          call' = [call EXCEPT ![c] = [op |-> "free", block |-> b]]
    BY <1>6 DEF EnterFree
  <2>2. call'[c] # NoCall
    BY <2>1, CallsAreCalls
  <2> QED
    BY <1>6, <2>1, <2>2 DEF EnterFree, RmCode, UsePool
<1>7. ASSUME NEW c \in Cpus, Alloc(c) PROVE CpuInv'
  <2>1. call[c] # NoCall /\ lock = c
    BY <1>7, CallsAreCalls DEF Alloc
  <2> QED
    BY <1>7, <2>1 DEF Alloc
<1>8. ASSUME NEW c \in Cpus, AllocUnderflow(c) PROVE CpuInv'
  BY <1>8 DEF AllocUnderflow
<1>9. ASSUME NEW c \in Cpus, Free(c) PROVE CpuInv'
  <2>1. call[c] # NoCall /\ lock = c
    BY <1>9, CallsAreCalls DEF Free
  <2> QED
    BY <1>9, <2>1 DEF Free
<1>10. ASSUME NEW c \in Cpus, FreeOverflow(c) PROVE CpuInv'
  BY <1>10 DEF FreeOverflow
<1>11. ASSUME NEW c \in Cpus, DisableForMaintain(c) PROVE CpuInv'
  BY <1>11 DEF DisableForMaintain, Thread, HoldsLoop
<1>12. ASSUME NEW c \in Cpus, MaintainBusy(c) PROVE CpuInv'
  BY <1>12 DEF MaintainBusy, Thread, HoldsLoop
<1>13. ASSUME NEW c \in Cpus, MaintainBegin(c) PROVE CpuInv'
  BY <1>13 DEF MaintainBegin, Thread, HoldsLoop
<1>14. ASSUME NEW c \in Cpus, ReclaimNext(c) PROVE CpuInv'
  BY <1>14 DEF ReclaimNext, Thread, HoldsLoop
<1>15. ASSUME NEW c \in Cpus, FillNext(c) PROVE CpuInv'
  BY <1>15 DEF FillNext, Thread, HoldsLoop
<1>16. ASSUME NEW c \in Cpus, EnableInterrupts(c) PROVE CpuInv'
  BY <1>16 DEF EnableInterrupts, Thread, HoldsLoop
<1>17. ASSUME NEW c \in Cpus, HeapFreeHand(c) PROVE CpuInv'
  BY <1>17 DEF HeapFreeHand, Thread, HoldsLoop
<1>18. ASSUME NEW c \in Cpus, HeapFillHand(c) PROVE CpuInv'
  BY <1>18 DEF HeapFillHand, Thread, HoldsLoop
<1>19. ASSUME NEW c \in Cpus, HeapFillFails(c) PROVE CpuInv'
  BY <1>19 DEF HeapFillFails, Thread, HoldsLoop
<1>20. ASSUME NEW c \in Cpus, DisableInterrupts(c) PROVE CpuInv'
  BY <1>20 DEF DisableInterrupts, Thread, HoldsLoop
<1>21. ASSUME NEW c \in Cpus, RelockReclaim(c) PROVE CpuInv'
  BY <1>21 DEF RelockReclaim, Thread, HoldsLoop
<1>22. ASSUME NEW c \in Cpus, RelockFill(c) PROVE CpuInv'
  BY <1>22 DEF RelockFill, Thread, HoldsLoop
<1>23. ASSUME NEW c \in Cpus, NextGroup(c) PROVE CpuInv'
  BY <1>23 DEF NextGroup, Thread, HoldsLoop
<1>24. ASSUME NEW c \in Cpus, MaintainEnd(c) PROVE CpuInv'
  BY <1>24 DEF MaintainEnd, Thread, HoldsLoop
<1>25. ASSUME NEW c \in Cpus, UnloadEnd(c) PROVE CpuInv'
  BY <1>25 DEF UnloadEnd, Thread, HoldsLoop
<1>26. ASSUME NEW c \in Cpus, Interrupt(c) PROVE CpuInv'
  BY <1>26 DEF Interrupt
<1>27. ASSUME NEW c \in Cpus, InterruptReturn(c) PROVE CpuInv'
  BY <1>27 DEF InterruptReturn, RmCode
<1>28. ASSUME NEW c \in Cpus, UnloadBegin(c) PROVE CpuInv'
  BY <1>28 DEF UnloadBegin, Quiet
<1>29. CASE UNCHANGED vars
  BY <1>29 DEF vars
<1> QED
  BY <1>1, <1>2, <1>3, <1>4, <1>5, <1>6, <1>7, <1>8, <1>9, <1>10, <1>11, <1>12, <1>13, <1>14, <1>15, <1>16, <1>17, <1>18, <1>19, <1>20, <1>21, <1>22, <1>23, <1>24, <1>25, <1>26, <1>27, <1>28, <1>29
     DEF Next, RmStep, CallStep, MaintainStep

-----------------------------------------------------------------------------
(* Maintain().                                                             *)

\* While the driver is torn down nobody else is in Maintain().
LEMMA PhaseStep ==
  ASSUME TypeOK, StackState, OneMaintainer, PhaseState, [Next]_vars
  PROVE  PhaseState'
<1> USE DEF TypeOK, StackState, PhaseState, OneMaintainer, Maintaining, Interruptible,
        poolVars, cpuVars, maintVars, memVars, sysVars
<1>1. ASSUME NEW c \in Cpus, os_acquire_spinlock(c) PROVE PhaseState'
  BY <1>1 DEF os_acquire_spinlock, RmCode
<1>2. ASSUME NEW c \in Cpus, os_release_spinlock(c) PROVE PhaseState'
  BY <1>2 DEF os_release_spinlock, RmCode
<1>3. ASSUME NEW c \in Cpus, HeapAlloc(c) PROVE PhaseState'
  BY <1>3 DEF HeapAlloc
<1>4. ASSUME NEW c \in Cpus, HeapFree(c) PROVE PhaseState'
  BY <1>4 DEF HeapFree
<1>5. ASSUME NEW c \in Cpus, EnterAlloc(c) PROVE PhaseState'
  BY <1>5 DEF EnterAlloc
<1>6. ASSUME NEW c \in Cpus, EnterFree(c) PROVE PhaseState'
  BY <1>6 DEF EnterFree
<1>7. ASSUME NEW c \in Cpus, Alloc(c) PROVE PhaseState'
  BY <1>7 DEF Alloc
<1>8. ASSUME NEW c \in Cpus, AllocUnderflow(c) PROVE PhaseState'
  BY <1>8 DEF AllocUnderflow
<1>9. ASSUME NEW c \in Cpus, Free(c) PROVE PhaseState'
  BY <1>9 DEF Free
<1>10. ASSUME NEW c \in Cpus, FreeOverflow(c) PROVE PhaseState'
  BY <1>10 DEF FreeOverflow
<1>11. ASSUME NEW c \in Cpus, DisableForMaintain(c) PROVE PhaseState'
  BY <1>11 DEF DisableForMaintain, Thread, HoldsLoop
<1>12. ASSUME NEW c \in Cpus, MaintainBusy(c) PROVE PhaseState'
  BY <1>12 DEF MaintainBusy, Thread, HoldsLoop
<1>13. ASSUME NEW c \in Cpus, MaintainBegin(c) PROVE PhaseState'
  BY <1>13 DEF MaintainBegin, Thread, HoldsLoop
<1>14. ASSUME NEW c \in Cpus, ReclaimNext(c) PROVE PhaseState'
  BY <1>14 DEF ReclaimNext, Thread, HoldsLoop
<1>15. ASSUME NEW c \in Cpus, FillNext(c) PROVE PhaseState'
  BY <1>15 DEF FillNext, Thread, HoldsLoop
<1>16. ASSUME NEW c \in Cpus, EnableInterrupts(c) PROVE PhaseState'
  BY <1>16 DEF EnableInterrupts, Thread, HoldsLoop
<1>17. ASSUME NEW c \in Cpus, HeapFreeHand(c) PROVE PhaseState'
  BY <1>17 DEF HeapFreeHand, Thread, HoldsLoop
<1>18. ASSUME NEW c \in Cpus, HeapFillHand(c) PROVE PhaseState'
  BY <1>18 DEF HeapFillHand, Thread, HoldsLoop
<1>19. ASSUME NEW c \in Cpus, HeapFillFails(c) PROVE PhaseState'
  BY <1>19 DEF HeapFillFails, Thread, HoldsLoop
<1>20. ASSUME NEW c \in Cpus, DisableInterrupts(c) PROVE PhaseState'
  BY <1>20 DEF DisableInterrupts, Thread, HoldsLoop
<1>21. ASSUME NEW c \in Cpus, RelockReclaim(c) PROVE PhaseState'
  BY <1>21 DEF RelockReclaim, Thread, HoldsLoop
<1>22. ASSUME NEW c \in Cpus, RelockFill(c) PROVE PhaseState'
  BY <1>22 DEF RelockFill, Thread, HoldsLoop
<1>23. ASSUME NEW c \in Cpus, NextGroup(c) PROVE PhaseState'
  BY <1>23 DEF NextGroup, Thread, HoldsLoop
<1>24. ASSUME NEW c \in Cpus, MaintainEnd(c) PROVE PhaseState'
  BY <1>24 DEF MaintainEnd, Thread, HoldsLoop
<1>25. ASSUME NEW c \in Cpus, UnloadEnd(c) PROVE PhaseState'
  BY <1>25 DEF UnloadEnd, Thread, HoldsLoop
<1>26. ASSUME NEW c \in Cpus, Interrupt(c) PROVE PhaseState'
  BY <1>26 DEF Interrupt
<1>27. ASSUME NEW c \in Cpus, InterruptReturn(c) PROVE PhaseState'
  BY <1>27 DEF InterruptReturn, RmCode
<1>28. ASSUME NEW c \in Cpus, UnloadBegin(c) PROVE PhaseState'
  BY <1>28 DEF UnloadBegin, Quiet
<1>29. CASE UNCHANGED vars
  BY <1>29 DEF vars
<1> QED
  BY <1>1, <1>2, <1>3, <1>4, <1>5, <1>6, <1>7, <1>8, <1>9, <1>10, <1>11, <1>12, <1>13, <1>14, <1>15, <1>16, <1>17, <1>18, <1>19, <1>20, <1>21, <1>22, <1>23, <1>24, <1>25, <1>26, <1>27, <1>28, <1>29
     DEF Next, RmStep, CallStep, MaintainStep

\* fLevel admits one thread, and is zero again when that thread leaves.
LEMMA MaintainerStep ==
  ASSUME TypeOK, StackState, PhaseState, OneMaintainer, [Next]_vars
  PROVE  OneMaintainer'
<1> USE DEF TypeOK, StackState, PhaseState, OneMaintainer, Maintaining, Interruptible,
        poolVars, cpuVars, maintVars, memVars, sysVars
<1>1. ASSUME NEW c \in Cpus, os_acquire_spinlock(c) PROVE OneMaintainer'
  BY <1>1 DEF os_acquire_spinlock, RmCode
<1>2. ASSUME NEW c \in Cpus, os_release_spinlock(c) PROVE OneMaintainer'
  <2>1. stack[c] \in Seq(BOOLEAN) /\ stack[c] # <<>>
    BY <1>2 DEF os_release_spinlock
  <2>2. Len(stack[c]) \in Nat \ {0}
    BY ONLY <2>1, PopProperties
  <2>3. Top(stack[c]) => ~isr[c]
    BY <2>2 DEF Top
  <2>4. Top(stack[c]) => pc[c] = "run"
    BY <1>2, <2>3 DEF os_release_spinlock, RmCode
  <2>5. \A d \in Cpus : pc'[d] = pc[d] \/ (pc[d] = "run" /\ pc'[d] = "maintain")
    BY <1>2, <2>4 DEF os_release_spinlock
  <2> QED
    BY <1>2, <2>5 DEF os_release_spinlock
<1>3. ASSUME NEW c \in Cpus, HeapAlloc(c) PROVE OneMaintainer'
  BY <1>3 DEF HeapAlloc
<1>4. ASSUME NEW c \in Cpus, HeapFree(c) PROVE OneMaintainer'
  BY <1>4 DEF HeapFree
<1>5. ASSUME NEW c \in Cpus, EnterAlloc(c) PROVE OneMaintainer'
  BY <1>5 DEF EnterAlloc
<1>6. ASSUME NEW c \in Cpus, EnterFree(c) PROVE OneMaintainer'
  BY <1>6 DEF EnterFree
<1>7. ASSUME NEW c \in Cpus, Alloc(c) PROVE OneMaintainer'
  BY <1>7 DEF Alloc
<1>8. ASSUME NEW c \in Cpus, AllocUnderflow(c) PROVE OneMaintainer'
  BY <1>8 DEF AllocUnderflow
<1>9. ASSUME NEW c \in Cpus, Free(c) PROVE OneMaintainer'
  BY <1>9 DEF Free
<1>10. ASSUME NEW c \in Cpus, FreeOverflow(c) PROVE OneMaintainer'
  BY <1>10 DEF FreeOverflow
<1>11. ASSUME NEW c \in Cpus, DisableForMaintain(c) PROVE OneMaintainer'
  BY <1>11 DEF DisableForMaintain, Thread, HoldsLoop
<1>12. ASSUME NEW c \in Cpus, MaintainBusy(c) PROVE OneMaintainer'
  BY <1>12 DEF MaintainBusy, Thread, HoldsLoop
<1>13. ASSUME NEW c \in Cpus, MaintainBegin(c) PROVE OneMaintainer'
  BY <1>13 DEF MaintainBegin, Thread, HoldsLoop
<1>14. ASSUME NEW c \in Cpus, ReclaimNext(c) PROVE OneMaintainer'
  BY <1>14 DEF ReclaimNext, Thread, HoldsLoop
<1>15. ASSUME NEW c \in Cpus, FillNext(c) PROVE OneMaintainer'
  BY <1>15 DEF FillNext, Thread, HoldsLoop
<1>16. ASSUME NEW c \in Cpus, EnableInterrupts(c) PROVE OneMaintainer'
  BY <1>16 DEF EnableInterrupts, Thread, HoldsLoop
<1>17. ASSUME NEW c \in Cpus, HeapFreeHand(c) PROVE OneMaintainer'
  BY <1>17 DEF HeapFreeHand, Thread, HoldsLoop
<1>18. ASSUME NEW c \in Cpus, HeapFillHand(c) PROVE OneMaintainer'
  BY <1>18 DEF HeapFillHand, Thread, HoldsLoop
<1>19. ASSUME NEW c \in Cpus, HeapFillFails(c) PROVE OneMaintainer'
  BY <1>19 DEF HeapFillFails, Thread, HoldsLoop
<1>20. ASSUME NEW c \in Cpus, DisableInterrupts(c) PROVE OneMaintainer'
  BY <1>20 DEF DisableInterrupts, Thread, HoldsLoop
<1>21. ASSUME NEW c \in Cpus, RelockReclaim(c) PROVE OneMaintainer'
  BY <1>21 DEF RelockReclaim, Thread, HoldsLoop
<1>22. ASSUME NEW c \in Cpus, RelockFill(c) PROVE OneMaintainer'
  BY <1>22 DEF RelockFill, Thread, HoldsLoop
<1>23. ASSUME NEW c \in Cpus, NextGroup(c) PROVE OneMaintainer'
  BY <1>23 DEF NextGroup, Thread, HoldsLoop
<1>24. ASSUME NEW c \in Cpus, MaintainEnd(c) PROVE OneMaintainer'
  BY <1>24 DEF MaintainEnd, Thread, HoldsLoop
<1>25. ASSUME NEW c \in Cpus, UnloadEnd(c) PROVE OneMaintainer'
  BY <1>25 DEF UnloadEnd, Thread, HoldsLoop
<1>26. ASSUME NEW c \in Cpus, Interrupt(c) PROVE OneMaintainer'
  BY <1>26 DEF Interrupt
<1>27. ASSUME NEW c \in Cpus, InterruptReturn(c) PROVE OneMaintainer'
  BY <1>27 DEF InterruptReturn, RmCode
<1>28. ASSUME NEW c \in Cpus, UnloadBegin(c) PROVE OneMaintainer'
  BY <1>28 DEF UnloadBegin, Quiet
<1>29. CASE UNCHANGED vars
  BY <1>29 DEF vars
<1> QED
  BY <1>1, <1>2, <1>3, <1>4, <1>5, <1>6, <1>7, <1>8, <1>9, <1>10, <1>11, <1>12, <1>13, <1>14, <1>15, <1>16, <1>17, <1>18, <1>19, <1>20, <1>21, <1>22, <1>23, <1>24, <1>25, <1>26, <1>27, <1>28, <1>29
     DEF Next, RmStep, CallStep, MaintainStep

\* Groups that only get shorter stay within their bounds.
LEMMA ShorterGroups ==
  ASSUME TypeOK, GroupBound, UNCHANGED <<pc, gi, phase>>,
         items' \in [Groups -> Seq(Blocks \cup {Null})],
         \A i \in Groups : Len(items'[i]) <= Len(items[i])
  PROVE  GroupBound'
<1>1. \A i \in Groups : Len(items[i]) \in Nat /\ Len(items'[i]) \in Nat
  BY LenProperties DEF TypeOK
<1>2. \A i \in Groups : Capacity(i) \in Nat
  BY ShapeAssumption DEF Capacity
<1>3. \A i \in Groups : Len(items'[i]) <= Capacity(i)
  BY <1>1, <1>2 DEF GroupBound
<1>4. \A c \in Cpus : (Maintaining(c) /\ pc[c] # "loop" /\ Filling(c)
                         => Len(items[gi[c]]) < GroupMax)
                    /\ (Maintaining(c)' <=> Maintaining(c))
                    /\ (Filling(c)' <=> Filling(c))
  BY DEF GroupBound, Maintaining, Filling, Reclaiming
<1>5. \A c \in Cpus : (Maintaining(c) /\ pc[c] # "loop" /\ Filling(c))'
                         => Len(items'[gi'[c]]) < GroupMax
  BY <1>1, <1>4, ShapeAssumption DEF TypeOK
<1> QED
  BY <1>3, <1>5 DEF GroupBound, Capacity

\* Groups keep within their arrays: the maintainer is the only one who fills
\* them, so the room it saw is there when it comes back with the block.
LEMMA BoundStep ==
  ASSUME TypeOK, PhaseState, OneMaintainer, LockState, GroupBound, [Next]_vars
  PROVE  GroupBound'
<1> USE ShapeAssumption
    DEF TypeOK, PhaseState, OneMaintainer, LockState, GroupBound, Maintaining,
        Filling, Reclaiming, Capacity, Reclaim, Groups,
        poolVars, cpuVars, maintVars, memVars, sysVars
<1>1. ASSUME NEW c \in Cpus, os_acquire_spinlock(c) PROVE GroupBound'
  BY <1>1 DEF os_acquire_spinlock, RmCode
<1>2. ASSUME NEW c \in Cpus, os_release_spinlock(c) PROVE GroupBound'
  BY <1>2 DEF os_release_spinlock, RmCode
<1>3. ASSUME NEW c \in Cpus, HeapAlloc(c) PROVE GroupBound'
  BY <1>3 DEF HeapAlloc
<1>4. ASSUME NEW c \in Cpus, HeapFree(c) PROVE GroupBound'
  BY <1>4 DEF HeapFree
<1>5. ASSUME NEW c \in Cpus, EnterAlloc(c) PROVE GroupBound'
  BY <1>5 DEF EnterAlloc
<1>6. ASSUME NEW c \in Cpus, EnterFree(c) PROVE GroupBound'
  BY <1>6 DEF EnterFree
<1>7. ASSUME NEW c \in Cpus, Alloc(c) PROVE GroupBound'
  <2>1. PICK S : items' = PopGroups(S)
    BY <1>7 DEF Alloc
  <2>2. /\ items' \in [Groups -> Seq(Blocks \cup {Null})]
        /\ \A i \in Groups : Len(items'[i]) <= Len(items[i])
    BY <2>1, PopGroupsProperties
  <2> QED
    BY <1>7, <2>2, ShorterGroups DEF Alloc
<1>8. ASSUME NEW c \in Cpus, AllocUnderflow(c) PROVE GroupBound'
  <2>1. /\ items' \in [Groups -> Seq(Blocks \cup {Null})]
        /\ \A i \in Groups : Len(items'[i]) <= Len(items[i])
    BY <1>8, PopGroupsProperties DEF AllocUnderflow
  <2> QED
    BY <1>8, <2>1, ShorterGroups DEF AllocUnderflow
<1>9. ASSUME NEW c \in Cpus, Free(c) PROVE GroupBound'
  BY <1>9 DEF Free
<1>10. ASSUME NEW c \in Cpus, FreeOverflow(c) PROVE GroupBound'
  BY <1>10 DEF FreeOverflow
<1>11. ASSUME NEW c \in Cpus, DisableForMaintain(c) PROVE GroupBound'
  BY <1>11 DEF DisableForMaintain, Thread, HoldsLoop
<1>12. ASSUME NEW c \in Cpus, MaintainBusy(c) PROVE GroupBound'
  BY <1>12 DEF MaintainBusy, Thread, HoldsLoop
<1>13. ASSUME NEW c \in Cpus, MaintainBegin(c) PROVE GroupBound'
  BY <1>13 DEF MaintainBegin, Thread, HoldsLoop
<1>14. ASSUME NEW c \in Cpus, ReclaimNext(c) PROVE GroupBound'
  <2>1. items[gi[c]] \in Seq(Blocks \cup {Null}) /\ items[gi[c]] # <<>>
    BY <1>14 DEF ReclaimNext
  <2>2. /\ Pop(items[gi[c]]) \in Seq(Blocks \cup {Null})
        /\ Len(items[gi[c]]) \in Nat \ {0}
        /\ Len(Pop(items[gi[c]])) = Len(items[gi[c]]) - 1
    BY ONLY <2>1, PopProperties
  <2>3. \A i \in Groups : Len(items'[i]) <= Capacity(i)
    BY <1>14, <2>2 DEF ReclaimNext
  <2>4. pc[c] = "loop" /\ Maintaining(c) /\ pc' = [pc EXCEPT ![c] = "unlocked"]
    BY <1>14 DEF ReclaimNext, HoldsLoop
  <2>5. \A d \in Cpus : Maintaining(d)' => d = c
    BY <2>4
  <2>6. gi' = gi /\ phase' = phase /\ Reclaiming(c)
    BY <1>14 DEF ReclaimNext
  <2> QED
    BY <2>3, <2>5, <2>6
<1>15. ASSUME NEW c \in Cpus, FillNext(c) PROVE GroupBound'
  BY <1>15 DEF FillNext, Thread, HoldsLoop
<1>16. ASSUME NEW c \in Cpus, EnableInterrupts(c) PROVE GroupBound'
  BY <1>16 DEF EnableInterrupts, Thread, HoldsLoop
<1>17. ASSUME NEW c \in Cpus, HeapFreeHand(c) PROVE GroupBound'
  BY <1>17 DEF HeapFreeHand, Thread, HoldsLoop
<1>18. ASSUME NEW c \in Cpus, HeapFillHand(c) PROVE GroupBound'
  BY <1>18 DEF HeapFillHand, Thread, HoldsLoop
<1>19. ASSUME NEW c \in Cpus, HeapFillFails(c) PROVE GroupBound'
  BY <1>19 DEF HeapFillFails, Thread, HoldsLoop
<1>20. ASSUME NEW c \in Cpus, DisableInterrupts(c) PROVE GroupBound'
  BY <1>20 DEF DisableInterrupts, Thread, HoldsLoop
<1>21. ASSUME NEW c \in Cpus, RelockReclaim(c) PROVE GroupBound'
  BY <1>21 DEF RelockReclaim, Thread, HoldsLoop
<1>22. ASSUME NEW c \in Cpus, RelockFill(c) PROVE GroupBound'
  BY <1>22 DEF RelockFill, Thread, HoldsLoop
<1>23. ASSUME NEW c \in Cpus, NextGroup(c) PROVE GroupBound'
  BY <1>23 DEF NextGroup, Thread, HoldsLoop
<1>24. ASSUME NEW c \in Cpus, MaintainEnd(c) PROVE GroupBound'
  BY <1>24 DEF MaintainEnd, Thread, HoldsLoop
<1>25. ASSUME NEW c \in Cpus, UnloadEnd(c) PROVE GroupBound'
  BY <1>25 DEF UnloadEnd, Thread, HoldsLoop
<1>26. ASSUME NEW c \in Cpus, Interrupt(c) PROVE GroupBound'
  BY <1>26 DEF Interrupt
<1>27. ASSUME NEW c \in Cpus, InterruptReturn(c) PROVE GroupBound'
  BY <1>27 DEF InterruptReturn, RmCode
<1>28. ASSUME NEW c \in Cpus, UnloadBegin(c) PROVE GroupBound'
  BY <1>28 DEF UnloadBegin, Quiet
<1>29. CASE UNCHANGED vars
  BY <1>29 DEF vars
<1> QED
  BY <1>1, <1>2, <1>3, <1>4, <1>5, <1>6, <1>7, <1>8, <1>9, <1>10, <1>11, <1>12, <1>13, <1>14, <1>15, <1>16, <1>17, <1>18, <1>19, <1>20, <1>21, <1>22, <1>23, <1>24, <1>25, <1>26, <1>27, <1>28, <1>29
     DEF Next, RmStep, CallStep, MaintainStep

-----------------------------------------------------------------------------
(* The inductive invariant and what follows from it.                       *)

\* At boot the pool is empty and one thread is about to enter Maintain().
LEMMA InitInv ==
  ASSUME Init
  PROVE  IInv
<1> USE DEF Init
<1>1. PICK boot \in Cpus :
        pc = [c \in Cpus |-> IF c = boot THEN "maintain" ELSE "run"]
  OBVIOUS
<1>2. TypeOK
  BY <1>1, ShapeAssumption, SizeAssumption DEF TypeOK, Groups, Reclaim, Stages
<1>3. CpuInv
  BY <1>1, NoCpuAssumption
     DEF CpuInv, IntrState, StackState, LockState, Interruptible
<1>4. PhaseState /\ OneMaintainer
  BY <1>1 DEF PhaseState, OneMaintainer, Maintaining
<1>5. GroupBound
  BY <1>1, ShapeAssumption DEF GroupBound, Maintaining, Capacity
<1> QED
  BY <1>2, <1>3, <1>4, <1>5 DEF IInv, MaintainInv

\* Every step, of whichever CPU, keeps the inductive invariant.
LEMMA StepInv ==
  ASSUME IInv, [Next]_vars
  PROVE  IInv'
BY TypeStep, CpuStep, PhaseStep, MaintainerStep, BoundStep
   DEF IInv, CpuInv, MaintainInv

\* The inductive invariant holds in every state of every behaviour.
THEOREM Invariance == Spec => []IInv
<1>1. Init => IInv
  BY InitInv
<1>2. IInv /\ [Next]_vars => IInv'
  BY StepInv
<1> QED
  BY <1>1, <1>2, PTL DEF Spec

\* The variables keep their types; fLevel never drops below zero.
THEOREM TypeCorrect == Spec => []TypeOK
<1>1. IInv => TypeOK
  BY DEF IInv
<1> QED
  BY <1>1, Invariance, PTL

\* One thread at a time is in the loops of Maintain(), and fLevel counts it.
THEOREM MaintainExclusive == Spec => []OneMaintainer
<1>1. IInv => OneMaintainer
  BY DEF IInv, MaintainInv
<1> QED
  BY <1>1, Invariance, PTL

\* No group is filled past its array, whatever the handlers take meanwhile.
THEOREM GroupsBounded == Spec => []GroupBound
<1>1. IInv => GroupBound
  BY DEF IInv, MaintainInv
<1> QED
  BY <1>1, Invariance, PTL

\* The holder of the pool's spinlock cannot be interrupted, so that no handler
\* spins on a lock that its own CPU holds.
THEOREM NoSelfDeadlock == Spec => []HolderUninterruptible
<1>1. IInv => HolderUninterruptible
  BY DEF IInv, CpuInv, LockState, IntrState, Interruptible, TypeOK,
         HolderUninterruptible
<1> QED
  BY <1>1, Invariance, PTL

\* Heap calls of Maintain() run with interrupts on and no spinlock held.
THEOREM HeapCallsSafe == Spec => []HeapCallsInterruptible
<1>1. ASSUME IInv PROVE HeapCallsInterruptible
  <2> SUFFICES ASSUME NEW c \in Cpus, pc[c] = "heap", ~isr[c]
               PROVE  intr[c] /\ lock # c /\ stack[c] = <<>>
    BY DEF HeapCallsInterruptible
  <2>1. stack[c] = <<>>
    BY <1>1 DEF IInv, CpuInv, StackState
  <2>2. intr[c]
    BY <1>1, <2>1 DEF IInv, CpuInv, IntrState, Interruptible
  <2>3. lock # c
    BY <1>1, <2>2 DEF IInv, CpuInv, LockState
  <2> QED
    BY <2>1, <2>2, <2>3
<1> QED
  BY <1>1, Invariance, PTL

-----------------------------------------------------------------------------
(* Where the blocks are.                                                   *)

\* One Free frees one block, an Alloc none.
LEMMA CallKinds ==
  /\ \A size, b : [op |-> "alloc", size |-> size] # [op |-> "free", block |-> b]
  /\ \A a, b : [op |-> "free", block |-> a] = [op |-> "free", block |-> b] => a = b
<1>1. \A size : [op |-> "alloc", size |-> size].op = "alloc"
  OBVIOUS
<1>2. \A b : [op |-> "free", block |-> b].op = "free"
  OBVIOUS
<1>3. \A b : [op |-> "free", block |-> b].block = b
  OBVIOUS
<1> QED
  BY <1>1, <1>2, <1>3

\* Block b is the k-th item of group i; CPU c is giving block b back.  These
\* take the value of the variable, so that they serve both ends of a step.
At(f, b, i, k) == k \in 1 .. Len(f[i]) /\ f[i][k] = b
Freed(q, b, c) == q[c] = [op |-> "free", block |-> b]

\* Block b is in one place if the heap gave it, and in none if not: the parts of
\* NoAlias without counting.
OwnedOnce(b, f, q, h, cp, w) ==
  /\ w[b] > 0 => cp[b] > 0
  /\ \A i \in Groups, k \in Nat : At(f, b, i, k) =>
       /\ cp[b] > 0 /\ ~(w[b] > 0)
       /\ \A j \in Groups, l \in Nat : At(f, b, j, l) => j = i /\ l = k
       /\ \A c \in Cpus : h[c] # b /\ ~Freed(q, b, c)
  /\ \A c \in Cpus : h[c] = b =>
       /\ cp[b] > 0 /\ ~(w[b] > 0)
       /\ \A d \in Cpus : h[d] = b => d = c
       /\ \A d \in Cpus : ~Freed(q, b, d)
  /\ \A c \in Cpus : Freed(q, b, c) =>
       /\ cp[b] > 0 /\ ~(w[b] > 0)
       /\ \A d \in Cpus : Freed(q, b, d) => d = c
  /\ cp[b] > 0 =>
       \/ w[b] > 0
       \/ \E i \in Groups, k \in Nat : At(f, b, i, k)
       \/ \E c \in Cpus : h[c] = b
       \/ \E c \in Cpus : Freed(q, b, c)

Owned == \A b \in Blocks : OwnedOnce(b, items, call, hand, cap, want)

\* The local ptr holds a block only between the pop and free(), or between
\* calloc() and the push: nothing is overwritten that is still needed.
HandState == \A c \in Cpus : hand[c] # Null =>
  \/ pc[c] \in {"unlocked", "heap"} /\ Reclaiming(c)
  \/ pc[c] \in {"heapdone", "relock"} /\ Filling(c)

\* A block that is where it was keeps its one place.
LEMMA StaysOwned ==
  ASSUME NEW b, NEW f, NEW g, NEW q, NEW r, NEW h, NEW j, NEW cp, NEW dp, NEW w, NEW v,
         OwnedOnce(b, f, q, h, cp, w),
         \A i \in Groups, k \in Nat : At(g, b, i, k) <=> At(f, b, i, k),
         \A c \in Cpus : j[c] = b <=> h[c] = b,
         \A c \in Cpus : Freed(r, b, c) <=> Freed(q, b, c),
         dp[b] > 0 <=> cp[b] > 0,
         v[b] > 0 <=> w[b] > 0
  PROVE  OwnedOnce(b, g, r, j, dp, v)
BY DEF OwnedOnce

\* Owned after a step, from the blocks one by one.
LEMMA OwnedAfter ==
  ASSUME \A b \in Blocks : OwnedOnce(b, items', call', hand', cap', want')
  PROVE  Owned'
BY DEF Owned, OwnedOnce, At, Freed

\* What a push does to the places of the groups.
LEMMA PushedAt ==
  ASSUME TypeOK, NEW g \in Groups, NEW x \in Blocks \cup {Null},
         items' = [items EXCEPT ![g] = Append(@, x)]
  PROVE  /\ Len(items[g]) + 1 \in Nat
         /\ \A b : \A i \in Groups, k \in Nat :
              At(items', b, i, k)
                <=> At(items, b, i, k) \/ (b = x /\ i = g /\ k = Len(items[g]) + 1)
<1>1. items[g] \in Seq(Blocks \cup {Null}) /\ Len(items[g]) \in Nat
  BY LenProperties DEF TypeOK
<1>2. /\ Len(Append(items[g], x)) = Len(items[g]) + 1
      /\ Append(items[g], x)[Len(items[g]) + 1] = x
      /\ \A k \in 1 .. Len(items[g]) : Append(items[g], x)[k] = items[g][k]
  BY <1>1
<1>3. ASSUME NEW b, NEW i \in Groups, NEW k \in Nat
      PROVE  At(items', b, i, k) <=> At(items, b, i, k) \/ (b = x /\ i = g /\ k = Len(items[g]) + 1)
  <2>1. CASE i = g
    <3>1. items'[i] = Append(items[g], x)
      BY <2>1 DEF TypeOK
    <3>2. CASE k = Len(items[g]) + 1
      BY <1>1, <1>2, <2>1, <3>1, <3>2 DEF At
    <3>3. CASE k # Len(items[g]) + 1
      <4>1. k \in 1 .. Len(items[g]) + 1 <=> k \in 1 .. Len(items[g])
        BY <1>1, <3>3
      <4> QED
        BY <1>2, <2>1, <3>1, <3>3, <4>1 DEF At
    <3> QED
      BY <3>2, <3>3
  <2>2. CASE i # g
    <3>1. items'[i] = items[i]
      BY <2>2 DEF TypeOK
    <3> QED
      BY <2>2, <3>1 DEF At
  <2> QED
    BY <2>1, <2>2
<1>4. \A b : \A i \in Groups, k \in Nat :
        At(items', b, i, k) <=> At(items, b, i, k) \/ (b = x /\ i = g /\ k = Len(items[g]) + 1)
  BY ONLY <1>3
<1>5. Len(items[g]) + 1 \in Nat
  BY <1>1
<1> QED
  BY ONLY <1>4, <1>5

\* What a pop does.
LEMMA PoppedAt ==
  ASSUME TypeOK, NEW g \in Groups, items[g] # <<>>,
         items' = [items EXCEPT ![g] = Pop(@)]
  PROVE  /\ Len(items[g]) \in Nat /\ At(items, Top(items[g]), g, Len(items[g]))
         /\ \A b : \A i \in Groups, k \in Nat :
              At(items', b, i, k) <=> At(items, b, i, k) /\ ~(i = g /\ k = Len(items[g]))
<1>1. /\ Len(items[g]) \in Nat \ {0}
      /\ Len(Pop(items[g])) = Len(items[g]) - 1
      /\ \A k \in 1 .. Len(items[g]) - 1 : Pop(items[g])[k] = items[g][k]
  <2>1. items[g] \in Seq(Blocks \cup {Null})
    BY DEF TypeOK
  <2> QED
    BY <2>1, PopProperties
<1>2. ASSUME NEW b, NEW i \in Groups, NEW k \in Nat
      PROVE  At(items', b, i, k) <=> At(items, b, i, k) /\ ~(i = g /\ k = Len(items[g]))
  <2>1. CASE i = g
    <3>1. items'[i] = Pop(items[g])
      BY <2>1 DEF TypeOK
    <3>2. k \in 1 .. Len(items[g]) - 1 <=> k \in 1 .. Len(items[g]) /\ k # Len(items[g])
      BY <1>1
    <3> QED
      BY <1>1, <2>1, <3>1, <3>2 DEF At
  <2>2. CASE i # g
    <3>1. items'[i] = items[i]
      BY <2>2 DEF TypeOK
    <3> QED
      BY <2>2, <3>1 DEF At
  <2> QED
    BY <2>1, <2>2
<1>3. At(items, Top(items[g]), g, Len(items[g]))
  BY <1>1 DEF At, Top
<1> QED
  BY <1>1, <1>2, <1>3

\* What PopGroups(S) does: the tops of the groups in S are gone.
LEMMA PopGroupsAt ==
  ASSUME TypeOK, NEW S
  PROVE  \A b : \A i \in Groups, k \in Nat :
           At(PopGroups(S), b, i, k) <=> At(items, b, i, k) /\ ~(i \in S /\ k = Len(items[i]))
<1> SUFFICES ASSUME NEW b, NEW i \in Groups, NEW k \in Nat
             PROVE  At(PopGroups(S), b, i, k)
                      <=> At(items, b, i, k) /\ ~(i \in S /\ k = Len(items[i]))
  OBVIOUS
<1>1. PopGroups(S)[i] = IF i \in S /\ items[i] # <<>> THEN Pop(items[i]) ELSE items[i]
  BY DEF PopGroups
<1>2. items[i] \in Seq(Blocks \cup {Null}) /\ Len(items[i]) \in Nat
  BY LenProperties DEF TypeOK
<1>3. CASE i \in S /\ items[i] # <<>>
  <2>1. /\ Len(items[i]) \in Nat \ {0}
        /\ Len(Pop(items[i])) = Len(items[i]) - 1
        /\ \A n \in 1 .. Len(items[i]) - 1 : Pop(items[i])[n] = items[i][n]
    BY <1>2, <1>3, PopProperties
  <2>2. k \in 1 .. Len(items[i]) - 1 <=> k \in 1 .. Len(items[i]) /\ k # Len(items[i])
    BY <2>1
  <2> QED
    BY <1>1, <1>3, <2>1, <2>2 DEF At
<1>4. CASE items[i] = <<>>
  <2>1. PopGroups(S)[i] = <<>> /\ Len(<<>>) = 0
    BY <1>1, <1>4
  <2> QED
    BY <1>4, <2>1 DEF At
<1>5. CASE i \notin S
  BY <1>1, <1>5 DEF At
<1> QED
  BY <1>3, <1>4, <1>5

-----------------------------------------------------------------------------
(* Each step moves at most one block.                                      *)

\* A step that leaves the groups, the hands, the sizes and the Frees alone.
LEMMA NothingMoves ==
  ASSUME Owned, UNCHANGED <<items, hand, cap, want>>,
         \A b \in Blocks, c \in Cpus : Freed(call', b, c) <=> Freed(call, b, c)
  PROVE  Owned'
<1>1. ASSUME NEW b \in Blocks PROVE OwnedOnce(b, items', call', hand', cap', want')
  BY StaysOwned DEF Owned
<1> QED
  BY <1>1, OwnedAfter

\* RM gives a block of its own to Free.
LEMMA EnterFreePlaces ==
  ASSUME TypeOK, NEW c \in Cpus, EnterFree(c)
  PROVE  \E x \in Blocks :
           /\ want[x] > 0 /\ ~(want'[x] > 0)
           /\ \A b \in Blocks \ {x} : want'[b] = want[b]
           /\ \A b \in Blocks, d \in Cpus :
                Freed(call', b, d) <=> Freed(call, b, d) \/ (b = x /\ d = c)
           /\ UNCHANGED <<items, hand, cap>>
<1> USE DEF poolVars, cpuVars, maintVars, memVars, sysVars
<1>1. PICK x \in Blocks :
        /\ want[x] > 0
        /\ want' = [want EXCEPT ![x] = 0]
        /\ call' = [call EXCEPT ![c] = [op |-> "free", block |-> x]]
  BY DEF EnterFree
<1>2. UNCHANGED <<items, hand, cap>> /\ call[c] = NoCall
  BY DEF EnterFree, RmCode
<1>3. ~(want'[x] > 0)
  BY <1>1 DEF TypeOK
<1>4. \A b \in Blocks, d \in Cpus :
        Freed(call', b, d) <=> Freed(call, b, d) \/ (b = x /\ d = c)
  <2>1. \A d \in Cpus \ {c} : call'[d] = call[d]
    BY <1>1 DEF TypeOK
  <2>2. call'[c] = [op |-> "free", block |-> x]
    BY <1>1 DEF TypeOK
  <2>3. \A b \in Blocks : Freed(call', b, c) <=> b = x
    BY <2>2, CallKinds DEF Freed
  <2>4. \A b \in Blocks : ~Freed(call, b, c)
    BY <1>2, CallsAreCalls DEF Freed, FreeCalls
  <2>5. \A b \in Blocks : \A d \in Cpus \ {c} : Freed(call', b, d) <=> Freed(call, b, d)
    BY <2>1 DEF Freed
  <2> TAKE b \in Blocks, d \in Cpus
  <2>6. CASE d = c
    BY <2>3, <2>4, <2>6
  <2>7. CASE d # c
    BY <2>5, <2>7
  <2> QED
    BY <2>6, <2>7
<1>5. \A b \in Blocks \ {x} : want'[b] = want[b]
  BY <1>1 DEF TypeOK
<1> QED
  BY <1>1, <1>2, <1>3, <1>4, <1>5

\* RM's heap calls and the start of a pool operation.
LEMMA RmStepOwned ==
  ASSUME TypeOK, Owned, NEW c \in Cpus, RmStep(c)
  PROVE  Owned'
<1> USE DEF poolVars, cpuVars, maintVars, memVars, sysVars
<1>1. ASSUME os_acquire_spinlock(c) PROVE Owned'
  BY <1>1, NothingMoves DEF os_acquire_spinlock
<1>2. ASSUME os_release_spinlock(c) PROVE Owned'
  BY <1>2, NothingMoves DEF os_release_spinlock
<1>3. ASSUME HeapAlloc(c) PROVE Owned'
  <2>1. PICK x \in Blocks, size \in Sizes :
          /\ cap[x] = 0
          /\ cap' = [cap EXCEPT ![x] = size]
          /\ want' = [want EXCEPT ![x] = size]
    BY <1>3 DEF HeapAlloc
  <2>2. UNCHANGED <<items, call, hand>>
    BY <1>3 DEF HeapAlloc
  <2>3. ~(cap[x] > 0) /\ cap'[x] > 0 /\ want'[x] > 0
    BY <2>1, SizeAssumption DEF TypeOK
  <2>4. OwnedOnce(x, items', call', hand', cap', want')
    BY <2>2, <2>3 DEF Owned, OwnedOnce
  <2>5. ASSUME NEW b \in Blocks, b # x
        PROVE  OwnedOnce(b, items', call', hand', cap', want')
    <3>1. cap'[b] = cap[b] /\ want'[b] = want[b]
      BY <2>1, <2>5 DEF TypeOK
    <3> QED
      BY <2>2, <3>1, StaysOwned DEF Owned
  <2> QED
    BY <2>4, <2>5, OwnedAfter
<1>4. ASSUME HeapFree(c) PROVE Owned'
  <2>1. PICK x \in Blocks :
          /\ want[x] > 0
          /\ cap' = [cap EXCEPT ![x] = 0]
          /\ want' = [want EXCEPT ![x] = 0]
    BY <1>4 DEF HeapFree
  <2>2. UNCHANGED <<items, call, hand>>
    BY <1>4 DEF HeapFree
  <2>3. ~(cap'[x] > 0) /\ ~(want'[x] > 0)
    BY <2>1 DEF TypeOK
  <2>4. OwnedOnce(x, items', call', hand', cap', want')
    BY <2>1, <2>2, <2>3 DEF Owned, OwnedOnce
  <2>5. ASSUME NEW b \in Blocks, b # x
        PROVE  OwnedOnce(b, items', call', hand', cap', want')
    <3>1. cap'[b] = cap[b] /\ want'[b] = want[b]
      BY <2>1, <2>5 DEF TypeOK
    <3> QED
      BY <2>2, <3>1, StaysOwned DEF Owned
  <2> QED
    BY <2>4, <2>5, OwnedAfter
<1>5. ASSUME EnterAlloc(c) PROVE Owned'
  <2>1. PICK size \in Sizes : call' = [call EXCEPT ![c] = [op |-> "alloc", size |-> size]]
    BY <1>5 DEF EnterAlloc
  <2>2. call[c] = NoCall
    BY <1>5 DEF EnterAlloc, RmCode
  <2>3. \A b \in Blocks, d \in Cpus : Freed(call', b, d) <=> Freed(call, b, d)
    BY <2>1, <2>2, CallsAreCalls, CallKinds DEF Freed, TypeOK
  <2> QED
    BY <1>5, <2>3, NothingMoves DEF EnterAlloc
<1>6. ASSUME EnterFree(c) PROVE Owned'
  <2>1. PICK x \in Blocks :
          /\ want[x] > 0 /\ ~(want'[x] > 0)
          /\ \A b \in Blocks \ {x} : want'[b] = want[b]
          /\ \A b \in Blocks, d \in Cpus :
               Freed(call', b, d) <=> Freed(call, b, d) \/ (b = x /\ d = c)
          /\ UNCHANGED <<items, hand, cap>>
    BY <1>6, EnterFreePlaces
  <2>2. OwnedOnce(x, items', call', hand', cap', want')
    <3>1. OwnedOnce(x, items, call, hand, cap, want)
      BY DEF Owned
    <3>2. /\ cap[x] > 0
          /\ \A i \in Groups, k \in Nat : ~At(items, x, i, k)
          /\ \A d \in Cpus : hand[d] # x /\ ~Freed(call, x, d)
      BY ONLY <2>1, <3>1 DEF OwnedOnce
    <3>3. \A d \in Cpus : Freed(call', x, d) <=> d = c
      BY <2>1, <3>2
    <3> QED
      BY ONLY <2>1, <3>2, <3>3, c \in Cpus DEF OwnedOnce
  <2>3. ASSUME NEW b \in Blocks, b # x
        PROVE  OwnedOnce(b, items', call', hand', cap', want')
    <3>1. \A d \in Cpus : Freed(call', b, d) <=> Freed(call, b, d)
      BY <2>1, <2>3
    <3> QED
      BY <2>1, <2>3, <3>1, StaysOwned DEF Owned
  <2> QED
    BY <2>2, <2>3, OwnedAfter
<1> QED
  BY <1>1, <1>2, <1>3, <1>4, <1>5, <1>6 DEF RmStep

\* Alloc takes one block off a group that fits; below it and on the smaller
\* fitting groups it drops nothing but nullptr.
LEMMA AllocPlaces ==
  ASSUME TypeOK, NEW c \in Cpus, Alloc(c)
  PROVE  \E x \in Blocks, i \in Groups \ {Reclaim}, n \in Nat :
           /\ At(items, x, i, n)
           /\ \A b \in Blocks : \A j \in Groups, k \in Nat :
                At(items', b, j, k) <=> At(items, b, j, k) /\ ~(j = i /\ k = n)
           /\ \A b \in Blocks, d \in Cpus : Freed(call', b, d) <=> Freed(call, b, d)
           /\ want'[x] > 0 /\ \A b \in Blocks \ {x} : want'[b] = want[b]
           /\ UNCHANGED <<hand, cap>>
<1> USE DEF poolVars, cpuVars, maintVars, memVars, sysVars
<1> DEFINE F == Fitting(call[c].size)
<1>1. PICK i \in F :
        /\ HasBlock(i)
        /\ \A j \in F : HasBlock(j) => i <= j
        /\ want' = [want EXCEPT ![Top(items[i])] = call[c].size]
        /\ items' = PopGroups({j \in F : j <= i})
  BY DEF Alloc
<1> DEFINE x == Top(items[i])
           n == Len(items[i])
<1>2. call' = [call EXCEPT ![c] = NoCall] /\ UNCHANGED <<hand, cap>>
  BY DEF Alloc
<1>3. F \subseteq Groups \ {Reclaim} /\ \A j \in F : j \in Int
  BY ShapeAssumption DEF Fitting, Groups
<1>4. call[c] \in AllocCalls /\ call[c].size \in Sizes /\ call[c].size > 0
  <2>1. call[c] \in AllocCalls
    BY DEF Alloc
  <2>2. call[c].size \in Sizes
    BY <2>1 DEF AllocCalls
  <2>3. \A size \in Sizes : size > 0
    BY SizeAssumption
  <2> QED
    BY ONLY <2>1, <2>2, <2>3
<1>5. x \in Blocks /\ n \in Nat /\ At(items, x, i, n)
  <2>1. items[i] \in Seq(Blocks \cup {Null}) /\ items[i] # <<>> /\ x # Null
    BY <1>1, <1>3 DEF TypeOK, HasBlock
  <2>2. Len(items[i]) \in Nat \ {0} /\ Top(items[i]) \in Blocks \cup {Null}
    BY <2>1, PopProperties
  <2> QED
    BY <2>1, <2>2 DEF At, Top
<1>6. \A b \in Blocks : \A j \in Groups, k \in Nat :
        At(items', b, j, k) <=> At(items, b, j, k) /\ ~(j = i /\ k = n)
  <2> SUFFICES ASSUME NEW b \in Blocks, NEW j \in Groups, NEW k \in Nat
               PROVE  At(items', b, j, k) <=> At(items, b, j, k) /\ ~(j = i /\ k = n)
    OBVIOUS
  <2>1. At(items', b, j, k)
          <=> At(items, b, j, k) /\ ~(j \in {m \in F : m <= i} /\ k = Len(items[j]))
    BY <1>1, PopGroupsAt
  <2>2. i \in {m \in F : m <= i}
    BY <1>3
  <2>3. ASSUME j \in F, j <= i, j # i, k = Len(items[j]), At(items, b, j, k)
        PROVE  FALSE
    <3>1. ~HasBlock(j)
      BY <1>1, <1>3, <2>3
    <3>2. items[j] # <<>>
      <4>1. Len(<<>>) = 0
        OBVIOUS
      <4> QED
        BY <2>3, <4>1 DEF At
    <3>3. Top(items[j]) = b
      BY <2>3 DEF At, Top
    <3>4. b # Null
      BY NullAssumption
    <3> QED
      BY ONLY <3>1, <3>2, <3>3, <3>4 DEF HasBlock
  <2> QED
    BY ONLY <2>1, <2>2, <2>3
<1>7. \A b \in Blocks, d \in Cpus : Freed(call', b, d) <=> Freed(call, b, d)
  <2>1. \A b \in Blocks : ~Freed(call, b, c)
    <3>1. call[c].op = "alloc"
      BY <1>4 DEF AllocCalls
    <3>2. \A b : [op |-> "free", block |-> b].op = "free"
      OBVIOUS
    <3>3. \A b \in Blocks : call[c] # [op |-> "free", block |-> b]
      BY <3>1, <3>2
    <3> QED
      BY ONLY <3>3 DEF Freed
  <2>2. \A b \in Blocks : ~Freed(call', b, c)
    <3>1. call'[c] = NoCall
      BY <1>2 DEF TypeOK
    <3>2. \A b \in Blocks : [op |-> "free", block |-> b] # NoCall
      BY ONLY CallsAreCalls
    <3> QED
      BY ONLY <3>1, <3>2 DEF Freed
  <2>3. \A d \in Cpus \ {c} : call'[d] = call[d]
    BY <1>2 DEF TypeOK
  <2> QED
    BY <2>1, <2>2, <2>3 DEF Freed
<1>8. want'[x] > 0
  BY <1>1, <1>4, <1>5 DEF TypeOK
<1>9. i \in Groups \ {Reclaim} /\ \A b \in Blocks \ {x} : want'[b] = want[b]
  BY <1>1, <1>3 DEF TypeOK
<1> HIDE DEF x, n, F
<1> QED
  <2>1. UNCHANGED <<hand, cap>>
    BY <1>2
  <2> x \in Blocks /\ n \in Nat /\ i \in Groups \ {Reclaim}
    BY <1>5, <1>9
  <2> WITNESS x \in Blocks, i \in Groups \ {Reclaim}, n \in Nat
  <2> QED
    BY <1>5, <1>6, <1>7, <1>8, <1>9, <2>1

\* An Alloc that fails drops nothing but nullptr.
LEMMA UnderflowPlaces ==
  ASSUME TypeOK, NEW c \in Cpus, AllocUnderflow(c)
  PROVE  /\ \A b \in Blocks : \A j \in Groups, k \in Nat :
              At(items', b, j, k) <=> At(items, b, j, k)
         /\ UNCHANGED <<call, hand, cap, want>>
<1> USE DEF poolVars, cpuVars, maintVars, memVars, sysVars
<1> DEFINE F == Fitting(call[c].size)
<1>1. \A i \in F : ~HasBlock(i)
  BY DEF AllocUnderflow
<1>2. items' = PopGroups(F) /\ UNCHANGED <<call, hand, cap, want>>
  BY DEF AllocUnderflow
<1>3. ASSUME NEW b \in Blocks, NEW j \in Groups, NEW k \in Nat
      PROVE  At(items', b, j, k) <=> At(items, b, j, k)
  <2>1. At(items', b, j, k) <=> At(items, b, j, k) /\ ~(j \in F /\ k = Len(items[j]))
    BY <1>2, PopGroupsAt
  <2>2. ASSUME j \in F, k = Len(items[j]), At(items, b, j, k)
        PROVE  FALSE
    <3>1. items[j] # <<>>
      <4>1. Len(<<>>) = 0
        OBVIOUS
      <4> QED
        BY <2>2, <4>1 DEF At
    <3>2. Top(items[j]) = b
      BY <2>2 DEF At, Top
    <3> QED
      BY <1>1, <2>2, <3>1, <3>2, NullAssumption DEF HasBlock
  <2> QED
    BY <2>1, <2>2
<1> QED
  BY <1>2, <1>3

\* Free puts its block on fReclaimGroup.
LEMMA FreePlaces ==
  ASSUME TypeOK, NEW c \in Cpus, Free(c)
  PROVE  \E x \in Blocks, n \in Nat :
           /\ \A b \in Blocks : \A i \in Groups, k \in Nat :
                At(items', b, i, k) <=> At(items, b, i, k) \/ (b = x /\ i = Reclaim /\ k = n)
           /\ Freed(call, x, c) /\ \A b \in Blocks : Freed(call, b, c) => b = x
           /\ \A b \in Blocks, d \in Cpus : Freed(call', b, d) <=> Freed(call, b, d) /\ d # c
           /\ UNCHANGED <<hand, cap, want>>
<1> USE DEF poolVars, cpuVars, maintVars, memVars, sysVars
<1>1. PICK x \in Blocks : call[c] = [op |-> "free", block |-> x]
  BY DEF Free, FreeCalls
<1>2. /\ items' = [items EXCEPT ![Reclaim] = Append(@, x)]
      /\ call' = [call EXCEPT ![c] = NoCall]
      /\ UNCHANGED <<hand, cap, want>>
  BY <1>1 DEF Free
<1> DEFINE n == Len(items[Reclaim]) + 1
<1>3. Reclaim \in Groups
  BY ShapeAssumption DEF Reclaim, Groups
<1>4. /\ n \in Nat
      /\ \A b : \A i \in Groups, k \in Nat :
           At(items', b, i, k) <=> At(items, b, i, k) \/ (b = x /\ i = Reclaim /\ k = n)
  <2>1. items \in [Groups -> Seq(Blocks \cup {Null})] /\ x \in Blocks \cup {Null}
    BY DEF TypeOK
  <2>2. items' = [items EXCEPT ![Reclaim] = Append(@, x)]
    BY <1>2
  <2> QED
    BY <1>3, <2>1, <2>2, PushedAt
<1>5. \A b \in Blocks, d \in Cpus : Freed(call', b, d) <=> Freed(call, b, d) /\ d # c
  <2>1. \A b \in Blocks : ~Freed(call', b, c)
    BY <1>2, CallsAreCalls DEF Freed, FreeCalls, TypeOK
  <2>2. \A d \in Cpus \ {c} : call'[d] = call[d]
    BY <1>2 DEF TypeOK
  <2> QED
    BY <2>1, <2>2 DEF Freed
<1>6. Freed(call, x, c) /\ \A b \in Blocks : Freed(call, b, c) => b = x
  BY <1>1, CallKinds DEF Freed
<1> HIDE DEF n
<1> QED
  BY <1>2, <1>4, <1>5, <1>6

\* A pool operation runs: Alloc takes the block off a group and skips the
\* nullptr it finds on top of others, Free puts a block on fReclaimGroup.
LEMMA CallStepOwned ==
  ASSUME TypeOK, Owned, NEW c \in Cpus, CallStep(c)
  PROVE  Owned'
<1> USE DEF poolVars, cpuVars, maintVars, memVars, sysVars
<1>1. ASSUME Alloc(c) PROVE Owned'
  <2>1. PICK x \in Blocks, i \in Groups \ {Reclaim}, n \in Nat :
          /\ At(items, x, i, n)
          /\ \A b \in Blocks : \A j \in Groups, k \in Nat :
               At(items', b, j, k) <=> At(items, b, j, k) /\ ~(j = i /\ k = n)
          /\ \A b \in Blocks, d \in Cpus : Freed(call', b, d) <=> Freed(call, b, d)
          /\ want'[x] > 0 /\ \A b \in Blocks \ {x} : want'[b] = want[b]
          /\ UNCHANGED <<hand, cap>>
    BY <1>1, AllocPlaces
  <2>2. OwnedOnce(x, items', call', hand', cap', want')
    <3>1. OwnedOnce(x, items, call, hand, cap, want)
      BY DEF Owned
    <3>2. /\ cap[x] > 0
          /\ \A j \in Groups, k \in Nat : At(items, x, j, k) => j = i /\ k = n
          /\ \A d \in Cpus : hand[d] # x /\ ~Freed(call, x, d)
      BY ONLY <2>1, <3>1, i \in Groups, n \in Nat DEF OwnedOnce
    <3>3. \A j \in Groups, k \in Nat : ~At(items', x, j, k)
      BY <2>1, <3>2
    <3>4. \A d \in Cpus : hand'[d] # x /\ ~Freed(call', x, d)
      BY <2>1, <3>2
    <3> QED
      BY ONLY <2>1, <3>2, <3>3, <3>4 DEF OwnedOnce
  <2>3. ASSUME NEW b \in Blocks, b # x
        PROVE  OwnedOnce(b, items', call', hand', cap', want')
    <3>1. OwnedOnce(b, items, call, hand, cap, want) /\ want'[b] = want[b]
      BY <2>1, <2>3 DEF Owned
    <3>2. ~At(items, b, i, n)
      BY ONLY <2>1, <2>3 DEF At
    <3>3. \A j \in Groups, k \in Nat : At(items', b, j, k) <=> At(items, b, j, k)
      BY <2>1, <3>2
    <3> QED
      BY <2>1, <3>1, <3>3, StaysOwned
  <2> QED
    BY <2>2, <2>3, OwnedAfter
<1>2. ASSUME AllocUnderflow(c) PROVE Owned'
  <2>1. ASSUME NEW b \in Blocks PROVE OwnedOnce(b, items', call', hand', cap', want')
    BY <1>2, UnderflowPlaces, StaysOwned DEF Owned
  <2> QED
    BY <2>1, OwnedAfter
<1>3. ASSUME Free(c) PROVE Owned'
  <2>1. PICK x \in Blocks, n \in Nat :
          /\ \A b \in Blocks : \A i \in Groups, k \in Nat :
               At(items', b, i, k) <=> At(items, b, i, k) \/ (b = x /\ i = Reclaim /\ k = n)
          /\ Freed(call, x, c) /\ \A b \in Blocks : Freed(call, b, c) => b = x
          /\ \A b \in Blocks, d \in Cpus : Freed(call', b, d) <=> Freed(call, b, d) /\ d # c
          /\ UNCHANGED <<hand, cap, want>>
    BY <1>3, FreePlaces
  <2>2. Reclaim \in Groups
    BY ShapeAssumption DEF Reclaim, Groups
  <2>3. OwnedOnce(x, items', call', hand', cap', want')
    <3>1. OwnedOnce(x, items, call, hand, cap, want)
      BY DEF Owned
    <3>2. /\ cap[x] > 0 /\ ~(want[x] > 0)
          /\ \A i \in Groups, k \in Nat : ~At(items, x, i, k)
          /\ \A d \in Cpus : hand[d] # x /\ (Freed(call, x, d) => d = c)
      BY ONLY <2>1, <3>1, c \in Cpus DEF OwnedOnce
    <3>3. \A i \in Groups, k \in Nat : At(items', x, i, k) <=> i = Reclaim /\ k = n
      BY <2>1, <3>2
    <3>4. \A d \in Cpus : hand'[d] # x /\ ~Freed(call', x, d)
      BY <2>1, <3>2
    <3> QED
      BY ONLY <2>1, <2>2, <3>2, <3>3, <3>4, n \in Nat DEF OwnedOnce
  <2>4. ASSUME NEW b \in Blocks, b # x
        PROVE  OwnedOnce(b, items', call', hand', cap', want')
    <3>1. \A i \in Groups, k \in Nat : At(items', b, i, k) <=> At(items, b, i, k)
      BY <2>1, <2>4
    <3>2. \A d \in Cpus : Freed(call', b, d) <=> Freed(call, b, d)
      BY <2>1, <2>4
    <3> QED
      BY <2>1, <3>1, <3>2, StaysOwned DEF Owned
  <2> QED
    BY <2>3, <2>4, OwnedAfter
<1>4. ASSUME FreeOverflow(c) PROVE Owned'
  BY <1>4, NothingMoves DEF FreeOverflow
<1> QED
  BY <1>1, <1>2, <1>3, <1>4 DEF CallStep

\* ReclaimAll() takes the top of its group into the empty local ptr.
LEMMA ReclaimPlaces ==
  ASSUME TypeOK, HandState, NEW c \in Cpus, ReclaimNext(c)
  PROVE  \E x : \E n \in Nat :
           /\ At(items, x, gi[c], n)
           /\ \A b \in Blocks : \A i \in Groups, k \in Nat :
                At(items', b, i, k) <=> At(items, b, i, k) /\ ~(i = gi[c] /\ k = n)
           /\ \A b \in Blocks, d \in Cpus : hand'[d] = b <=> (d = c /\ b = x) \/ hand[d] = b
           /\ UNCHANGED <<call, gi, cap, want>>
<1> USE DEF poolVars, cpuVars, maintVars, memVars, sysVars
<1> DEFINE g == gi[c]
           x == Top(items[g])
           n == Len(items[g])
<1>1. /\ items[g] # <<>>
      /\ items' = [items EXCEPT ![g] = Pop(@)]
      /\ hand' = [hand EXCEPT ![c] = x]
      /\ UNCHANGED <<call, cap, want>>
  BY DEF ReclaimNext
<1>2. hand[c] = Null /\ g \in Groups
  BY DEF ReclaimNext, HoldsLoop, HandState, TypeOK
<1>3. /\ n \in Nat /\ At(items, x, g, n)
      /\ \A b : \A i \in Groups, k \in Nat :
           At(items', b, i, k) <=> At(items, b, i, k) /\ ~(i = g /\ k = n)
  BY <1>1, <1>2, PoppedAt
<1>4. \A b \in Blocks, d \in Cpus : hand'[d] = b <=> (d = c /\ b = x) \/ hand[d] = b
  BY <1>1, <1>2, NullAssumption DEF TypeOK
<1>5. UNCHANGED <<call, gi, cap, want>>
  BY DEF ReclaimNext
<1> QED
  BY <1>3, <1>4, <1>5

\* Maintain() pushes its local ptr on the group it fills.
LEMMA RelockPlaces ==
  ASSUME TypeOK, NEW c \in Cpus, RelockFill(c)
  PROVE  \E n \in Nat :
           /\ \A b \in Blocks : \A i \in Groups, k \in Nat :
                At(items', b, i, k)
                  <=> At(items, b, i, k) \/ (b = hand[c] /\ i = gi[c] /\ k = n)
           /\ \A b \in Blocks, d \in Cpus : hand'[d] = b <=> hand[d] = b /\ d # c
           /\ UNCHANGED <<call, gi, cap, want>>
<1> USE DEF poolVars, cpuVars, maintVars, memVars, sysVars
<1> DEFINE g == gi[c]
           x == hand[c]
           n == Len(items[g]) + 1
<1>1. /\ items' = [items EXCEPT ![g] = Append(@, x)]
      /\ hand' = [hand EXCEPT ![c] = Null]
      /\ UNCHANGED <<call, cap, want>>
  BY DEF RelockFill
<1>2. g \in Groups /\ x \in Blocks \cup {Null}
  BY DEF TypeOK
<1>3. /\ n \in Nat
      /\ \A b : \A i \in Groups, k \in Nat :
           At(items', b, i, k) <=> At(items, b, i, k) \/ (b = x /\ i = g /\ k = n)
  BY <1>1, <1>2, PushedAt
<1>4. \A b \in Blocks, d \in Cpus : hand'[d] = b <=> hand[d] = b /\ d # c
  BY <1>1, NullAssumption DEF TypeOK
<1>5. UNCHANGED <<call, gi, cap, want>>
  BY DEF RelockFill
<1> QED
  BY <1>3, <1>4, <1>5

\* Maintain() and ReclaimAll() carry one block between a group and the heap in
\* their local ptr.
LEMMA MaintainStepOwned ==
  ASSUME TypeOK, Owned, HandState, NEW c \in Cpus, MaintainStep(c)
  PROVE  Owned'
<1> USE DEF poolVars, cpuVars, maintVars, memVars, sysVars
<1>1. CASE \/ DisableForMaintain(c) \/ MaintainBusy(c) \/ MaintainBegin(c)
           \/ FillNext(c) \/ EnableInterrupts(c) \/ DisableInterrupts(c)
           \/ RelockReclaim(c) \/ NextGroup(c) \/ MaintainEnd(c) \/ UnloadEnd(c)
  <2>1. UNCHANGED <<items, call, hand, cap, want>>
    BY <1>1 DEF DisableForMaintain, MaintainBusy, MaintainBegin, FillNext,
         EnableInterrupts, DisableInterrupts, RelockReclaim, NextGroup, MaintainEnd, UnloadEnd
  <2> QED
    BY <2>1, NothingMoves
<1>2. ASSUME ReclaimNext(c) PROVE Owned'
  <2>1. PICK x : \E n \in Nat :
          /\ At(items, x, gi[c], n)
          /\ \A b \in Blocks : \A i \in Groups, k \in Nat :
               At(items', b, i, k) <=> At(items, b, i, k) /\ ~(i = gi[c] /\ k = n)
          /\ \A b \in Blocks, d \in Cpus : hand'[d] = b <=> (d = c /\ b = x) \/ hand[d] = b
          /\ UNCHANGED <<call, gi, cap, want>>
    BY <1>2, ReclaimPlaces
  <2>2. PICK n \in Nat :
          /\ At(items, x, gi[c], n)
          /\ \A b \in Blocks : \A i \in Groups, k \in Nat :
               At(items', b, i, k) <=> At(items, b, i, k) /\ ~(i = gi[c] /\ k = n)
          /\ \A b \in Blocks, d \in Cpus : hand'[d] = b <=> (d = c /\ b = x) \/ hand[d] = b
          /\ UNCHANGED <<call, gi, cap, want>>
    BY <2>1
  <2>3. gi[c] \in Groups
    BY DEF TypeOK
  <2>4. ASSUME x \in Blocks PROVE OwnedOnce(x, items', call', hand', cap', want')
    <3>1. OwnedOnce(x, items, call, hand, cap, want)
      BY <2>4 DEF Owned
    <3>2. /\ cap[x] > 0 /\ ~(want[x] > 0)
          /\ \A i \in Groups, k \in Nat : At(items, x, i, k) => i = gi[c] /\ k = n
          /\ \A d \in Cpus : hand[d] # x /\ ~Freed(call, x, d)
      BY ONLY <2>2, <2>3, <3>1, n \in Nat DEF OwnedOnce
    <3>3. \A i \in Groups, k \in Nat : ~At(items', x, i, k)
      BY <2>2, <2>4, <3>2
    <3>4. \A d \in Cpus : hand'[d] = x <=> d = c
      BY <2>2, <2>4, <3>2
    <3> QED
      BY ONLY <2>2, <3>2, <3>3, <3>4, c \in Cpus DEF OwnedOnce
  <2>5. ASSUME NEW b \in Blocks, b # x
        PROVE  OwnedOnce(b, items', call', hand', cap', want')
    <3>1. ~At(items, b, gi[c], n)
      BY ONLY <2>2, <2>5 DEF At
    <3>2. \A i \in Groups, k \in Nat : At(items', b, i, k) <=> At(items, b, i, k)
      BY <2>2, <3>1
    <3>3. \A d \in Cpus : hand'[d] = b <=> hand[d] = b
      BY <2>2, <2>5
    <3> QED
      BY <2>2, <3>2, <3>3, StaysOwned DEF Owned
  <2> QED
    BY <2>4, <2>5, OwnedAfter
<1>3. ASSUME HeapFreeHand(c) PROVE Owned'
  <2> DEFINE x == hand[c]
  <2>1. /\ cap' = [b \in Blocks |-> IF b = x THEN 0 ELSE cap[b]]
        /\ hand' = [hand EXCEPT ![c] = Null]
        /\ UNCHANGED <<items, call, want>>
    BY <1>3 DEF HeapFreeHand
  <2>2. \A b \in Blocks, d \in Cpus : hand'[d] = b <=> hand[d] = b /\ d # c
    BY <2>1, NullAssumption DEF TypeOK
  <2>3. /\ x \in Blocks => ~(cap'[x] > 0)
        /\ \A b \in Blocks \ {x} : cap'[b] = cap[b]
    BY <2>1
  <2>4. ASSUME x \in Blocks PROVE OwnedOnce(x, items', call', hand', cap', want')
    <3>1. OwnedOnce(x, items, call, hand, cap, want)
      BY <2>4 DEF Owned
    <3>2. /\ ~(want[x] > 0)
          /\ \A d \in Cpus : hand[d] = x => d = c
          /\ \A i \in Groups, k \in Nat : ~At(items, x, i, k)
          /\ \A d \in Cpus : ~Freed(call, x, d)
      BY ONLY <3>1, c \in Cpus DEF OwnedOnce
    <3>3. \A d \in Cpus : hand'[d] # x
      BY <2>2, <2>4, <3>2
    <3> QED
      BY ONLY <2>1, <2>3, <2>4, <3>2, <3>3 DEF OwnedOnce
  <2>5. ASSUME NEW b \in Blocks, b # x
        PROVE  OwnedOnce(b, items', call', hand', cap', want')
    <3>1. \A d \in Cpus : hand'[d] = b <=> hand[d] = b
      BY <2>2, <2>5
    <3>2. OwnedOnce(b, items, call, hand, cap, want)
      BY <2>5 DEF Owned
    <3>3. cap'[b] = cap[b] /\ want'[b] = want[b]
      BY <2>1, <2>3, <2>5
    <3> QED
      BY ONLY <2>1, <3>1, <3>2, <3>3, b \in Blocks DEF OwnedOnce
  <2> QED
    BY <2>4, <2>5, OwnedAfter
<1>4. ASSUME HeapFillHand(c) PROVE Owned'
  <2>1. PICK x \in Blocks :
          /\ cap[x] = 0
          /\ cap' = [cap EXCEPT ![x] = ItemSize(gi[c])]
          /\ hand' = [hand EXCEPT ![c] = x]
    BY <1>4 DEF HeapFillHand
  <2>2. hand[c] = Null /\ UNCHANGED <<items, call, want>>
    BY <1>4 DEF HeapFillHand, HandState, Filling
  <2>3. ItemSize(gi[c]) > 0
    BY <1>4, ItemSizeAssumption DEF HeapFillHand, Filling, Reclaiming, TypeOK
  <2>4. ~(cap[x] > 0) /\ cap'[x] > 0 /\ \A b \in Blocks \ {x} : cap'[b] = cap[b]
    BY <2>1, <2>3 DEF TypeOK
  <2>5. \A b \in Blocks, d \in Cpus : hand'[d] = b <=> (d = c /\ b = x) \/ hand[d] = b
    BY <2>1, <2>2, NullAssumption DEF TypeOK
  <2>6. OwnedOnce(x, items', call', hand', cap', want')
    <3>1. OwnedOnce(x, items, call, hand, cap, want)
      BY DEF Owned
    <3>2. /\ ~(want[x] > 0)
          /\ \A d \in Cpus : hand[d] # x
          /\ \A i \in Groups, k \in Nat : ~At(items, x, i, k)
          /\ \A d \in Cpus : ~Freed(call, x, d)
      BY ONLY <2>4, <3>1 DEF OwnedOnce
    <3>3. \A d \in Cpus : hand'[d] = x <=> d = c
      BY <2>5, <3>2
    <3> QED
      BY ONLY <2>2, <2>4, <3>2, <3>3, c \in Cpus DEF OwnedOnce
  <2>7. ASSUME NEW b \in Blocks, b # x
        PROVE  OwnedOnce(b, items', call', hand', cap', want')
    <3>1. \A d \in Cpus : hand'[d] = b <=> hand[d] = b
      BY <2>5, <2>7
    <3> QED
      BY <2>2, <2>4, <2>7, <3>1, StaysOwned DEF Owned
  <2> QED
    BY <2>6, <2>7, OwnedAfter
<1>5. ASSUME HeapFillFails(c) PROVE Owned'
  <2>1. hand[c] = Null
    BY <1>5 DEF HeapFillFails, HandState, Filling
  <2>2. hand' = hand
    BY <1>5, <2>1 DEF HeapFillFails, TypeOK
  <2> QED
    BY <1>5, <2>2, NothingMoves DEF HeapFillFails
<1>6. ASSUME RelockFill(c) PROVE Owned'
  <2> DEFINE x == hand[c]
  <2>1. PICK n \in Nat :
          /\ \A b \in Blocks : \A i \in Groups, k \in Nat :
               At(items', b, i, k)
                 <=> At(items, b, i, k) \/ (b = hand[c] /\ i = gi[c] /\ k = n)
          /\ \A b \in Blocks, d \in Cpus : hand'[d] = b <=> hand[d] = b /\ d # c
          /\ UNCHANGED <<call, gi, cap, want>>
    BY <1>6, RelockPlaces
  <2>2. gi[c] \in Groups
    BY DEF TypeOK
  <2>3. ASSUME x \in Blocks PROVE OwnedOnce(x, items', call', hand', cap', want')
    <3>1. OwnedOnce(x, items, call, hand, cap, want)
      BY <2>3 DEF Owned
    <3>2. /\ cap[x] > 0 /\ ~(want[x] > 0)
          /\ \A d \in Cpus : hand[d] = x => d = c
          /\ \A i \in Groups, k \in Nat : ~At(items, x, i, k)
          /\ \A d \in Cpus : ~Freed(call, x, d)
      BY ONLY <3>1, c \in Cpus DEF OwnedOnce
    <3>3. \A i \in Groups, k \in Nat : At(items', x, i, k) <=> i = gi[c] /\ k = n
      BY <2>1, <2>3, <3>2
    <3>4. \A d \in Cpus : hand'[d] # x
      BY <2>1, <2>3, <3>2
    <3> QED
      BY ONLY <2>1, <2>2, <3>2, <3>3, <3>4, n \in Nat DEF OwnedOnce
  <2>4. ASSUME NEW b \in Blocks, b # x
        PROVE  OwnedOnce(b, items', call', hand', cap', want')
    <3>1. \A i \in Groups, k \in Nat : At(items', b, i, k) <=> At(items, b, i, k)
      BY <2>1, <2>4
    <3>2. \A d \in Cpus : hand'[d] = b <=> hand[d] = b
      BY <2>1, <2>4
    <3> QED
      BY <2>1, <3>1, <3>2, StaysOwned DEF Owned
  <2> QED
    BY <2>3, <2>4, OwnedAfter
<1> QED
  BY <1>1, <1>2, <1>3, <1>4, <1>5, <1>6 DEF MaintainStep

\* Whoever moves it, a block is in one place.
LEMMA OwnedStep ==
  ASSUME TypeOK, Owned, HandState, [Next]_vars
  PROVE  Owned'
<1> USE DEF poolVars, cpuVars, maintVars, memVars, sysVars
<1>1. ASSUME NEW c \in Cpus, Interrupt(c) \/ InterruptReturn(c) \/ UnloadBegin(c)
      PROVE  Owned'
  <2>1. UNCHANGED <<items, call, hand, cap, want>>
    BY <1>1 DEF Interrupt, InterruptReturn, UnloadBegin
  <2> QED
    BY <2>1, NothingMoves
<1>2. ASSUME UNCHANGED vars PROVE Owned'
  BY <1>2, NothingMoves DEF vars
<1> QED
  BY <1>1, <1>2, RmStepOwned, CallStepOwned, MaintainStepOwned DEF Next

\* The local ptr is only written when it holds nothing that is needed.
LEMMA HandStep ==
  ASSUME TypeOK, PhaseState, OneMaintainer, StackState, HandState, [Next]_vars
  PROVE  HandState'
<1> USE DEF TypeOK, PhaseState, OneMaintainer, StackState, HandState, Maintaining,
        Interruptible, Filling, Reclaiming, poolVars, cpuVars, maintVars, memVars, sysVars
<1>1. ASSUME NEW c \in Cpus, RmStep(c) PROVE HandState'
  <2>1. CASE \/ os_acquire_spinlock(c) \/ HeapAlloc(c) \/ HeapFree(c)
             \/ EnterAlloc(c) \/ EnterFree(c)
    BY <2>1 DEF os_acquire_spinlock, HeapAlloc, HeapFree, EnterAlloc, EnterFree
  <2>2. CASE os_release_spinlock(c)
    <3>1. stack[c] \in Seq(BOOLEAN) /\ stack[c] # <<>>
      BY <2>2 DEF os_release_spinlock
    <3>2. Len(stack[c]) \in Nat \ {0}
      BY ONLY <3>1, PopProperties
    <3>3. Top(stack[c]) => ~isr[c]
      BY <3>2 DEF Top
    <3>4. Top(stack[c]) => pc[c] = "run"
      BY <2>2, <3>3 DEF os_release_spinlock, RmCode
    <3> QED
      BY <2>2, <3>4 DEF os_release_spinlock
  <2> QED
    BY <1>1, <2>1, <2>2 DEF RmStep
<1>2. ASSUME NEW c \in Cpus, CallStep(c) PROVE HandState'
  BY <1>2 DEF CallStep, Alloc, AllocUnderflow, Free, FreeOverflow
<1>3. ASSUME NEW c \in Cpus, DisableForMaintain(c) PROVE HandState'
  BY <1>3 DEF DisableForMaintain, Thread, HoldsLoop
<1>4. ASSUME NEW c \in Cpus, MaintainBusy(c) PROVE HandState'
  BY <1>4 DEF MaintainBusy, Thread, HoldsLoop
<1>5. ASSUME NEW c \in Cpus, MaintainBegin(c) PROVE HandState'
  BY <1>5 DEF MaintainBegin, Thread, HoldsLoop
<1>6. ASSUME NEW c \in Cpus, ReclaimNext(c) PROVE HandState'
  BY <1>6 DEF ReclaimNext, Thread, HoldsLoop
<1>7. ASSUME NEW c \in Cpus, FillNext(c) PROVE HandState'
  BY <1>7 DEF FillNext, Thread, HoldsLoop
<1>8. ASSUME NEW c \in Cpus, EnableInterrupts(c) PROVE HandState'
  BY <1>8 DEF EnableInterrupts, Thread, HoldsLoop
<1>9. ASSUME NEW c \in Cpus, HeapFreeHand(c) PROVE HandState'
  BY <1>9 DEF HeapFreeHand, Thread, HoldsLoop
<1>10. ASSUME NEW c \in Cpus, HeapFillHand(c) PROVE HandState'
  BY <1>10 DEF HeapFillHand, Thread, HoldsLoop
<1>11. ASSUME NEW c \in Cpus, HeapFillFails(c) PROVE HandState'
  BY <1>11 DEF HeapFillFails, Thread, HoldsLoop
<1>12. ASSUME NEW c \in Cpus, DisableInterrupts(c) PROVE HandState'
  BY <1>12 DEF DisableInterrupts, Thread, HoldsLoop
<1>13. ASSUME NEW c \in Cpus, RelockReclaim(c) PROVE HandState'
  BY <1>13 DEF RelockReclaim, Thread, HoldsLoop
<1>14. ASSUME NEW c \in Cpus, RelockFill(c) PROVE HandState'
  BY <1>14 DEF RelockFill, Thread, HoldsLoop
<1>15. ASSUME NEW c \in Cpus, NextGroup(c) PROVE HandState'
  BY <1>15 DEF NextGroup, Thread, HoldsLoop
<1>16. ASSUME NEW c \in Cpus, MaintainEnd(c) PROVE HandState'
  BY <1>16 DEF MaintainEnd, Thread, HoldsLoop
<1>17. ASSUME NEW c \in Cpus, UnloadEnd(c) PROVE HandState'
  BY <1>17 DEF UnloadEnd, Thread, HoldsLoop
<1>18. ASSUME NEW c \in Cpus, Interrupt(c) \/ InterruptReturn(c) PROVE HandState'
  BY <1>18 DEF Interrupt, InterruptReturn
<1>19. ASSUME NEW c \in Cpus, UnloadBegin(c) PROVE HandState'
  BY <1>19 DEF UnloadBegin, Quiet
<1>20. CASE UNCHANGED vars
  BY <1>20 DEF vars
<1> QED
  BY <1>1, <1>2, <1>3, <1>4, <1>5, <1>6, <1>7, <1>8, <1>9, <1>10, <1>11, <1>12, <1>13,
     <1>14, <1>15, <1>16, <1>17, <1>18, <1>19, <1>20 DEF Next, MaintainStep

-----------------------------------------------------------------------------
(* The teardown.                                                           *)

\* Once RM is shut down nobody starts a pool operation; ReclaimAll() leaves the
\* groups behind it empty.
UnloadState ==
  /\ phase \in {"unload", "down"} => \A c \in Cpus : call[c] = NoCall
  /\ phase = "unload" =>
       \A c \in Cpus : Maintaining(c) => \A i \in Groups : i < gi[c] => items[i] = <<>>
  /\ phase = "down" => \A i \in Groups : items[i] = <<>>

\* ReclaimAll() only moves on from a group it emptied, and nobody fills one.
LEMMA UnloadStep ==
  ASSUME TypeOK, PhaseState, OneMaintainer, UnloadState, [Next]_vars
  PROVE  UnloadState'
<1> USE DEF TypeOK, PhaseState, OneMaintainer, UnloadState, Maintaining,
        Filling, Reclaiming, poolVars, cpuVars, maintVars, memVars, sysVars
<1>1. ASSUME NEW c \in Cpus, RmStep(c) PROVE UnloadState'
  BY <1>1 DEF RmStep, RmCode, os_acquire_spinlock, os_release_spinlock, HeapAlloc,
       HeapFree, EnterAlloc, EnterFree
<1>2. ASSUME NEW c \in Cpus, CallStep(c) PROVE UnloadState'
  <2>1. call[c] # NoCall
    BY <1>2, CallsAreCalls DEF CallStep, Alloc, AllocUnderflow, Free, FreeOverflow
  <2> QED
    BY <1>2, <2>1 DEF CallStep, Alloc, AllocUnderflow, Free, FreeOverflow
<1>3. ASSUME NEW c \in Cpus,
             \/ DisableForMaintain(c) \/ MaintainBusy(c) \/ MaintainBegin(c)
             \/ MaintainEnd(c)
      PROVE  UnloadState'
  BY <1>3 DEF DisableForMaintain, MaintainBusy, MaintainBegin, MaintainEnd, Thread, HoldsLoop
<1>4. ASSUME NEW c \in Cpus,
             \/ FillNext(c) \/ EnableInterrupts(c) \/ HeapFreeHand(c) \/ HeapFillHand(c)
             \/ HeapFillFails(c) \/ DisableInterrupts(c) \/ RelockReclaim(c)
      PROVE  UnloadState'
  BY <1>4 DEF FillNext, EnableInterrupts, HeapFreeHand, HeapFillHand, HeapFillFails,
       DisableInterrupts, RelockReclaim, Thread, HoldsLoop
<1>5. ASSUME NEW c \in Cpus, ReclaimNext(c) PROVE UnloadState'
  <2>1. /\ Maintaining(c) /\ pc' = [pc EXCEPT ![c] = "unlocked"]
        /\ items' = [items EXCEPT ![gi[c]] = Pop(@)]
        /\ UNCHANGED <<gi, phase, call>>
    BY <1>5 DEF ReclaimNext, HoldsLoop
  <2>2. phase # "down"
    BY <1>5 DEF ReclaimNext, HoldsLoop
  <2>3. \A d \in Cpus : Maintaining(d)' => d = c
    BY <2>1
  <2>4. \A i \in Groups : i < gi[c] => items'[i] = items[i]
    BY <2>1, ShapeAssumption DEF Groups
  <2> QED
    BY <2>1, <2>2, <2>3, <2>4
<1>6. ASSUME NEW c \in Cpus, RelockFill(c) PROVE UnloadState'
  BY <1>6 DEF RelockFill, Thread, HoldsLoop
<1>7. ASSUME NEW c \in Cpus, NextGroup(c) PROVE UnloadState'
  <2>1. /\ Maintaining(c) /\ gi' = [gi EXCEPT ![c] = @ + 1]
        /\ UNCHANGED <<items, pc, phase, call>>
    BY <1>7 DEF NextGroup, HoldsLoop
  <2>2. phase = "unload" => items[gi[c]] = <<>>
    BY <1>7 DEF NextGroup, GroupDone
  <2>3. \A i \in Groups : i < gi[c] + 1 => i < gi[c] \/ i = gi[c]
    BY ShapeAssumption DEF Groups
  <2>4. \A d \in Cpus : Maintaining(d)' => d = c
    BY <2>1
  <2>5. phase # "down"
    BY <2>1
  <2> QED
    BY <2>1, <2>2, <2>3, <2>4, <2>5
<1>8. ASSUME NEW c \in Cpus, UnloadEnd(c) PROVE UnloadState'
  <2>1. Maintaining(c) /\ items[GroupCount] = <<>> /\ gi[c] = GroupCount
    BY <1>8 DEF UnloadEnd, HoldsLoop, GroupDone
  <2>2. \A i \in Groups : i < GroupCount \/ i = GroupCount
    BY ShapeAssumption DEF Groups
  <2> QED
    BY <1>8, <2>1, <2>2 DEF UnloadEnd
<1>9. ASSUME NEW c \in Cpus, Interrupt(c) \/ InterruptReturn(c) PROVE UnloadState'
  BY <1>9 DEF Interrupt, InterruptReturn
<1>10. ASSUME NEW c \in Cpus, UnloadBegin(c) PROVE UnloadState'
  <2>1. \A i \in Groups : ~(i < Reclaim)
    BY ShapeAssumption DEF Groups, Reclaim
  <2>2. \A d \in Cpus : pc[d] = "run" /\ call[d] = NoCall
    BY <1>10 DEF UnloadBegin, Quiet
  <2> QED
    BY <1>10, <2>1, <2>2 DEF UnloadBegin
<1>11. CASE UNCHANGED vars
  BY <1>11 DEF vars
<1> QED
  BY <1>1, <1>2, <1>3, <1>4, <1>5, <1>6, <1>7, <1>8, <1>9, <1>10, <1>11
     DEF Next, MaintainStep

-----------------------------------------------------------------------------
(* Sizes.                                                                  *)

\* A stocked block has the size of its group, and so has the block that
\* calloc() gave for it.
StockSize == \A b \in Blocks, i \in Groups \ {Reclaim}, k \in Nat :
  At(items, b, i, k) => cap[b] = ItemSize(i)

HandSize == \A c \in Cpus :
  pc[c] \in {"heapdone", "relock"} /\ hand[c] # Null /\ Filling(c)
    => cap[hand[c]] = ItemSize(gi[c])

SizeState == StockSize /\ HandSize /\ BlockFits

\* What Owned says of a block in a group and of a block in a hand.
LEMMA OwnedFacts ==
  ASSUME Owned
  PROVE  /\ \A b \in Blocks : want[b] > 0 => cap[b] > 0
         /\ \A b \in Blocks, i \in Groups, k \in Nat : At(items, b, i, k) =>
              cap[b] > 0 /\ ~(want[b] > 0) /\ \A c \in Cpus : hand[c] # b
         /\ \A b \in Blocks, c \in Cpus : hand[c] = b =>
              cap[b] > 0 /\ ~(want[b] > 0) /\ \A d \in Cpus : hand[d] = b => d = c
BY DEF Owned, OwnedOnce

\* Blocks that stay in their group and keep their size.
LEMMA StockKept ==
  ASSUME StockSize,
         \A b \in Blocks, i \in Groups \ {Reclaim}, k \in Nat :
           At(items', b, i, k) => At(items, b, i, k) /\ cap'[b] = cap[b]
  PROVE  StockSize'
<1>1. \A b \in Blocks, i \in Groups \ {Reclaim}, k \in Nat :
        At(items', b, i, k) => cap'[b] = ItemSize(i)
  BY DEF StockSize
<1> QED
  BY <1>1 DEF StockSize, At

\* A block is stocked with the size Maintain() asked the heap for, and keeps it.
LEMMA StockStep ==
  ASSUME TypeOK, Owned, StockSize, HandSize, [Next]_vars
  PROVE  StockSize'
<1> USE DEF poolVars, cpuVars, maintVars, memVars, sysVars
<1>1. CASE items' = items
  <2>1. SUFFICES ASSUME NEW b \in Blocks, NEW i \in Groups, NEW k \in Nat,
                        At(items, b, i, k)
                 PROVE  cap'[b] = cap[b]
    BY <1>1, StockKept
  <2>2. cap[b] > 0 /\ ~(want[b] > 0) /\ \A c \in Cpus : hand[c] # b
    BY <2>1, OwnedFacts
  <2>3. cap[b] # 0
    BY <2>2
  <2>4. ASSUME NEW c \in Cpus, HeapAlloc(c) \/ HeapFree(c) PROVE cap'[b] = cap[b]
    BY <2>2, <2>3, <2>4 DEF HeapAlloc, HeapFree, TypeOK
  <2>5. ASSUME NEW c \in Cpus, HeapFreeHand(c) \/ HeapFillHand(c) PROVE cap'[b] = cap[b]
    BY <2>2, <2>3, <2>5 DEF HeapFreeHand, HeapFillHand, TypeOK
  <2>6. ASSUME NEW c \in Cpus,
               \/ os_acquire_spinlock(c) \/ os_release_spinlock(c)
               \/ EnterAlloc(c) \/ EnterFree(c) \/ CallStep(c)
               \/ Interrupt(c) \/ InterruptReturn(c) \/ UnloadBegin(c)
        PROVE  cap' = cap
    BY <2>6 DEF os_acquire_spinlock, os_release_spinlock, EnterAlloc, EnterFree,
         CallStep, Alloc, AllocUnderflow, Free, FreeOverflow,
         Interrupt, InterruptReturn, UnloadBegin
  <2>7. ASSUME NEW c \in Cpus,
               \/ DisableForMaintain(c) \/ MaintainBusy(c) \/ MaintainBegin(c)
               \/ ReclaimNext(c) \/ FillNext(c) \/ EnableInterrupts(c)
               \/ HeapFillFails(c) \/ DisableInterrupts(c) \/ RelockReclaim(c)
               \/ RelockFill(c) \/ NextGroup(c) \/ MaintainEnd(c) \/ UnloadEnd(c)
        PROVE  cap' = cap
    BY <2>7 DEF DisableForMaintain, MaintainBusy, MaintainBegin, ReclaimNext, FillNext,
         EnableInterrupts, HeapFillFails, DisableInterrupts, RelockReclaim, RelockFill,
         NextGroup, MaintainEnd, UnloadEnd
  <2>8. CASE UNCHANGED vars
    BY <2>8 DEF vars
  <2> QED
    BY <2>4, <2>5, <2>6, <2>7, <2>8 DEF Next, RmStep, MaintainStep
<1>2. ASSUME NEW c \in Cpus, Alloc(c) \/ AllocUnderflow(c) PROVE StockSize'
  <2>1. PICK S : items' = PopGroups(S)
    BY <1>2 DEF Alloc, AllocUnderflow
  <2>2. cap' = cap
    BY <1>2 DEF Alloc, AllocUnderflow
  <2>3. \A b \in Blocks, i \in Groups, k \in Nat : At(items', b, i, k) => At(items, b, i, k)
    BY <2>1, PopGroupsAt
  <2> QED
    BY <2>2, <2>3, StockKept
<1>3. ASSUME NEW c \in Cpus, Free(c) PROVE StockSize'
  <2>1. \A i \in Groups \ {Reclaim} : items'[i] = items[i]
    BY <1>3 DEF Free, TypeOK
  <2>2. \A b \in Blocks, i \in Groups \ {Reclaim}, k \in Nat :
          At(items', b, i, k) => At(items, b, i, k)
    BY <2>1 DEF At
  <2>3. cap' = cap
    BY <1>3 DEF Free
  <2> QED
    BY <2>2, <2>3, StockKept
<1>4. ASSUME NEW c \in Cpus, ReclaimNext(c) PROVE StockSize'
  <2>1. /\ items[gi[c]] # <<>> /\ gi[c] \in Groups
        /\ items' = [items EXCEPT ![gi[c]] = Pop(@)]
        /\ cap' = cap
    BY <1>4 DEF ReclaimNext, TypeOK
  <2>2. \A b \in Blocks, i \in Groups, k \in Nat : At(items', b, i, k) => At(items, b, i, k)
    BY <2>1, PoppedAt
  <2> QED
    BY <2>1, <2>2, StockKept
<1>5. ASSUME NEW c \in Cpus, RelockFill(c) PROVE StockSize'
  <2>1. /\ gi[c] \in Groups /\ hand[c] \in Blocks \cup {Null}
        /\ items' = [items EXCEPT ![gi[c]] = Append(@, hand[c])]
        /\ cap' = cap
    BY <1>5 DEF RelockFill, TypeOK
  <2>2. \A b \in Blocks, i \in Groups, k \in Nat :
          At(items', b, i, k) => At(items, b, i, k) \/ (b = hand[c] /\ i = gi[c])
    <3> DEFINE g == gi[c]
               x == hand[c]
    <3>1. g \in Groups /\ x \in Blocks \cup {Null} /\ items' = [items EXCEPT ![g] = Append(@, x)]
      BY <2>1
    <3> HIDE DEF g, x
    <3>2. \A b : \A i \in Groups, k \in Nat :
            At(items', b, i, k)
              <=> At(items, b, i, k) \/ (b = x /\ i = g /\ k = Len(items[g]) + 1)
      BY ONLY TypeOK, <3>1, PushedAt
    <3> QED
      BY <3>2 DEF g, x
  <2>3. hand[c] \in Blocks => cap[hand[c]] = ItemSize(gi[c])
    BY <1>5, NullAssumption DEF HandSize, RelockFill
  <2>4. \A b \in Blocks, i \in Groups \ {Reclaim}, k \in Nat :
          At(items', b, i, k) => cap'[b] = ItemSize(i)
    BY <2>1, <2>2, <2>3 DEF StockSize
  <2> QED
    BY <2>4 DEF StockSize, At
<1>6. ASSUME NEW c \in Cpus,
             \/ FreeOverflow(c) \/ Interrupt(c) \/ InterruptReturn(c) \/ UnloadBegin(c)
             \/ RmStep(c)
      PROVE  items' = items
  BY <1>6 DEF FreeOverflow, Interrupt, InterruptReturn, UnloadBegin, RmStep,
       os_acquire_spinlock, os_release_spinlock, HeapAlloc, HeapFree, EnterAlloc, EnterFree
<1>7. ASSUME NEW c \in Cpus,
             \/ DisableForMaintain(c) \/ MaintainBusy(c) \/ MaintainBegin(c)
             \/ FillNext(c) \/ EnableInterrupts(c) \/ HeapFreeHand(c) \/ HeapFillHand(c)
             \/ HeapFillFails(c) \/ DisableInterrupts(c) \/ RelockReclaim(c)
             \/ NextGroup(c) \/ MaintainEnd(c) \/ UnloadEnd(c)
      PROVE  items' = items
  BY <1>7 DEF DisableForMaintain, MaintainBusy, MaintainBegin, FillNext,
       EnableInterrupts, HeapFreeHand, HeapFillHand, HeapFillFails, DisableInterrupts,
       RelockReclaim, NextGroup, MaintainEnd, UnloadEnd
<1>8. UNCHANGED vars => items' = items
  BY DEF vars
<1> QED
  BY <1>1, <1>2, <1>3, <1>4, <1>5, <1>6, <1>7, <1>8 DEF Next, CallStep, MaintainStep

\* Nobody resizes the block the maintainer carries.
LEMMA HandSizeStep ==
  ASSUME TypeOK, PhaseState, OneMaintainer, StackState, Owned, HandSize, [Next]_vars
  PROVE  HandSize'
<1> USE DEF TypeOK, PhaseState, OneMaintainer, HandSize, Maintaining,
        Interruptible, Filling, Reclaiming, poolVars, cpuVars, maintVars, memVars, sysVars
<1>1. /\ \A d \in Cpus : hand[d] # Null => hand[d] \in Blocks
      /\ \A d \in Cpus : hand[d] # Null => cap[hand[d]] # 0 /\ ~(want[hand[d]] > 0)
  BY OwnedFacts
<1>2. ASSUME NEW c \in Cpus, RmStep(c) PROVE HandSize'
  <2>1. CASE HeapAlloc(c) \/ HeapFree(c)
    <3>1. \A d \in Cpus : hand[d] # Null => cap'[hand[d]] = cap[hand[d]]
      BY <1>1, <2>1 DEF HeapAlloc, HeapFree
    <3> QED
      BY <2>1, <3>1 DEF HeapAlloc, HeapFree
  <2>2. CASE os_acquire_spinlock(c) \/ EnterAlloc(c) \/ EnterFree(c)
    BY <2>2 DEF os_acquire_spinlock, EnterAlloc, EnterFree
  <2>3. CASE os_release_spinlock(c)
    BY <2>3 DEF os_release_spinlock
  <2> QED
    BY <1>2, <2>1, <2>2, <2>3 DEF RmStep
<1>3. ASSUME NEW c \in Cpus, CallStep(c) PROVE HandSize'
  BY <1>3 DEF CallStep, Alloc, AllocUnderflow, Free, FreeOverflow
<1>4. ASSUME NEW c \in Cpus,
             \/ DisableForMaintain(c) \/ MaintainBusy(c) \/ MaintainBegin(c)
             \/ FillNext(c) \/ EnableInterrupts(c) \/ NextGroup(c) \/ UnloadEnd(c)
      PROVE  HandSize'
  BY <1>4 DEF DisableForMaintain, MaintainBusy, MaintainBegin, FillNext,
       EnableInterrupts, NextGroup, UnloadEnd, Thread, HoldsLoop
<1>5. ASSUME NEW c \in Cpus, ReclaimNext(c) PROVE HandSize'
  BY <1>5 DEF ReclaimNext, Thread, HoldsLoop
<1>6. ASSUME NEW c \in Cpus, HeapFreeHand(c) PROVE HandSize'
  BY <1>6 DEF HeapFreeHand, Thread, HoldsLoop
<1>7. ASSUME NEW c \in Cpus, HeapFillHand(c) PROVE HandSize'
  BY <1>7 DEF HeapFillHand, Thread, HoldsLoop
<1>8. ASSUME NEW c \in Cpus, HeapFillFails(c) PROVE HandSize'
  BY <1>8 DEF HeapFillFails, Thread, HoldsLoop
<1>9. ASSUME NEW c \in Cpus, DisableInterrupts(c) \/ RelockReclaim(c) PROVE HandSize'
  BY <1>9 DEF DisableInterrupts, RelockReclaim, Thread, HoldsLoop
<1>10. ASSUME NEW c \in Cpus, RelockFill(c) PROVE HandSize'
  BY <1>10 DEF RelockFill, Thread, HoldsLoop
<1>11. ASSUME NEW c \in Cpus, MaintainEnd(c) PROVE HandSize'
  BY <1>11 DEF MaintainEnd, Thread, HoldsLoop
<1>12. ASSUME NEW c \in Cpus, Interrupt(c) \/ InterruptReturn(c) PROVE HandSize'
  BY <1>12 DEF Interrupt, InterruptReturn
<1>13. ASSUME NEW c \in Cpus, UnloadBegin(c) PROVE HandSize'
  BY <1>13 DEF UnloadBegin, Quiet
<1>14. CASE UNCHANGED vars
  BY <1>14 DEF vars
<1> QED
  BY <1>2, <1>3, <1>4, <1>5, <1>6, <1>7, <1>8, <1>9, <1>10, <1>11, <1>12, <1>13, <1>14
     DEF Next, MaintainStep

\* Alloc hands out a block of a group whose size fits the request.
LEMMA FitsStep ==
  ASSUME TypeOK, Owned, StockSize, BlockFits, [Next]_vars
  PROVE  BlockFits'
<1> USE DEF TypeOK, BlockFits, poolVars, cpuVars, maintVars, memVars, sysVars
<1>1. ASSUME NEW c \in Cpus, HeapAlloc(c) \/ HeapFree(c) PROVE BlockFits'
  <2>1. CASE HeapAlloc(c)
    <3>1. PICK x \in Blocks, size \in Sizes :
            cap' = [cap EXCEPT ![x] = size] /\ want' = [want EXCEPT ![x] = size]
      BY <2>1 DEF HeapAlloc
    <3>2. size <= size
      BY SizeAssumption
    <3> QED
      BY <3>1, <3>2
  <2>2. CASE HeapFree(c)
    BY <2>2 DEF HeapFree
  <2> QED
    BY <1>1, <2>1, <2>2
<1>2. ASSUME NEW c \in Cpus, EnterFree(c) PROVE BlockFits'
  BY <1>2 DEF EnterFree
<1>3. ASSUME NEW c \in Cpus, Alloc(c) PROVE BlockFits'
  <2>1. PICK i \in Fitting(call[c].size) :
          HasBlock(i) /\ want' = [want EXCEPT ![Top(items[i])] = call[c].size]
    BY <1>3 DEF Alloc
  <2>2. i \in Groups \ {Reclaim} /\ ItemSize(i) >= call[c].size
    BY <2>1 DEF Fitting
  <2>3. items[i] \in Seq(Blocks \cup {Null}) /\ items[i] # <<>>
    BY <2>1, <2>2 DEF HasBlock
  <2>4. Top(items[i]) \in Blocks /\ Len(items[i]) \in Nat \ {0}
    <3>1. Top(items[i]) \in Blocks \cup {Null} /\ Len(items[i]) \in Nat \ {0}
      BY <2>3, PopProperties
    <3>2. Top(items[i]) # Null
      BY <2>1 DEF HasBlock
    <3> QED
      BY <3>1, <3>2
  <2>5. At(items, Top(items[i]), i, Len(items[i]))
    BY <2>4 DEF At, Top
  <2>6. cap[Top(items[i])] = ItemSize(i)
    BY <2>2, <2>4, <2>5 DEF StockSize
  <2>7. cap' = cap
    BY <1>3 DEF Alloc
  <2> QED
    BY <2>1, <2>2, <2>4, <2>6, <2>7
<1>4. ASSUME NEW c \in Cpus, HeapFreeHand(c) PROVE BlockFits'
  <2>1. \A b \in Blocks : want[b] > 0 => b # hand[c]
    BY OwnedFacts
  <2> QED
    BY <1>4, <2>1 DEF HeapFreeHand
<1>5. ASSUME NEW c \in Cpus, HeapFillHand(c) PROVE BlockFits'
  <2>1. \A b \in Blocks : want[b] > 0 => cap[b] # 0
    BY OwnedFacts
  <2> QED
    BY <1>5, <2>1 DEF HeapFillHand
<1>6. ASSUME NEW c \in Cpus,
             \/ os_acquire_spinlock(c) \/ os_release_spinlock(c) \/ EnterAlloc(c)
             \/ AllocUnderflow(c) \/ Free(c) \/ FreeOverflow(c)
             \/ Interrupt(c) \/ InterruptReturn(c) \/ UnloadBegin(c)
      PROVE  UNCHANGED <<cap, want>>
  BY <1>6 DEF os_acquire_spinlock, os_release_spinlock, EnterAlloc, AllocUnderflow,
       Free, FreeOverflow, Interrupt, InterruptReturn, UnloadBegin
<1>7. ASSUME NEW c \in Cpus,
             \/ DisableForMaintain(c) \/ MaintainBusy(c) \/ MaintainBegin(c)
             \/ ReclaimNext(c) \/ FillNext(c) \/ EnableInterrupts(c)
             \/ HeapFillFails(c) \/ DisableInterrupts(c) \/ RelockReclaim(c)
             \/ RelockFill(c) \/ NextGroup(c) \/ MaintainEnd(c) \/ UnloadEnd(c)
      PROVE  UNCHANGED <<cap, want>>
  BY <1>7 DEF DisableForMaintain, MaintainBusy, MaintainBegin, ReclaimNext, FillNext,
       EnableInterrupts, HeapFillFails, DisableInterrupts, RelockReclaim, RelockFill,
       NextGroup, MaintainEnd, UnloadEnd
<1>8. UNCHANGED vars => UNCHANGED <<cap, want>>
  BY DEF vars
<1>9. UNCHANGED <<cap, want>> => BlockFits'
  OBVIOUS
<1> QED
  BY <1>1, <1>2, <1>3, <1>4, <1>5, <1>6, <1>7, <1>8, <1>9
     DEF Next, RmStep, CallStep, MaintainStep

-----------------------------------------------------------------------------
(* What follows.                                                           *)

OwnerInv == Owned /\ HandState /\ UnloadState /\ SizeState

\* At boot the heap has every block.
LEMMA InitOwner ==
  ASSUME Init
  PROVE  OwnerInv
<1> USE DEF Init
<1>1. /\ \A b \in Blocks : ~(cap[b] > 0) /\ ~(want[b] > 0)
      /\ \A c \in Cpus : hand[c] = Null /\ call[c] = NoCall
      /\ \A i \in Groups : items[i] = <<>>
  OBVIOUS
<1>2. \A b : \A i \in Groups, k \in Nat : ~At(items, b, i, k)
  <2>1. Len(<<>>) = 0
    OBVIOUS
  <2> QED
    BY <1>1, <2>1 DEF At
<1>3. \A b \in Blocks, c \in Cpus : ~Freed(call, b, c)
  BY <1>1, CallsAreCalls DEF Freed
<1>4. Owned
  BY <1>1, <1>2, <1>3, NullAssumption DEF Owned, OwnedOnce
<1>5. HandState /\ UnloadState
  BY <1>1 DEF HandState, UnloadState
<1>6. SizeState
  BY <1>1, <1>2 DEF SizeState, StockSize, HandSize, BlockFits
<1> QED
  BY <1>4, <1>5, <1>6 DEF OwnerInv

\* Where the blocks are and how large they are, in every state.
THEOREM OwnerInvariance == Spec => [](IInv /\ OwnerInv)
<1>1. Init => IInv /\ OwnerInv
  BY InitInv, InitOwner
<1>2. IInv /\ OwnerInv /\ [Next]_vars => (IInv /\ OwnerInv)'
  <2> SUFFICES ASSUME IInv, OwnerInv, [Next]_vars
               PROVE  IInv' /\ OwnerInv'
    OBVIOUS
  <2>1. IInv'
    BY StepInv
  <2>2. Owned' /\ HandState' /\ UnloadState'
    BY OwnedStep, HandStep, UnloadStep DEF IInv, CpuInv, MaintainInv, OwnerInv
  <2>3. StockSize' /\ HandSize' /\ BlockFits'
    BY StockStep, HandSizeStep, FitsStep DEF IInv, CpuInv, MaintainInv, OwnerInv, SizeState
  <2> QED
    BY <2>1, <2>2, <2>3 DEF OwnerInv, SizeState
<1> QED
  BY <1>1, <1>2, PTL DEF Spec

\* RM never gets a block smaller than it asked for, from whichever group and
\* after whatever traffic.
THEOREM BlocksFit == Spec => []BlockFits
<1>1. OwnerInv => BlockFits
  BY DEF OwnerInv, SizeState
<1> QED
  BY <1>1, OwnerInvariance, PTL

\* After the teardown the groups are empty, and a block that is not back in the
\* heap is one RM never freed.
THEOREM TeardownComplete == Spec => []UnloadEmpties
<1>1. ASSUME IInv, OwnerInv PROVE UnloadEmpties
  <2> SUFFICES ASSUME phase = "down"
               PROVE  /\ \A i \in Groups : items[i] = <<>>
                      /\ \A b \in Blocks : cap[b] > 0 => want[b] > 0
    BY DEF UnloadEmpties
  <2>1. \A i \in Groups : items[i] = <<>>
    BY <1>1 DEF OwnerInv, UnloadState
  <2>2. \A b : \A i \in Groups, k \in Nat : ~At(items, b, i, k)
    <3>1. Len(<<>>) = 0
      OBVIOUS
    <3> QED
      BY <2>1, <3>1 DEF At
  <2>3. \A b \in Blocks, c \in Cpus : ~Freed(call, b, c)
    BY <1>1, CallsAreCalls DEF OwnerInv, UnloadState, Freed
  <2>4. \A c \in Cpus : hand[c] = Null
    BY <1>1 DEF IInv, MaintainInv, PhaseState, OwnerInv, HandState
  <2>5. \A b \in Blocks : cap[b] > 0 => want[b] > 0
    BY <1>1, <2>2, <2>3, <2>4, NullAssumption DEF OwnerInv, Owned, OwnedOnce
  <2> QED
    BY <2>1, <2>5
<1> QED
  BY <1>1, OwnerInvariance, PTL

\* A set with no member counts 0.
LEMMA CountNone ==
  ASSUME NEW S, \A x \in S : FALSE
  PROVE  Cardinality(S) = 0
<1>1. S = {}
  OBVIOUS
<1> QED
  BY <1>1, FS_EmptySet

\* A set whose only member is known counts 1.
LEMMA CountOne ==
  ASSUME NEW S, NEW x \in S, \A y \in S : y = x
  PROVE  Cardinality(S) = 1
<1>1. S = {x}
  OBVIOUS
<1> QED
  BY <1>1, FS_Singleton

\* A block is in exactly one place if the heap gave it and in none if not:
\* never handed out twice, freed twice, or lost.
THEOREM OnePlace == Spec => []NoAlias
<1>1. ASSUME IInv, OwnerInv PROVE NoAlias
  <2> SUFFICES ASSUME NEW b \in Blocks
               PROVE  Copies(b) = IF cap[b] > 0 THEN 1 ELSE 0
    BY DEF NoAlias
  <2> DEFINE Slots == Groups \X (1 .. ReclaimMax + GroupMax)
             A == {s \in Slots : s[2] <= Len(items[s[1]]) /\ items[s[1]][s[2]] = b}
             B == {c \in Cpus : hand[c] = b}
             C == {c \in Cpus : call[c] = [op |-> "free", block |-> b]}
             u == IF want[b] > 0 THEN 1 ELSE 0
  <2>1. OwnedOnce(b, items, call, hand, cap, want)
    BY <1>1 DEF OwnerInv, Owned
  <2>2. Copies(b) = Cardinality(A) + Cardinality(B) + Cardinality(C) + u
    BY DEF Copies
  <2>3. \A s \in Slots : s[1] \in Groups /\ s[2] \in Nat /\ s = <<s[1], s[2]>>
    BY ShapeAssumption
  <2>4. \A s \in Slots : s \in A <=> At(items, b, s[1], s[2])
    BY ShapeAssumption DEF At
  <2>5. \A i \in Groups, k \in Nat : At(items, b, i, k) => <<i, k>> \in A
    <3> SUFFICES ASSUME NEW i \in Groups, NEW k \in Nat, At(items, b, i, k)
                 PROVE  <<i, k>> \in A
      OBVIOUS
    <3>1. items[i] \in Seq(Blocks \cup {Null}) /\ Len(items[i]) \in Nat
      BY <1>1, LenProperties DEF IInv, TypeOK
    <3>2. Len(items[i]) <= Capacity(i) /\ Capacity(i) \in Nat
          /\ Capacity(i) <= ReclaimMax + GroupMax
      BY <1>1, ShapeAssumption DEF IInv, MaintainInv, GroupBound, Capacity
    <3>3. k \in 1 .. Len(items[i]) /\ items[i][k] = b
      BY DEF At
    <3>4. k \in 1 .. ReclaimMax + GroupMax
      BY <3>1, <3>2, <3>3, ShapeAssumption
    <3>5. <<i, k>> \in Slots
      BY <3>4
    <3> QED
      BY <3>1, <3>3, <3>5
  <2>6. \A c \in Cpus : (c \in B <=> hand[c] = b) /\ (c \in C <=> Freed(call, b, c))
    BY DEF Freed
  <2>7. B \subseteq Cpus /\ C \subseteq Cpus /\ A \subseteq Slots
    OBVIOUS
  <2> HIDE DEF A, B, C, Slots
  <2>8. CASE \E i \in Groups, k \in Nat : At(items, b, i, k)
    <3>1. PICK i \in Groups, k \in Nat : At(items, b, i, k)
      BY <2>8
    <3>2. /\ cap[b] > 0 /\ ~(want[b] > 0)
          /\ \A j \in Groups, l \in Nat : At(items, b, j, l) => j = i /\ l = k
          /\ \A c \in Cpus : hand[c] # b /\ ~Freed(call, b, c)
      BY ONLY <2>1, <3>1, i \in Groups, k \in Nat DEF OwnedOnce
    <3>3. Cardinality(A) = 1
      <4>1. <<i, k>> \in A
        BY <2>5, <3>1
      <4>2. \A s \in A : s = <<i, k>>
        BY <2>3, <2>4, <2>7, <3>2
      <4> QED
        BY ONLY <4>1, <4>2, CountOne
    <3>4. Cardinality(B) = 0 /\ Cardinality(C) = 0
      <4>1. (\A c \in B : FALSE) /\ (\A c \in C : FALSE)
        BY <2>6, <2>7, <3>2
      <4> QED
        BY ONLY <4>1, CountNone
    <3> QED
      BY <2>2, <3>2, <3>3, <3>4
  <2>9. CASE \E c \in Cpus : hand[c] = b
    <3>1. PICK c \in Cpus : hand[c] = b
      BY <2>9
    <3>2. /\ cap[b] > 0 /\ ~(want[b] > 0)
          /\ \A d \in Cpus : hand[d] = b => d = c
          /\ \A d \in Cpus : ~Freed(call, b, d)
          /\ \A j \in Groups, l \in Nat : ~At(items, b, j, l)
      BY ONLY <2>1, <3>1, c \in Cpus DEF OwnedOnce
    <3>3. Cardinality(B) = 1
      <4>1. c \in B /\ \A d \in B : d = c
        BY <2>6, <2>7, <3>1, <3>2
      <4> QED
        BY ONLY <4>1, CountOne
    <3>4. Cardinality(A) = 0 /\ Cardinality(C) = 0
      <4>1. (\A s \in A : FALSE) /\ (\A d \in C : FALSE)
        BY <2>3, <2>4, <2>6, <2>7, <3>2
      <4> QED
        BY ONLY <4>1, CountNone
    <3> QED
      BY <2>2, <3>2, <3>3, <3>4
  <2>10. CASE \E c \in Cpus : Freed(call, b, c)
    <3>1. PICK c \in Cpus : Freed(call, b, c)
      BY <2>10
    <3>2. /\ cap[b] > 0 /\ ~(want[b] > 0)
          /\ \A d \in Cpus : Freed(call, b, d) => d = c
          /\ \A d \in Cpus : hand[d] # b
          /\ \A j \in Groups, l \in Nat : ~At(items, b, j, l)
      BY ONLY <2>1, <3>1, c \in Cpus DEF OwnedOnce
    <3>3. Cardinality(C) = 1
      <4>1. c \in C /\ \A d \in C : d = c
        BY <2>6, <2>7, <3>1, <3>2
      <4> QED
        BY ONLY <4>1, CountOne
    <3>4. Cardinality(A) = 0 /\ Cardinality(B) = 0
      <4>1. (\A s \in A : FALSE) /\ (\A d \in B : FALSE)
        BY <2>3, <2>4, <2>6, <2>7, <3>2
      <4> QED
        BY ONLY <4>1, CountNone
    <3> QED
      BY <2>2, <3>2, <3>3, <3>4
  <2>11. CASE /\ \A i \in Groups, k \in Nat : ~At(items, b, i, k)
              /\ \A c \in Cpus : hand[c] # b /\ ~Freed(call, b, c)
    <3>1. cap[b] > 0 <=> want[b] > 0
      BY ONLY <2>1, <2>11 DEF OwnedOnce
    <3>2. Cardinality(A) = 0 /\ Cardinality(B) = 0 /\ Cardinality(C) = 0
      <4>1. (\A s \in A : FALSE) /\ (\A d \in B : FALSE) /\ (\A d \in C : FALSE)
        BY <2>3, <2>4, <2>6, <2>7, <2>11
      <4> QED
        BY ONLY <4>1, CountNone
    <3> QED
      BY <2>2, <3>1, <3>2
  <2> QED
    BY <2>8, <2>9, <2>10, <2>11
<1> QED
  BY <1>1, OwnerInvariance, PTL

-----------------------------------------------------------------------------
(* The pool implements BlockLedger.                                        *)

\* InTrash and PlaceOf of the values of the variables.
TrashFrom(b, f, q, h, g) ==
  \/ \E k \in Nat : At(f, b, Reclaim, k)
  \/ \E c \in Cpus : Freed(q, b, c)
  \/ \E c \in Cpus : h[c] = b /\ g[c] = Reclaim

PlaceFrom(b, f, q, h, g, cp, w) ==
  IF w[b] > 0 THEN "used"
  ELSE IF ~(cp[b] > 0) THEN "heap"
  ELSE IF TrashFrom(b, f, q, h, g) THEN "trash" ELSE "stock"

Closing == phase \in {"unload", "down"}

\* Sizes are positive.
LEMMA CapIsSize ==
  \A x \in {0} \cup Sizes \cup {ItemSize(i) : i \in Groups \ {Reclaim}} : x = 0 <=> ~(x > 0)
<1>1. \A x \in Sizes : x # 0 /\ x > 0
  BY SizeAssumption
<1>2. \A i \in Groups \ {Reclaim} : ItemSize(i) # 0 /\ ItemSize(i) > 0
  BY ItemSizeAssumption
<1>3. ~(0 > 0)
  OBVIOUS
<1> QED
  BY ONLY <1>1, <1>2, <1>3

\* PlaceOf in the state a step starts from,
LEMMA PlaceBefore ==
  ASSUME TypeOK, NEW b \in Blocks
  PROVE  PlaceOf(b) = PlaceFrom(b, items, call, hand, gi, cap, want)
<1>1. cap[b] = 0 <=> ~(cap[b] > 0)
  BY CapIsSize DEF TypeOK
<1>2. Len(items[Reclaim]) \in Nat
  BY ShapeAssumption, LenProperties DEF TypeOK, Groups, Reclaim
<1>3. InTrash(b) <=> TrashFrom(b, items, call, hand, gi)
  BY <1>2 DEF InTrash, TrashFrom, At, Freed
<1> QED
  BY <1>1, <1>3 DEF PlaceOf, PlaceFrom

\* and in the state it ends in.
LEMMA PlaceAfter ==
  ASSUME TypeOK', NEW b \in Blocks
  PROVE  PlaceOf(b)' = PlaceFrom(b, items', call', hand', gi', cap', want')
<1>1. cap'[b] = 0 <=> ~(cap'[b] > 0)
  BY CapIsSize DEF TypeOK
<1>2. Len(items'[Reclaim]) \in Nat
  <2>1. items' \in [Groups -> Seq(Blocks \cup {Null})]
    BY DEF TypeOK
  <2> QED
    BY <2>1, ShapeAssumption, LenProperties DEF Groups, Reclaim
<1>3. InTrash(b)' <=> TrashFrom(b, items', call', hand', gi')
  BY <1>2 DEF InTrash, TrashFrom, At, Freed
<1> QED
  BY <1>1, <1>3 DEF PlaceOf, PlaceFrom

\* A step that moves block x alone is the ledger's step, if the ledger has it.
LEMMA LedgerMove ==
  ASSUME TypeOK, TypeOK', Closing' <=> Closing, NEW x \in Blocks, NEW from, NEW to,
         PlaceFrom(x, items, call, hand, gi, cap, want) = from,
         PlaceFrom(x, items', call', hand', gi', cap', want') = to,
         \A b \in Blocks \ {x} : PlaceFrom(b, items', call', hand', gi', cap', want')
                                   = PlaceFrom(b, items, call, hand, gi, cap, want),
         \/ ~Closing /\ <<from, to>> \in {<<"heap", "used">>, <<"used", "heap">>,
              <<"heap", "stock">>, <<"stock", "used">>, <<"used", "trash">>}
         \/ from = "trash" /\ to = "heap"
         \/ Closing /\ from = "stock" /\ to = "heap"
  PROVE  Ledger!LedgerNext
<1> DEFINE P == [b \in Blocks |-> PlaceOf(b)]
           Q == [b \in Blocks |-> PlaceOf(b)']
<1>1. P[x] = from /\ Q = [P EXCEPT ![x] = to]
  BY PlaceBefore, PlaceAfter
<1>2. P' = Q
  OBVIOUS
<1>3. Ledger!Move(x, from, to)
  BY <1>1, <1>2 DEF Ledger!Move, Closing
<1> QED
  BY <1>3 DEF Ledger!LedgerNext, Closing

\* A step that moves no block is a step the ledger does not see.
LEMMA LedgerStutter ==
  ASSUME TypeOK, TypeOK', Closing' <=> Closing,
         \A b \in Blocks : PlaceFrom(b, items', call', hand', gi', cap', want')
                             = PlaceFrom(b, items, call, hand, gi, cap, want)
  PROVE  UNCHANGED Ledger!ledger
<1>1. \A b \in Blocks : PlaceOf(b)' = PlaceOf(b)
  BY PlaceBefore, PlaceAfter
<1> QED
  BY <1>1 DEF Ledger!ledger, Closing

\* A block whose holders, size and owner stay is where it was.
LEMMA SamePlace ==
  ASSUME NEW b, NEW f, NEW f2, NEW q, NEW q2, NEW h, NEW h2, NEW g, NEW g2,
         NEW cp, NEW cp2, NEW w, NEW w2,
         \A k \in Nat : At(f2, b, Reclaim, k) <=> At(f, b, Reclaim, k),
         \A c \in Cpus : Freed(q2, b, c) <=> Freed(q, b, c),
         \A c \in Cpus : h2[c] = b /\ g2[c] = Reclaim <=> h[c] = b /\ g[c] = Reclaim,
         cp2[b] > 0 <=> cp[b] > 0,
         w2[b] > 0 <=> w[b] > 0
  PROVE  PlaceFrom(b, f2, q2, h2, g2, cp2, w2) = PlaceFrom(b, f, q, h, g, cp, w)
BY DEF PlaceFrom, TrashFrom

LedgerStep == Ledger!LedgerNext \/ UNCHANGED Ledger!ledger

\* A step that leaves the places of the blocks alone, and the phase.
LEMMA LedgerIdle ==
  ASSUME TypeOK, TypeOK', UNCHANGED <<items, hand, cap, want>>, Closing' <=> Closing,
         \A b \in Blocks, c \in Cpus : Freed(call', b, c) <=> Freed(call, b, c),
         \A c \in Cpus : hand[c] # Null => gi'[c] = gi[c]
  PROVE  UNCHANGED Ledger!ledger
<1>1. ASSUME NEW b \in Blocks
      PROVE  PlaceFrom(b, items', call', hand', gi', cap', want')
               = PlaceFrom(b, items, call, hand, gi, cap, want)
  <2>1. \A c \in Cpus : hand'[c] = b /\ gi'[c] = Reclaim <=> hand[c] = b /\ gi[c] = Reclaim
    BY NullAssumption
  <2> QED
    BY <2>1, SamePlace
<1> QED
  BY <1>1, LedgerStutter

\* RM's heap calls, and the block it gives to Free: the ledger's calloc, free and
\* give back.
LEMMA RmStepLedger ==
  ASSUME TypeOK, TypeOK', Owned, NEW c \in Cpus, RmStep(c)
  PROVE  LedgerStep
<1> USE DEF poolVars, cpuVars, maintVars, memVars, sysVars
<1>1. ~Closing /\ ~Closing' /\ gi' = gi
  BY DEF Closing, RmStep, RmCode, os_acquire_spinlock, os_release_spinlock,
     HeapAlloc, HeapFree, EnterAlloc, EnterFree
<1>2. CASE os_acquire_spinlock(c) \/ os_release_spinlock(c)
  <2>1. UNCHANGED <<items, call, hand, cap, want>>
    BY <1>2 DEF os_acquire_spinlock, os_release_spinlock
  <2> QED
    BY <1>1, <2>1, LedgerIdle DEF LedgerStep
<1>3. CASE HeapAlloc(c)
  <2>1. PICK x \in Blocks, size \in Sizes :
          /\ cap[x] = 0
          /\ cap' = [cap EXCEPT ![x] = size]
          /\ want' = [want EXCEPT ![x] = size]
    BY <1>3 DEF HeapAlloc
  <2>2. UNCHANGED <<items, call, hand>>
    BY <1>3 DEF HeapAlloc
  <2>3. ~(cap[x] > 0) /\ want'[x] > 0
    BY <2>1, SizeAssumption DEF TypeOK
  <2>4. ~(want[x] > 0)
    BY <2>3, OwnedFacts
  <2>5. PlaceFrom(x, items, call, hand, gi, cap, want) = "heap"
    BY <2>3, <2>4 DEF PlaceFrom
  <2>6. PlaceFrom(x, items', call', hand', gi', cap', want') = "used"
    BY <2>3 DEF PlaceFrom
  <2>7. \A b \in Blocks \ {x} : PlaceFrom(b, items', call', hand', gi', cap', want')
                                  = PlaceFrom(b, items, call, hand, gi, cap, want)
    <3>1. \A b \in Blocks \ {x} : cap'[b] = cap[b] /\ want'[b] = want[b]
      BY <2>1 DEF TypeOK
    <3> QED
      BY <1>1, <2>2, <3>1, SamePlace
  <2> QED
    BY <1>1, <2>5, <2>6, <2>7, LedgerMove DEF LedgerStep
<1>4. CASE HeapFree(c)
  <2>1. PICK x \in Blocks :
          /\ want[x] > 0
          /\ cap' = [cap EXCEPT ![x] = 0]
          /\ want' = [want EXCEPT ![x] = 0]
    BY <1>4 DEF HeapFree
  <2>2. UNCHANGED <<items, call, hand>>
    BY <1>4 DEF HeapFree
  <2>3. ~(cap'[x] > 0) /\ ~(want'[x] > 0)
    BY <2>1 DEF TypeOK
  <2>4. PlaceFrom(x, items, call, hand, gi, cap, want) = "used"
    BY <2>1 DEF PlaceFrom
  <2>5. PlaceFrom(x, items', call', hand', gi', cap', want') = "heap"
    BY <2>3 DEF PlaceFrom
  <2>6. \A b \in Blocks \ {x} : PlaceFrom(b, items', call', hand', gi', cap', want')
                                  = PlaceFrom(b, items, call, hand, gi, cap, want)
    <3>1. \A b \in Blocks \ {x} : cap'[b] = cap[b] /\ want'[b] = want[b]
      BY <2>1 DEF TypeOK
    <3> QED
      BY <1>1, <2>2, <3>1, SamePlace
  <2> QED
    BY <1>1, <2>4, <2>5, <2>6, LedgerMove DEF LedgerStep
<1>5. CASE EnterAlloc(c)
  <2>1. PICK size \in Sizes : call' = [call EXCEPT ![c] = [op |-> "alloc", size |-> size]]
    BY <1>5 DEF EnterAlloc
  <2>2. call[c] = NoCall /\ UNCHANGED <<items, hand, cap, want>>
    BY <1>5 DEF EnterAlloc, RmCode
  <2>3. \A b \in Blocks, d \in Cpus : Freed(call', b, d) <=> Freed(call, b, d)
    BY <2>1, <2>2, CallsAreCalls, CallKinds DEF Freed, TypeOK
  <2> QED
    BY <1>1, <2>2, <2>3, LedgerIdle DEF LedgerStep
<1>6. CASE EnterFree(c)
  <2>1. PICK x \in Blocks :
          /\ want[x] > 0 /\ ~(want'[x] > 0)
          /\ \A b \in Blocks \ {x} : want'[b] = want[b]
          /\ \A b \in Blocks, d \in Cpus :
               Freed(call', b, d) <=> Freed(call, b, d) \/ (b = x /\ d = c)
          /\ UNCHANGED <<items, hand, cap>>
    BY <1>6, EnterFreePlaces
  <2>2. cap'[x] > 0 /\ Freed(call', x, c)
    BY <2>1, OwnedFacts
  <2>3. PlaceFrom(x, items, call, hand, gi, cap, want) = "used"
    BY <2>1 DEF PlaceFrom
  <2>4. PlaceFrom(x, items', call', hand', gi', cap', want') = "trash"
    BY <2>1, <2>2 DEF PlaceFrom, TrashFrom
  <2>5. \A b \in Blocks \ {x} : PlaceFrom(b, items', call', hand', gi', cap', want')
                                  = PlaceFrom(b, items, call, hand, gi, cap, want)
    BY <1>1, <2>1, SamePlace
  <2> QED
    BY <1>1, <2>3, <2>4, <2>5, LedgerMove DEF LedgerStep
<1> QED
  BY <1>2, <1>3, <1>4, <1>5, <1>6 DEF RmStep

\* Alloc serves RM from the stock; Free leaves the block in the trash.
LEMMA CallStepLedger ==
  ASSUME TypeOK, TypeOK', Owned, UnloadState, NEW c \in Cpus, CallStep(c)
  PROVE  LedgerStep
<1> USE DEF poolVars, cpuVars, maintVars, memVars, sysVars
<1>1. ~Closing /\ ~Closing' /\ gi' = gi
  <2>1. call[c] # NoCall /\ UNCHANGED <<phase, gi>>
    BY CallsAreCalls DEF CallStep, Alloc, AllocUnderflow, Free, FreeOverflow
  <2> QED
    BY <2>1 DEF Closing, UnloadState
<1>2. CASE Alloc(c)
  <2>1. PICK x \in Blocks, i \in Groups \ {Reclaim}, n \in Nat :
          /\ At(items, x, i, n)
          /\ \A b \in Blocks : \A j \in Groups, k \in Nat :
               At(items', b, j, k) <=> At(items, b, j, k) /\ ~(j = i /\ k = n)
          /\ \A b \in Blocks, d \in Cpus : Freed(call', b, d) <=> Freed(call, b, d)
          /\ want'[x] > 0 /\ \A b \in Blocks \ {x} : want'[b] = want[b]
          /\ UNCHANGED <<hand, cap>>
    BY <1>2, AllocPlaces
  <2>2. Reclaim \in Groups
    BY ShapeAssumption DEF Reclaim, Groups
  <2>3. OwnedOnce(x, items, call, hand, cap, want)
    BY DEF Owned
  <2>4. /\ cap[x] > 0 /\ ~(want[x] > 0)
        /\ \A k \in Nat : ~At(items, x, Reclaim, k)
        /\ \A d \in Cpus : hand[d] # x /\ ~Freed(call, x, d)
    BY ONLY <2>1, <2>2, <2>3, i \in Groups, i # Reclaim, n \in Nat DEF OwnedOnce
  <2>5. PlaceFrom(x, items, call, hand, gi, cap, want) = "stock"
    BY ONLY <2>4 DEF PlaceFrom, TrashFrom
  <2>6. PlaceFrom(x, items', call', hand', gi', cap', want') = "used"
    BY ONLY <2>1 DEF PlaceFrom
  <2>7. \A b \in Blocks \ {x} : PlaceFrom(b, items', call', hand', gi', cap', want')
                                  = PlaceFrom(b, items, call, hand, gi, cap, want)
    BY <1>1, <2>1, <2>2, SamePlace
  <2> QED
    BY <1>1, <2>5, <2>6, <2>7, LedgerMove DEF LedgerStep
<1>3. CASE AllocUnderflow(c)
  <2>1. Reclaim \in Groups
    BY ShapeAssumption DEF Reclaim, Groups
  <2>2. \A b \in Blocks : PlaceFrom(b, items', call', hand', gi', cap', want')
                            = PlaceFrom(b, items, call, hand, gi, cap, want)
    BY <1>1, <1>3, <2>1, UnderflowPlaces, SamePlace
  <2> QED
    BY <1>1, <2>2, LedgerStutter DEF LedgerStep
<1>4. CASE Free(c)
  <2>1. PICK x \in Blocks, n \in Nat :
          /\ \A b \in Blocks : \A i \in Groups, k \in Nat :
               At(items', b, i, k) <=> At(items, b, i, k) \/ (b = x /\ i = Reclaim /\ k = n)
          /\ Freed(call, x, c) /\ \A b \in Blocks : Freed(call, b, c) => b = x
          /\ \A b \in Blocks, d \in Cpus : Freed(call', b, d) <=> Freed(call, b, d) /\ d # c
          /\ UNCHANGED <<hand, cap, want>>
    BY <1>4, FreePlaces
  <2>2. Reclaim \in Groups
    BY ShapeAssumption DEF Reclaim, Groups
  <2>3. PlaceFrom(x, items', call', hand', gi', cap', want')
          = PlaceFrom(x, items, call, hand, gi, cap, want)
    <3>1. TrashFrom(x, items, call, hand, gi)
      BY <2>1 DEF TrashFrom
    <3>2. TrashFrom(x, items', call', hand', gi')
      BY <2>1, <2>2 DEF TrashFrom
    <3> QED
      BY ONLY <2>1, <3>1, <3>2 DEF PlaceFrom
  <2>4. \A b \in Blocks \ {x} : PlaceFrom(b, items', call', hand', gi', cap', want')
                                  = PlaceFrom(b, items, call, hand, gi, cap, want)
    <3>1. \A b \in Blocks \ {x}, d \in Cpus : Freed(call', b, d) <=> Freed(call, b, d)
      BY <2>1
    <3>2. \A b \in Blocks \ {x}, k \in Nat :
            At(items', b, Reclaim, k) <=> At(items, b, Reclaim, k)
      BY <2>1, <2>2
    <3> QED
      BY <1>1, <2>1, <3>1, <3>2, SamePlace
  <2> QED
    BY <1>1, <2>3, <2>4, LedgerStutter DEF LedgerStep
<1>5. CASE FreeOverflow(c)
  <2>1. UNCHANGED <<items, call, hand, cap, want>>
    BY <1>5 DEF FreeOverflow
  <2> QED
    BY <1>1, <2>1, LedgerIdle DEF LedgerStep
<1> QED
  BY <1>2, <1>3, <1>4, <1>5 DEF CallStep

\* free() and calloc() of Maintain() are the reclaiming and the stocking up; the
\* pops and pushes around them move no block in the ledger.
LEMMA MaintainStepLedger ==
  ASSUME TypeOK, TypeOK', PhaseState, Owned, HandState, NEW c \in Cpus, MaintainStep(c)
  PROVE  LedgerStep
<1> USE DEF poolVars, cpuVars, maintVars, memVars, sysVars
<1>1. CASE \/ DisableForMaintain(c) \/ MaintainBusy(c) \/ MaintainBegin(c)
           \/ FillNext(c) \/ EnableInterrupts(c) \/ DisableInterrupts(c)
           \/ RelockReclaim(c) \/ NextGroup(c) \/ MaintainEnd(c) \/ UnloadEnd(c)
  <2>1. UNCHANGED <<items, call, hand, cap, want>>
    BY <1>1 DEF DisableForMaintain, MaintainBusy, MaintainBegin, FillNext,
         EnableInterrupts, DisableInterrupts, RelockReclaim, NextGroup, MaintainEnd, UnloadEnd
  <2>2. Closing' <=> Closing
    <3>1. CASE MaintainEnd(c)
      <4>1. phase # "unload" /\ phase' = "up" /\ pc[c] = "loop"
        BY <3>1 DEF MaintainEnd, HoldsLoop
      <4>2. phase # "down"
        BY <4>1 DEF PhaseState
      <4> QED
        BY <4>1, <4>2 DEF Closing
    <3>2. CASE UnloadEnd(c)
      BY <3>2 DEF UnloadEnd, Closing
    <3> QED
      BY <1>1, <3>1, <3>2 DEF DisableForMaintain, MaintainBusy, MaintainBegin, FillNext,
         EnableInterrupts, DisableInterrupts, RelockReclaim, NextGroup, Closing
  <2>3. \A d \in Cpus : hand[d] # Null => gi'[d] = gi[d]
    <3>1. CASE MaintainBegin(c) \/ NextGroup(c)
      <4>1. hand[c] = Null
        BY <3>1 DEF MaintainBegin, NextGroup, HoldsLoop, HandState
      <4> QED
        BY <3>1, <4>1 DEF MaintainBegin, NextGroup, TypeOK
    <3> QED
      BY <1>1, <3>1 DEF DisableForMaintain, MaintainBusy, FillNext, EnableInterrupts,
         DisableInterrupts, RelockReclaim, MaintainEnd, UnloadEnd
  <2> QED
    BY <2>1, <2>2, <2>3, LedgerIdle DEF LedgerStep
<1>2. Reclaim \in Groups /\ gi[c] \in Groups
  BY ShapeAssumption DEF Reclaim, Groups, TypeOK
<1>3. CASE ReclaimNext(c)
  <2>1. PICK x : \E n \in Nat :
          /\ At(items, x, gi[c], n)
          /\ \A b \in Blocks : \A i \in Groups, k \in Nat :
               At(items', b, i, k) <=> At(items, b, i, k) /\ ~(i = gi[c] /\ k = n)
          /\ \A b \in Blocks, d \in Cpus : hand'[d] = b <=> (d = c /\ b = x) \/ hand[d] = b
          /\ UNCHANGED <<call, gi, cap, want>>
    BY <1>3, ReclaimPlaces
  <2>2. PICK n \in Nat :
          /\ At(items, x, gi[c], n)
          /\ \A b \in Blocks : \A i \in Groups, k \in Nat :
               At(items', b, i, k) <=> At(items, b, i, k) /\ ~(i = gi[c] /\ k = n)
          /\ \A b \in Blocks, d \in Cpus : hand'[d] = b <=> (d = c /\ b = x) \/ hand[d] = b
          /\ UNCHANGED <<call, gi, cap, want>>
    BY <2>1
  <2>3. Closing' <=> Closing
    BY <1>3 DEF ReclaimNext, Closing
  <2>4. ASSUME x \in Blocks
        PROVE  PlaceFrom(x, items', call', hand', gi', cap', want')
                 = PlaceFrom(x, items, call, hand, gi, cap, want)
    <3>1. OwnedOnce(x, items, call, hand, cap, want)
      BY <2>4 DEF Owned
    <3>2. /\ \A k \in Nat : At(items, x, Reclaim, k) => gi[c] = Reclaim /\ k = n
          /\ \A d \in Cpus : hand[d] # x /\ ~Freed(call, x, d)
      BY ONLY <1>2, <2>2, <3>1, n \in Nat DEF OwnedOnce
    <3>3. hand'[c] = x /\ \A d \in Cpus : hand'[d] = x => d = c
      BY <2>2, <2>4, <3>2
    <3>4. \A k \in Nat : ~At(items', x, Reclaim, k)
      BY <1>2, <2>2, <2>4, <3>2
    <3>5. TrashFrom(x, items, call, hand, gi) <=> gi[c] = Reclaim
      BY ONLY <2>2, <3>2, n \in Nat DEF TrashFrom
    <3>6. TrashFrom(x, items', call', hand', gi') <=> gi[c] = Reclaim
      <4>1. \A d \in Cpus : ~Freed(call', x, d)
        BY <2>2, <3>2
      <4> QED
        BY ONLY <2>2, <3>3, <3>4, <4>1, c \in Cpus DEF TrashFrom
    <3> QED
      BY ONLY <2>2, <3>5, <3>6 DEF PlaceFrom
  <2>5. ASSUME NEW b \in Blocks, b # x
        PROVE  PlaceFrom(b, items', call', hand', gi', cap', want')
                 = PlaceFrom(b, items, call, hand, gi, cap, want)
    <3>1. ~At(items, b, gi[c], n)
      BY ONLY <2>2, <2>5 DEF At
    <3>2. \A k \in Nat : At(items', b, Reclaim, k) <=> At(items, b, Reclaim, k)
      BY <1>2, <2>2, <3>1
    <3>3. \A d \in Cpus : hand'[d] = b <=> hand[d] = b
      BY <2>2, <2>5
    <3> QED
      BY <2>2, <3>2, <3>3, SamePlace
  <2> QED
    BY <2>3, <2>4, <2>5, LedgerStutter DEF LedgerStep
<1>4. CASE HeapFreeHand(c)
  <2> DEFINE x == hand[c]
  <2>1. /\ cap' = [b \in Blocks |-> IF b = x THEN 0 ELSE cap[b]]
        /\ hand' = [hand EXCEPT ![c] = Null]
        /\ UNCHANGED <<items, call, gi, want, phase>>
        /\ Reclaiming(c)
    BY <1>4 DEF HeapFreeHand
  <2>2. \A b \in Blocks, d \in Cpus : hand'[d] = b <=> hand[d] = b /\ d # c
    BY <2>1, NullAssumption DEF TypeOK
  <2>3. /\ x \in Blocks => ~(cap'[x] > 0)
        /\ \A b \in Blocks \ {x} : cap'[b] = cap[b]
    BY <2>1
  <2>4. ASSUME NEW b \in Blocks, b # x
        PROVE  PlaceFrom(b, items', call', hand', gi', cap', want')
                 = PlaceFrom(b, items, call, hand, gi, cap, want)
    <3>1. \A d \in Cpus : hand'[d] = b <=> hand[d] = b
      BY <2>2, <2>4
    <3>2. cap'[b] = cap[b] /\ UNCHANGED <<items, call, gi, want>>
      BY <2>1, <2>3, <2>4
    <3> QED
      BY <3>1, <3>2, SamePlace
  <2>5. Closing' <=> Closing
    BY <2>1 DEF Closing
  <2>6. CASE x \in Blocks
    <3>1. OwnedOnce(x, items, call, hand, cap, want)
      BY <2>6 DEF Owned
    <3>2. /\ cap[x] > 0 /\ ~(want[x] > 0)
          /\ \A d \in Cpus : hand[d] = x => d = c
          /\ \A d \in Cpus : ~Freed(call, x, d)
          /\ \A j \in Groups, k \in Nat : ~At(items, x, j, k)
      BY ONLY <3>1, c \in Cpus DEF OwnedOnce
    <3>3. PlaceFrom(x, items', call', hand', gi', cap', want') = "heap"
      BY <2>1, <2>3, <2>6, <3>2 DEF PlaceFrom
    <3>4. CASE gi[c] = Reclaim
      <4>1. PlaceFrom(x, items, call, hand, gi, cap, want) = "trash"
        BY <3>2, <3>4 DEF PlaceFrom, TrashFrom
      <4> QED
        BY <2>4, <2>5, <2>6, <3>3, <4>1, LedgerMove DEF LedgerStep
    <3>5. CASE gi[c] # Reclaim
      <4>1. Closing
        BY <2>1, <3>5 DEF Reclaiming, Closing
      <4>2. PlaceFrom(x, items, call, hand, gi, cap, want) = "stock"
        BY <1>2, <3>2, <3>5 DEF PlaceFrom, TrashFrom
      <4> QED
        BY <2>4, <2>5, <2>6, <3>3, <4>1, <4>2, LedgerMove DEF LedgerStep
    <3> QED
      BY <3>4, <3>5
  <2>7. CASE x \notin Blocks
    BY <2>4, <2>5, <2>7, LedgerStutter DEF LedgerStep
  <2> QED
    BY <2>6, <2>7
<1>5. CASE HeapFillHand(c)
  <2>1. PICK x \in Blocks :
          /\ cap[x] = 0
          /\ cap' = [cap EXCEPT ![x] = ItemSize(gi[c])]
          /\ hand' = [hand EXCEPT ![c] = x]
    BY <1>5 DEF HeapFillHand
  <2>2. /\ hand[c] = Null /\ UNCHANGED <<items, call, gi, want, phase>>
        /\ gi[c] # Reclaim /\ phase # "unload" /\ pc[c] = "heap"
    BY <1>5 DEF HeapFillHand, HandState, Filling, Reclaiming
  <2>3. ~Closing /\ ~Closing'
    BY <2>2 DEF PhaseState, Closing
  <2>4. ItemSize(gi[c]) > 0
    BY <1>2, <2>2, ItemSizeAssumption
  <2>5. ~(cap[x] > 0) /\ cap'[x] > 0 /\ \A b \in Blocks \ {x} : cap'[b] = cap[b]
    BY <2>1, <2>4 DEF TypeOK
  <2>6. \A b \in Blocks, d \in Cpus : hand'[d] = b <=> (d = c /\ b = x) \/ hand[d] = b
    BY <2>1, <2>2, NullAssumption DEF TypeOK
  <2>7. OwnedOnce(x, items, call, hand, cap, want)
    BY DEF Owned
  <2>8. /\ ~(want[x] > 0)
        /\ \A d \in Cpus : hand[d] # x
        /\ \A i \in Groups, k \in Nat : ~At(items, x, i, k)
        /\ \A d \in Cpus : ~Freed(call, x, d)
    BY ONLY <2>5, <2>7 DEF OwnedOnce
  <2>9. PlaceFrom(x, items, call, hand, gi, cap, want) = "heap"
    BY ONLY <2>5, <2>8 DEF PlaceFrom
  <2>10. PlaceFrom(x, items', call', hand', gi', cap', want') = "stock"
    <3>1. \A d \in Cpus : ~(hand'[d] = x /\ gi'[d] = Reclaim)
      BY <2>2, <2>6, <2>8
    <3>2. ~TrashFrom(x, items', call', hand', gi')
      BY <1>2, <2>2, <2>8, <3>1 DEF TrashFrom
    <3> QED
      BY ONLY <2>2, <2>5, <2>8, <3>2 DEF PlaceFrom
  <2>11. \A b \in Blocks \ {x} : PlaceFrom(b, items', call', hand', gi', cap', want')
                                   = PlaceFrom(b, items, call, hand, gi, cap, want)
    <3>1. \A b \in Blocks \ {x}, d \in Cpus : hand'[d] = b <=> hand[d] = b
      BY <2>6
    <3> QED
      BY <2>2, <2>5, <3>1, SamePlace
  <2> QED
    BY <2>3, <2>9, <2>10, <2>11, LedgerMove DEF LedgerStep
<1>6. CASE HeapFillFails(c)
  <2>1. hand[c] = Null
    BY <1>6 DEF HeapFillFails, HandState, Filling
  <2>2. hand' = hand /\ UNCHANGED <<items, call, gi, cap, want>> /\ (Closing' <=> Closing)
    BY <1>6, <2>1 DEF HeapFillFails, TypeOK, Closing
  <2> QED
    BY <2>2, LedgerIdle DEF LedgerStep
<1>7. CASE RelockFill(c)
  <2> DEFINE x == hand[c]
  <2>1. PICK n \in Nat :
          /\ \A b \in Blocks : \A i \in Groups, k \in Nat :
               At(items', b, i, k)
                 <=> At(items, b, i, k) \/ (b = hand[c] /\ i = gi[c] /\ k = n)
          /\ \A b \in Blocks, d \in Cpus : hand'[d] = b <=> hand[d] = b /\ d # c
          /\ UNCHANGED <<call, gi, cap, want>>
    BY <1>7, RelockPlaces
  <2>2. gi[c] # Reclaim /\ (Closing' <=> Closing)
    BY <1>7 DEF RelockFill, Filling, Reclaiming, Closing
  <2>3. ASSUME NEW b \in Blocks
        PROVE  PlaceFrom(b, items', call', hand', gi', cap', want')
                 = PlaceFrom(b, items, call, hand, gi, cap, want)
    <3>1. \A k \in Nat : At(items', b, Reclaim, k) <=> At(items, b, Reclaim, k)
      BY <1>2, <2>1, <2>2
    <3>2. \A d \in Cpus : hand'[d] = b /\ gi'[d] = Reclaim <=> hand[d] = b /\ gi[d] = Reclaim
      BY <2>1, <2>2
    <3> QED
      BY <2>1, <3>1, <3>2, SamePlace
  <2> QED
    BY <2>2, <2>3, LedgerStutter DEF LedgerStep
<1> QED
  BY <1>1, <1>3, <1>4, <1>5, <1>6, <1>7 DEF MaintainStep

\* Every step of the pool is a step of the ledger, or one it does not see.
LEMMA NextLedger ==
  ASSUME IInv, IInv', OwnerInv, [Next]_vars
  PROVE  LedgerStep
<1> USE DEF poolVars, cpuVars, maintVars, memVars, sysVars
<1>1. /\ TypeOK /\ TypeOK' /\ PhaseState /\ Owned /\ HandState /\ UnloadState
  BY DEF IInv, MaintainInv, OwnerInv
<1>2. ASSUME NEW c \in Cpus, Interrupt(c) \/ InterruptReturn(c) PROVE LedgerStep
  <2>1. UNCHANGED <<items, call, hand, gi, cap, want, phase>>
    BY <1>2 DEF Interrupt, InterruptReturn
  <2> QED
    BY <1>1, <2>1, LedgerIdle DEF LedgerStep, Closing
<1>3. ASSUME NEW c \in Cpus, UnloadBegin(c) PROVE LedgerStep
  <2>1. /\ UNCHANGED <<items, call, hand, cap, want>>
        /\ gi' = [gi EXCEPT ![c] = Reclaim] /\ ~Closing /\ Closing'
    BY <1>3 DEF UnloadBegin, Closing
  <2>2. \A d \in Cpus : hand[d] = Null
    BY <1>1, <1>3 DEF UnloadBegin, Quiet, HandState
  <2>3. ASSUME NEW b \in Blocks PROVE PlaceOf(b)' = PlaceOf(b)
    <3>1. \A d \in Cpus : hand[d] # b
      BY <2>2, NullAssumption
    <3>2. PlaceFrom(b, items', call', hand', gi', cap', want')
            = PlaceFrom(b, items, call, hand, gi, cap, want)
      BY <2>1, <3>1, SamePlace
    <3> QED
      BY <1>1, <3>2, PlaceBefore, PlaceAfter
  <2> QED
    BY <2>1, <2>3 DEF LedgerStep, Ledger!LedgerNext, Closing
<1>4. CASE UNCHANGED vars
  BY <1>1, <1>4, LedgerIdle DEF LedgerStep, Closing, vars
<1> QED
  BY <1>1, <1>2, <1>3, <1>4, RmStepLedger, CallStepLedger, MaintainStepLedger DEF Next

\* The pool implements BlockLedger: whatever the interleaving, a block given back
\* with interrupts off goes through the heap before anybody gets it again, and
\* stocked blocks leave for the heap only in the teardown.
THEOREM PoolImplementsLedger == Spec => ImplementsLedger
<1>1. Init => Ledger!LedgerInit
  <2> SUFFICES ASSUME Init PROVE Ledger!LedgerInit
    OBVIOUS
  <2>1. \A b \in Blocks : PlaceOf(b) = "heap"
    BY DEF Init, PlaceOf
  <2> QED
    BY <2>1 DEF Init, Ledger!LedgerInit
<1>2. IInv /\ OwnerInv /\ IInv' /\ [Next]_vars => [Ledger!LedgerNext]_(Ledger!ledger)
  BY NextLedger DEF LedgerStep
<1> QED
  BY <1>1, <1>2, OwnerInvariance, PTL DEF Spec, ImplementsLedger, Ledger!LedgerSpec

-----------------------------------------------------------------------------
(* A heap that does not fail.                                              *)

\* No nullptr gets into a group, and none is on its way there.
NoNullStocked == \A i \in Groups, k \in Nat : ~At(items, Null, i, k)

NoNullCarried == \A c \in Cpus :
  pc[c] \in {"heapdone", "relock"} /\ Filling(c) => hand[c] # Null

\* Without a failing calloc() Maintain() has a block to push.
LEMMA CarriedStep ==
  ASSUME CallocMayFail = FALSE, TypeOK, PhaseState, OneMaintainer, NoNullCarried, [Next]_vars
  PROVE  NoNullCarried'
<1> USE NullAssumption
    DEF TypeOK, PhaseState, OneMaintainer, NoNullCarried, Maintaining,
        Filling, Reclaiming, poolVars, cpuVars, maintVars, memVars, sysVars
<1>1. ASSUME NEW c \in Cpus, RmStep(c) PROVE NoNullCarried'
  <2>1. CASE \/ os_acquire_spinlock(c) \/ HeapAlloc(c) \/ HeapFree(c)
             \/ EnterAlloc(c) \/ EnterFree(c)
    BY <2>1 DEF os_acquire_spinlock, HeapAlloc, HeapFree, EnterAlloc, EnterFree
  <2>2. CASE os_release_spinlock(c)
    BY <2>2 DEF os_release_spinlock
  <2> QED
    BY <1>1, <2>1, <2>2 DEF RmStep
<1>2. ASSUME NEW c \in Cpus, CallStep(c) PROVE NoNullCarried'
  BY <1>2 DEF CallStep, Alloc, AllocUnderflow, Free, FreeOverflow
<1>3. ASSUME NEW c \in Cpus,
             \/ DisableForMaintain(c) \/ MaintainBusy(c) \/ MaintainBegin(c)
             \/ FillNext(c) \/ EnableInterrupts(c) \/ NextGroup(c) \/ UnloadEnd(c)
      PROVE  NoNullCarried'
  BY <1>3 DEF DisableForMaintain, MaintainBusy, MaintainBegin, FillNext,
       EnableInterrupts, NextGroup, UnloadEnd, Thread, HoldsLoop
<1>4. ASSUME NEW c \in Cpus, ReclaimNext(c) PROVE NoNullCarried'
  BY <1>4 DEF ReclaimNext, Thread, HoldsLoop
<1>5. ASSUME NEW c \in Cpus, HeapFreeHand(c) PROVE NoNullCarried'
  BY <1>5 DEF HeapFreeHand, Thread, HoldsLoop
<1>6. ASSUME NEW c \in Cpus, HeapFillHand(c) PROVE NoNullCarried'
  BY <1>6 DEF HeapFillHand, Thread, HoldsLoop
<1>7. ASSUME NEW c \in Cpus, HeapFillFails(c) PROVE NoNullCarried'
  BY <1>7 DEF HeapFillFails
<1>8. ASSUME NEW c \in Cpus, DisableInterrupts(c) \/ RelockReclaim(c) PROVE NoNullCarried'
  BY <1>8 DEF DisableInterrupts, RelockReclaim, Thread, HoldsLoop
<1>9. ASSUME NEW c \in Cpus, RelockFill(c) PROVE NoNullCarried'
  BY <1>9 DEF RelockFill, Thread, HoldsLoop
<1>10. ASSUME NEW c \in Cpus, MaintainEnd(c) PROVE NoNullCarried'
  BY <1>10 DEF MaintainEnd, Thread, HoldsLoop
<1>11. ASSUME NEW c \in Cpus, Interrupt(c) \/ InterruptReturn(c) PROVE NoNullCarried'
  BY <1>11 DEF Interrupt, InterruptReturn
<1>12. ASSUME NEW c \in Cpus, UnloadBegin(c) PROVE NoNullCarried'
  BY <1>12 DEF UnloadBegin, Quiet
<1>13. CASE UNCHANGED vars
  BY <1>13 DEF vars
<1> QED
  BY <1>1, <1>2, <1>3, <1>4, <1>5, <1>6, <1>7, <1>8, <1>9, <1>10, <1>11, <1>12, <1>13
     DEF Next, MaintainStep

\* What is pushed is a block.
LEMMA StockedStep ==
  ASSUME TypeOK, NoNullStocked, NoNullCarried, [Next]_vars
  PROVE  NoNullStocked'
<1> USE DEF poolVars, cpuVars, maintVars, memVars, sysVars
<1>1. SUFFICES \A i \in Groups, k \in Nat : ~At(items', Null, i, k)
  BY DEF NoNullStocked, At
<1>2. \A i \in Groups, k \in Nat : ~At(items, Null, i, k)
  BY DEF NoNullStocked
<1>3. CASE items' = items
  BY <1>2, <1>3
<1>4. ASSUME NEW c \in Cpus, Alloc(c) \/ AllocUnderflow(c)
      PROVE  \A i \in Groups, k \in Nat : ~At(items', Null, i, k)
  <2>1. PICK S : items' = PopGroups(S)
    BY <1>4 DEF Alloc, AllocUnderflow
  <2> QED
    BY <1>2, <2>1, PopGroupsAt
<1>5. ASSUME NEW c \in Cpus, Free(c)
      PROVE  \A i \in Groups, k \in Nat : ~At(items', Null, i, k)
  <2>1. PICK x \in Blocks : call[c] = [op |-> "free", block |-> x]
    BY <1>5 DEF Free, FreeCalls
  <2>2. items' = [items EXCEPT ![Reclaim] = Append(@, x)] /\ x # Null
    BY <1>5, <2>1, NullAssumption DEF Free
  <2>3. Reclaim \in Groups /\ x \in Blocks \cup {Null}
    BY ShapeAssumption DEF Reclaim, Groups
  <2>4. \A i \in Groups, k \in Nat : At(items', Null, i, k) => At(items, Null, i, k)
    <3> DEFINE g == Reclaim
    <3>1. /\ g \in Groups /\ x \in Blocks \cup {Null} /\ x # Null
          /\ items' = [items EXCEPT ![g] = Append(@, x)]
      BY <2>2, <2>3
    <3> HIDE DEF g
    <3>2. \A b : \A i \in Groups, k \in Nat :
            At(items', b, i, k) <=>
              At(items, b, i, k) \/ (b = x /\ i = g /\ k = Len(items[g]) + 1)
      BY ONLY TypeOK, <3>1, PushedAt
    <3> QED
      BY ONLY <3>1, <3>2
  <2> QED
    BY <1>2, <2>4
<1>6. ASSUME NEW c \in Cpus, ReclaimNext(c)
      PROVE  \A i \in Groups, k \in Nat : ~At(items', Null, i, k)
  <2>1. /\ items[gi[c]] # <<>> /\ gi[c] \in Groups
        /\ items' = [items EXCEPT ![gi[c]] = Pop(@)]
    BY <1>6 DEF ReclaimNext, TypeOK
  <2> QED
    BY <1>2, <2>1, PoppedAt
<1>7. ASSUME NEW c \in Cpus, RelockFill(c)
      PROVE  \A i \in Groups, k \in Nat : ~At(items', Null, i, k)
  <2>1. /\ gi[c] \in Groups /\ hand[c] \in Blocks \cup {Null}
        /\ items' = [items EXCEPT ![gi[c]] = Append(@, hand[c])]
    BY <1>7 DEF RelockFill, TypeOK
  <2>2. hand[c] # Null
    BY <1>7 DEF RelockFill, NoNullCarried
  <2>3. \A i \in Groups, k \in Nat : At(items', Null, i, k) => At(items, Null, i, k)
    <3> DEFINE g == gi[c]
               x == hand[c]
    <3>1. /\ g \in Groups /\ x \in Blocks \cup {Null} /\ x # Null
          /\ items' = [items EXCEPT ![g] = Append(@, x)]
      BY <2>1, <2>2
    <3> HIDE DEF g, x
    <3>2. \A b : \A i \in Groups, k \in Nat :
            At(items', b, i, k) <=>
              At(items, b, i, k) \/ (b = x /\ i = g /\ k = Len(items[g]) + 1)
      BY ONLY TypeOK, <3>1, PushedAt
    <3> QED
      BY ONLY <3>1, <3>2
  <2> QED
    BY <1>2, <2>3
<1>8. ASSUME NEW c \in Cpus,
             \/ FreeOverflow(c) \/ Interrupt(c) \/ InterruptReturn(c) \/ UnloadBegin(c)
             \/ RmStep(c)
      PROVE  items' = items
  BY <1>8 DEF FreeOverflow, Interrupt, InterruptReturn, UnloadBegin, RmStep,
       os_acquire_spinlock, os_release_spinlock, HeapAlloc, HeapFree, EnterAlloc, EnterFree
<1>9. ASSUME NEW c \in Cpus,
             \/ DisableForMaintain(c) \/ MaintainBusy(c) \/ MaintainBegin(c)
             \/ FillNext(c) \/ EnableInterrupts(c) \/ HeapFreeHand(c) \/ HeapFillHand(c)
             \/ HeapFillFails(c) \/ DisableInterrupts(c) \/ RelockReclaim(c)
             \/ NextGroup(c) \/ MaintainEnd(c) \/ UnloadEnd(c)
      PROVE  items' = items
  BY <1>9 DEF DisableForMaintain, MaintainBusy, MaintainBegin, FillNext,
       EnableInterrupts, HeapFreeHand, HeapFillHand, HeapFillFails, DisableInterrupts,
       RelockReclaim, NextGroup, MaintainEnd, UnloadEnd
<1>10. UNCHANGED vars => items' = items
  BY DEF vars
<1> QED
  BY <1>3, <1>4, <1>5, <1>6, <1>7, <1>8, <1>9, <1>10 DEF Next, CallStep, MaintainStep

\* The panics are told apart.
LEMMA PanicKinds ==
  /\ \A a : Underflow(a) # NoPanic /\ Underflow(a) # Overflow
  /\ \A a, b : Underflow(a) = Underflow(b) => a = b
<1>1. \A a : Underflow(a).why = "underflow" /\ Underflow(a).size = a
  BY DEF Underflow
<1>2. NoPanic.why = "none" /\ Overflow.why = "overflow"
  BY DEF NoPanic, Overflow
<1> QED
  BY <1>1, <1>2

\* The groups Alloc found without a block are empty.
LEMMA UnderflowStep ==
  ASSUME TypeOK, NoNullStocked, UnderflowMeansEmpty, [Next]_vars
  PROVE  UnderflowMeansEmpty'
<1> USE DEF poolVars, cpuVars, maintVars, memVars, sysVars
<1>1. SUFFICES ASSUME NEW size \in Sizes, panicked' = Underflow(size),
                      NEW i \in Fitting(size), NEW b \in Blocks,
                      NEW k \in 1 .. Len(items'[i])
               PROVE  items'[i][k] # b
  BY DEF UnderflowMeansEmpty
<1>2. CASE panicked = Underflow(size)
  <2>1. ~Running
    BY <1>2, PanicKinds DEF Running
  <2>2. items' = items
    <3>1. ASSUME NEW c \in Cpus, RmStep(c) PROVE items' = items
      BY <3>1 DEF RmStep, os_acquire_spinlock, os_release_spinlock, HeapAlloc, HeapFree,
         EnterAlloc, EnterFree
    <3>2. ASSUME NEW c \in Cpus, CallStep(c) PROVE items' = items
      BY <2>1, <3>2 DEF CallStep, Alloc, AllocUnderflow, Free, FreeOverflow
    <3>3. ASSUME NEW c \in Cpus, MaintainStep(c) PROVE items' = items
      <4>1. ~Thread(c) /\ ~HoldsLoop(c)
        BY <2>1 DEF Thread, HoldsLoop
      <4> QED
        BY <3>3, <4>1 DEF MaintainStep, DisableForMaintain, MaintainBusy, MaintainBegin, ReclaimNext,
           FillNext, EnableInterrupts, HeapFreeHand, HeapFillHand, HeapFillFails,
           DisableInterrupts, RelockReclaim, RelockFill, NextGroup, MaintainEnd, UnloadEnd
    <3>4. ASSUME NEW c \in Cpus, Interrupt(c) \/ InterruptReturn(c) \/ UnloadBegin(c)
          PROVE  items' = items
      BY <3>4 DEF Interrupt, InterruptReturn, UnloadBegin
    <3> QED
      BY <3>1, <3>2, <3>3, <3>4 DEF Next, vars
  <2> QED
    BY <1>1, <1>2, <2>2 DEF UnderflowMeansEmpty
<1>3. CASE panicked # Underflow(size)
  <2>1. PICK c \in Cpus : AllocUnderflow(c)
    <3>1. panicked' # panicked /\ panicked' # Overflow
      BY <1>1, <1>3, PanicKinds
    <3>2. ASSUME NEW c \in Cpus, RmStep(c) PROVE FALSE
      BY <3>1, <3>2 DEF RmStep, os_acquire_spinlock, os_release_spinlock, HeapAlloc, HeapFree,
         EnterAlloc, EnterFree
    <3>3. ASSUME NEW c \in Cpus, CallStep(c) PROVE AllocUnderflow(c)
      BY <3>1, <3>3 DEF CallStep, Alloc, Free, FreeOverflow
    <3>4. ASSUME NEW c \in Cpus, MaintainStep(c) PROVE FALSE
      BY <3>1, <3>4 DEF MaintainStep, DisableForMaintain, MaintainBusy, MaintainBegin, ReclaimNext,
         FillNext, EnableInterrupts, HeapFreeHand, HeapFillHand, HeapFillFails,
         DisableInterrupts, RelockReclaim, RelockFill, NextGroup, MaintainEnd, UnloadEnd
    <3>5. ASSUME NEW c \in Cpus, Interrupt(c) \/ InterruptReturn(c) \/ UnloadBegin(c)
          PROVE  FALSE
      BY <3>1, <3>5 DEF Interrupt, InterruptReturn, UnloadBegin
    <3> QED
      BY <3>1, <3>2, <3>3, <3>4, <3>5 DEF Next, vars
  <2>2. call[c].size = size
    BY <1>1, <2>1, PanicKinds DEF AllocUnderflow
  <2>3. i \in Groups /\ ~HasBlock(i)
    BY <2>1, <2>2 DEF AllocUnderflow, Fitting
  <2>4. items[i] = <<>>
    <3>1. SUFFICES ASSUME items[i] # <<>> PROVE FALSE
      OBVIOUS
    <3>2. items[i] \in Seq(Blocks \cup {Null})
      BY <2>3 DEF TypeOK
    <3>3. Len(items[i]) \in Nat \ {0}
      BY <3>1, <3>2, PopProperties
    <3>4. At(items, Top(items[i]), i, Len(items[i]))
      BY <3>3 DEF At, Top
    <3>5. Top(items[i]) = Null
      BY <2>3, <3>1 DEF HasBlock
    <3> QED
      BY <2>3, <3>3, <3>4, <3>5 DEF NoNullStocked
  <2>5. items'[i] = <<>>
    BY <2>1, <2>3, <2>4 DEF AllocUnderflow, PopGroups
  <2> QED
    BY <1>1, <2>5
<1> QED
  BY <1>2, <1>3

\* As long as the heap does not fail, a pool that says it ran dry has no block
\* that fits the request.
THEOREM UnderflowIsHonest ==
  ASSUME CallocMayFail = FALSE
  PROVE  Spec => []UnderflowMeansEmpty
<1> DEFINE Inv == NoNullStocked /\ NoNullCarried /\ UnderflowMeansEmpty
<1>1. Init => Inv
  <2> SUFFICES ASSUME Init PROVE Inv
    OBVIOUS
  <2>1. NoNullStocked
    <3>1. Len(<<>>) = 0
      OBVIOUS
    <3> QED
      BY <3>1 DEF Init, NoNullStocked, At
  <2>2. NoNullCarried
    BY DEF Init, NoNullCarried
  <2>3. UnderflowMeansEmpty
    BY PanicKinds DEF Init, UnderflowMeansEmpty
  <2> QED
    BY <2>1, <2>2, <2>3
<1>2. IInv /\ Inv /\ [Next]_vars => Inv'
  BY CarriedStep, StockedStep, UnderflowStep DEF IInv, MaintainInv
<1>3. Inv => UnderflowMeansEmpty
  OBVIOUS
<1> HIDE DEF Inv
<1> QED
  BY <1>1, <1>2, <1>3, Invariance, PTL DEF Spec

=============================================================================
