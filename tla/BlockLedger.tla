----------------------------- MODULE BlockLedger -----------------------------
(***************************************************************************)
(* What the interrupt-safe pool promises about each block of memory,       *)
(* whatever its groups, locks and CPUs do.  A block belongs to the heap,   *)
(* to the pool's stock, to the RM code that asked for it, or to the        *)
(* blocks that RM gave back and that wait for the heap.  A block RM gave   *)
(* back is never handed out again before the heap had it, and stocked      *)
(* blocks return to the heap only when the driver goes away.               *)
(***************************************************************************)
CONSTANT Blocks
VARIABLES
  place,    \* who has each block: "heap", "stock", "used" or "trash"
  closing   \* the driver is being torn down

ledger == <<place, closing>>

LedgerTypeOK ==
  /\ place \in [Blocks -> {"heap", "stock", "used", "trash"}]
  /\ closing \in BOOLEAN

LedgerInit == place = [b \in Blocks |-> "heap"] /\ closing = FALSE

Move(b, from, to) ==
  /\ place[b] = from
  /\ place' = [place EXCEPT ![b] = to]
  /\ UNCHANGED closing

LedgerNext ==
  \/ \E b \in Blocks :
       \/ ~closing /\ Move(b, "heap", "used")     \* calloc by RM
       \/ ~closing /\ Move(b, "used", "heap")     \* free by RM
       \/ ~closing /\ Move(b, "heap", "stock")    \* the pool stocks up
       \/ ~closing /\ Move(b, "stock", "used")    \* the pool serves RM
       \/ ~closing /\ Move(b, "used", "trash")    \* RM gives it back
       \/ Move(b, "trash", "heap")                \* the pool reclaims it
       \/ closing /\ Move(b, "stock", "heap")     \* the pool is emptied
  \/ ~closing /\ closing' = TRUE /\ UNCHANGED place

LedgerSpec == LedgerInit /\ [][LedgerNext]_ledger

=============================================================================
