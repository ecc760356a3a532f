------------------------------- MODULE Layout -------------------------------
(***************************************************************************)
(* Memory layout policies (src/core/vm_layout.c): where the five regions   *)
(* lie.  The arithmetic is that of unsigned words up to UMax; the builders *)
(* compare in 64 bits.  Of the per-tier limits only those of the selected  *)
(* safety tier are kept, and a policy always names a known tier.           *)
(***************************************************************************)
EXTENDS Integers, Sequences

CONSTANTS UMax,        \* UINT32_MAX
          FixedBase,   \* VM_LAYOUT_FIXED_*_BASE of code, data, const and heap
          FixedSize,   \* VM_LAYOUT_FIXED_*_SIZE of all five
          StackTop,    \* VM_LAYOUT_FIXED_STACK_TOP
          Alignment,   \* VM_LAYOUT_DEFAULT_REGION_ALIGNMENT
          TotalLimit,  \* VM_LAYOUT_DEFAULT_MAX_TOTAL_RESERVATION
          RandomRange, \* <<VM_LAYOUT_RANDOM_BASE_MIN, VM_LAYOUT_RANDOM_BASE_LIMIT>>
          Mix          \* vm_layout_mix_seed, as a function on seeds

Code == 1
Data == 2
Const == 3
Heap == 4
StackRegion == 5
Kinds == 1 .. 5

Word  == 0 .. UMax
Modes == {"fixed", "automatic", "seeded", "fresh"}
Randomized(mode) == mode \in {"seeded", "fresh"}

\* Minimum sizes are positive.
RegionPolicy == [base : Word, limit : Word, min : Word \ {0}, max : Word]
Policy == [mode : Modes, alignment : Word, gap : Word, randomMin : Word, randomLimit : Word,
           hasSeed : BOOLEAN, seed : Word, heapRequest : Word, stackRequest : Word,
           totalLimit : Word, regions : [Kinds -> RegionPolicy]]

ASSUME LayoutAssumption ==
  /\ UMax \in Nat \ {0} /\ StackTop \in Word /\ Alignment \in Word \ {0} /\ TotalLimit \in Word
  /\ FixedBase \in [1 .. 4 -> Word] /\ FixedSize \in [Kinds -> Word \ {0}]
  /\ FixedSize[StackRegion] <= StackTop
  /\ \A k \in 1 .. 4 : FixedBase[k] + FixedSize[k] <= UMax
  /\ \A k \in 1 .. 3 : FixedBase[k] <= FixedBase[k + 1]
  /\ FixedBase[Heap] <= StackTop
  /\ RandomRange \in Word \X Word
  /\ Mix \in [Word -> Word]

-----------------------------------------------------------------------------

Base(k)  == IF k = StackRegion THEN StackTop - FixedSize[k] ELSE FixedBase[k]
After(k) == IF k = Heap THEN StackTop ELSE FixedBase[k + 1]

DefaultPolicy ==
  [mode |-> "fixed", alignment |-> Alignment, gap |-> 0,
   randomMin |-> RandomRange[1], randomLimit |-> RandomRange[2],
   hasSeed |-> FALSE, seed |-> 0,
   heapRequest |-> FixedSize[Heap], stackRequest |-> FixedSize[StackRegion],
   totalLimit |-> TotalLimit,
   regions |-> [k \in Kinds |->
     [base |-> Base(k), limit |-> Base(k) + FixedSize[k], min |-> 1,
      max |-> IF k = StackRegion THEN StackTop ELSE After(k) - Base(k)]]]

SizeIn(p, k) == p.regions[k].limit - p.regions[k].base

\* The sizes of the regions before region k, taken together.
SizeBefore(p, k) ==
  (IF k > 1 THEN SizeIn(p, 1) ELSE 0) + (IF k > 2 THEN SizeIn(p, 2) ELSE 0)
    + (IF k > 3 THEN SizeIn(p, 3) ELSE 0) + (IF k > 4 THEN SizeIn(p, 4) ELSE 0)
    + (IF k > 5 THEN SizeIn(p, 5) ELSE 0)

Total(p) == SizeBefore(p, 6)

InRandomRange(p, r) ==
  p.randomMin <= r.base /\ r.limit <= p.randomLimit /\ r.base % p.alignment = 0

\* A slip: the heap may reach into the stack.
SeparatedUpToHeap(p) ==
  \A k \in 1 .. 3 : p.regions[k].limit + p.gap <= p.regions[k + 1].base

Separated(p) == \A k \in 1 .. 4 : p.regions[k].limit + p.gap <= p.regions[k + 1].base

PolicyIsValid(p) ==
  /\ p.alignment > 0
  /\ Randomized(p.mode) => p.randomMin < p.randomLimit
  /\ \A k \in Kinds : LET r == p.regions[k] IN
       /\ r.base < r.limit
       /\ Randomized(p.mode) => InRandomRange(p, r)
       /\ SizeIn(p, k) \in r.min .. r.max
  /\ Total(p) <= p.totalLimit
  /\ Separated(p)

-----------------------------------------------------------------------------
(* The size-only configuration of vm_memory_init. *)

ConfigFits(sizes) ==
  /\ \A k \in Kinds : sizes[k] > 0
  /\ \A k \in 1 .. 4 : FixedBase[k] + sizes[k] <= UMax
  /\ sizes[StackRegion] <= StackTop

PolicyFromConfig(sizes) ==
  [DefaultPolicy EXCEPT
     !.heapRequest = sizes[Heap], !.stackRequest = sizes[StackRegion],
     !.regions = [k \in Kinds |->
        IF k = StackRegion THEN [@[k] EXCEPT !.base = StackTop - sizes[k], !.limit = StackTop]
                           ELSE [@[k] EXCEPT !.limit = FixedBase[k] + sizes[k]]]]

=============================================================================
