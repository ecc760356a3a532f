------------------------------ MODULE VmLayout ------------------------------
(***************************************************************************)
(* The layout builders (src/core/vm_layout.c): automatic sizing from       *)
(* program metadata, and randomized placement with a given or a fresh      *)
(* seed.  The generator of fresh seeds is the only state that outlives a   *)
(* call; the last request and its outcome are kept to state properties of. *)
(***************************************************************************)
EXTENDS Layout

CONSTANTS BasePolicies,  \* policies callers start from
          Programs,      \* metadata of the programs laid out
          Seeds,         \* where the generator of fresh seeds may stand
          NextSeed,      \* the linear congruential step, as a function on seeds
          SeedForZero    \* what replaces a zero seed

NoRequest == -1   \* has_heap_size_request or has_stack_size_request is false

Metadata == [code : Word, data : Word, uninitialized : Word, const : Word,
             heap : Word \cup {NoRequest}, stack : Word \cup {NoRequest}]

\* Callers start from the default policy; the sizes they allow stay within the address space.
ASSUME BuilderAssumption ==
  /\ \A p \in BasePolicies :
       /\ p \in Policy
       /\ \A k \in 1 .. 4 : p.regions[k].base + p.regions[k].max <= UMax
  /\ \A d \in Programs : d \in Metadata
  /\ \A s \in Seeds : s \in Word
  /\ NextSeed \in [Word -> Word] /\ SeedForZero \in Word

VARIABLES
  base,        \* the policy the caller starts from
  program,     \* the metadata of the program
  freshSeed,   \* g_vm_layout_fresh_seed_state
  outcome      \* the last build: its mode, verdict, and policy when it was built

layoutVars == <<base, program, freshSeed, outcome>>

NoRegion == [region |-> 0, requested |-> 0, limit |-> 0]
Verdict(status, diagnostic) == [status |-> status, diagnostic |-> diagnostic]
About(k, requested, limit)  == [region |-> k, requested |-> requested, limit |-> limit]

-----------------------------------------------------------------------------
(* Automatic sizing *)

Requested(n, default) == IF n = NoRequest THEN default ELSE n

RawSize(p, d, k) ==
  CASE k = Code  -> d.code
    [] k = Data  -> d.data + d.uninitialized
    [] k = Const -> d.const
    [] k = Heap  -> Requested(d.heap, p.heapRequest)
    [] OTHER     -> Requested(d.stack, p.stackRequest)

AtLeast(n, least) == IF n < least THEN least ELSE n

\* Taken for AlignUp it would be a slip.
AlignDown(n, a) == n - (n % a)

AlignUp(n, a) == n + ((a - (n % a)) % a)

AlignedSize(p, d, k) == AlignUp(AtLeast(RawSize(p, d, k), p.regions[k].min), p.alignment)

SizedTo(p, k, size) ==
  IF k = StackRegion THEN [p.regions[k] EXCEPT !.base = p.regions[k].limit - size]
                     ELSE [p.regions[k] EXCEPT !.limit = p.regions[k].base + size]

Sized(p, d) ==
  [p EXCEPT !.mode = "automatic",
            !.heapRequest = Requested(d.heap, @), !.stackRequest = Requested(d.stack, @),
            !.regions = [k \in Kinds |-> SizedTo(p, k, AlignedSize(p, d, k))]]

RegionTooLarge(p, d, k) == AlignedSize(p, d, k) > p.regions[k].max

RegionOverflows(p, d, k) ==
  IF k = StackRegion THEN AlignedSize(p, d, k) > p.regions[k].limit
                     ELSE p.regions[k].base + AlignedSize(p, d, k) > UMax

SizesUpTo(p, d, k) == SizeBefore(Sized(p, d), k + 1)

\* The first region that cannot take its size, and why.
RegionFaults(p, d) ==
  {k \in Kinds : RegionTooLarge(p, d, k) \/ RegionOverflows(p, d, k) \/ SizesUpTo(p, d, k) > UMax}

RegionFault(p, d, k) ==
  LET size == AlignedSize(p, d, k) IN
  IF RegionTooLarge(p, d, k)
  THEN Verdict("resource-limit-exceeded", About(k, size, p.regions[k].max))
  ELSE IF RegionOverflows(p, d, k)
  THEN Verdict("integer-overflow",
               About(k, size, IF k = StackRegion THEN p.regions[k].limit ELSE p.regions[k].max))
  ELSE Verdict("integer-overflow", NoRegion)

\* Room a - b - gap, or none.
Room(a, b, gap) == IF a >= b + gap THEN a - b - gap ELSE 0

\* Region k of the sized policy q runs into region k + 1.
Collides(q, k) == q.regions[k].limit + q.gap > q.regions[k + 1].base

\* A slip: the room for the stack ignores the guard gap.
CollisionIgnoringGap(q, k) ==
  IF k = Heap /\ q.regions[StackRegion].base < q.regions[Heap].base
  THEN About(StackRegion, SizeIn(q, StackRegion), Room(q.regions[StackRegion].limit, q.regions[Heap].limit, 0))
  ELSE About(k, SizeIn(q, k), Room(q.regions[k + 1].base, q.regions[k].base, q.gap))

\* Who is told to shrink, and to what: the stack when it starts below the heap.  (The
\* code's further case, a heap that fits below a colliding stack, cannot happen.)
Collision(q, k) ==
  IF k = Heap /\ q.regions[StackRegion].base < q.regions[Heap].base
  THEN About(StackRegion, SizeIn(q, StackRegion),
             Room(q.regions[StackRegion].limit, q.regions[Heap].limit, q.gap))
  ELSE About(k, SizeIn(q, k), Room(q.regions[k + 1].base, q.regions[k].base, q.gap))

Least(s) == CHOOSE k \in s : \A j \in s : k <= j

Automatic(p, d) ==
  LET q == Sized(p, d)
      collisions == {k \in 1 .. 4 : Collides(q, k)}
  IN  IF p.alignment = 0 \/ Randomized(p.mode) THEN Verdict("invalid-argument", NoRegion)
      ELSE IF RawSize(p, d, Data) > UMax
      THEN Verdict("integer-overflow", About(Data, UMax, p.regions[Data].max))
      ELSE IF \E k \in Kinds : AlignedSize(p, d, k) > UMax THEN Verdict("integer-overflow", NoRegion)
      ELSE IF RegionFaults(p, d) # {} THEN RegionFault(p, d, Least(RegionFaults(p, d)))
      ELSE IF SizesUpTo(p, d, StackRegion) > p.totalLimit THEN Verdict("resource-limit-exceeded", NoRegion)
      ELSE IF collisions # {}
      THEN Verdict("resource-limit-exceeded", Collision(q, Least(collisions)))
      ELSE IF ~PolicyIsValid(q) THEN Verdict("invalid-argument", NoRegion)
      ELSE Verdict("ok", NoRegion)

-----------------------------------------------------------------------------
(* Randomized placement *)

Span(q) == Total(q) + 4 * q.gap
Start(q) == AlignUp(q.randomMin, q.alignment)

FirstBase(q) ==
  LET slots == (q.randomLimit - Start(q) - Span(q)) \div q.alignment + 1
  IN  Start(q) + (Mix[q.seed] % slots) * q.alignment

\* The regions one after the other, a guard gap between them.
PlacedBase(q, k) ==
  FirstBase(q) + (k - 1) * q.gap + SizeBefore(q, k)

Placed(q) ==
  [q EXCEPT !.regions = [k \in Kinds |->
     [@[k] EXCEPT !.base = PlacedBase(q, k), !.limit = PlacedBase(q, k) + SizeIn(q, k)]]]

Placement(q) ==
  IF q.randomMin >= q.randomLimit THEN Verdict("invalid-argument", NoRegion)
  ELSE IF Start(q) > UMax \/ Start(q) >= q.randomLimit THEN Verdict("randomization-unavailable", NoRegion)
  ELSE IF Span(q) > UMax THEN Verdict("integer-overflow", NoRegion)
  ELSE IF Span(q) > q.randomLimit - Start(q) THEN Verdict("randomization-unavailable", NoRegion)
  ELSE IF ~PolicyIsValid(Placed(q)) THEN Verdict("invalid-argument", NoRegion)
  ELSE Verdict("ok", NoRegion)

\* Randomized modes size like the automatic one.
SizingBase(p) == [p EXCEPT !.mode = "automatic"]

\* The policy sized for the program, before its regions are moved.
Seeded(p, d, mode, seed) ==
  [Sized(SizingBase(p), d) EXCEPT !.mode = mode, !.hasSeed = TRUE, !.seed = seed]

\* What building in one of the randomized modes with this seed gives.
RandomizedOutcome(p, d, mode, seed) ==
  LET sizing == Automatic(SizingBase(p), d)
      q == Seeded(p, d, mode, seed)
      v == IF sizing.status = "ok" THEN Placement(q) ELSE sizing
  IN  [mode |-> mode, verdict |-> v, policy |-> IF v.status = "ok" THEN Placed(q) ELSE p]

-----------------------------------------------------------------------------
(* The calls *)

BuildAutomatic ==
  LET v == Automatic(base, program) IN
  /\ outcome' = [mode |-> "automatic", verdict |-> v,
                 policy |-> IF v.status = "ok" THEN Sized(base, program) ELSE base]
  /\ UNCHANGED <<base, program, freshSeed>>

\* A seed the policy carries, or VM_LAYOUT_DEFAULT_RANDOM_SEED.
BuildSeeded ==
  /\ outcome' = RandomizedOutcome(base, program, "seeded", IF base.hasSeed THEN base.seed ELSE 0)
  /\ UNCHANGED <<base, program, freshSeed>>

GeneratedSeed == IF NextSeed[freshSeed] = 0 THEN SeedForZero ELSE NextSeed[freshSeed]

\* A fresh seed is drawn only once the sizes are known to fit.
DrawsSeed == Automatic(SizingBase(base), program).status = "ok"

FreshOutcome == RandomizedOutcome(base, program, "fresh", GeneratedSeed)

BuildFresh ==
  /\ outcome' = FreshOutcome
  /\ freshSeed' = IF DrawsSeed THEN GeneratedSeed ELSE freshSeed
  /\ UNCHANGED <<base, program>>

LayoutInit ==
  /\ base \in BasePolicies /\ program \in Programs /\ freshSeed \in Seeds
  /\ outcome = [mode |-> "none", verdict |-> Verdict("none", NoRegion), policy |-> base]

LayoutNext == BuildAutomatic \/ BuildSeeded \/ BuildFresh

LayoutSpec == LayoutInit /\ [][LayoutNext]_layoutVars

-----------------------------------------------------------------------------
(* Properties *)

Built == outcome.verdict.status = "ok"

\* A layout that was built has room for what the program and the requests ask for in
\* every region, keeps regions a guard gap apart, leaves the fixed bases and the top of
\* the stack where they were when sizing automatically, and stays in the random range.
BuiltLayoutFitsProgram ==
  Built =>
    LET q == outcome.policy IN
    /\ \A k \in Kinds : SizeIn(q, k) >= RawSize(base, program, k)
    /\ \A j, k \in Kinds : j < k => q.regions[j].limit + q.gap <= q.regions[k].base
    /\ outcome.mode = "automatic" =>
         /\ \A k \in 1 .. 4 : q.regions[k].base = base.regions[k].base
         /\ q.regions[StackRegion].limit = base.regions[StackRegion].limit
    /\ outcome.mode # "automatic" =>
         \A k \in Kinds : InRandomRange(q, q.regions[k])

\* The validity check that ends both builders is never what refuses a layout: a size, an
\* order or a range that does not work out is reported as such before.  (Randomized modes
\* do refuse a guard gap that is not a multiple of the alignment this way.)
InvalidOnlyForBadArguments ==
  outcome.verdict.status = "invalid-argument" =>
    \/ base.alignment = 0
    \/ outcome.mode = "automatic" /\ Randomized(base.mode)
    \/ outcome.mode # "automatic" /\ base.randomMin >= base.randomLimit
    \/ outcome.mode # "automatic" /\ base.gap % base.alignment # 0

\* The program with region k shrunk to n bytes.
Shrunk(d, k, n) ==
  CASE k = Code  -> [d EXCEPT !.code = n]
    [] k = Data  -> [d EXCEPT !.data = n, !.uninitialized = 0]
    [] k = Const -> [d EXCEPT !.const = n]
    [] k = Heap  -> [d EXCEPT !.heap = n]
    [] OTHER     -> [d EXCEPT !.stack = n]

\* The limit a resource diagnostic quotes can be acted on: the size asked for exceeds it,
\* and shrinking that region to the aligned size within it settles the complaint: the
\* region is refused again, if at all, for a tighter limit.  Where heap and stack collide,
\* the last check of all, following the advice gives a layout.
QuotedLimitIsHonest ==
  LET v == outcome.verdict
      g == v.diagnostic
      n == AlignDown(g.limit, base.alignment)
  IN  (v.status = "resource-limit-exceeded" /\ g.region \in Kinds) =>
        /\ g.requested > g.limit
        /\ n >= base.regions[g.region].min =>
             LET again == Automatic(SizingBase(base), Shrunk(program, g.region, n))
             IN  /\ again.diagnostic.region = g.region => again.diagnostic.limit < g.limit
                 /\ (g.region \in {Heap, StackRegion} /\ g.limit < base.regions[g.region].max)
                      => again.status = "ok"

\* What refuses a layout is a real cause, and the limit it quotes helps.
RefusalsAreHonest == InvalidOnlyForBadArguments /\ QuotedLimitIsHonest

\* A fresh run can be reproduced: building in seeded mode from the seed it recorded puts
\* every region at the same place.
FreshLayoutIsReproducible ==
  (Built /\ outcome.mode = "fresh") =>
    LET again == RandomizedOutcome(base, program, "seeded", outcome.policy.seed) IN
    /\ again.verdict.status = "ok"
    /\ again.policy.regions = outcome.policy.regions

\* A layout that was built suits its program, and a fresh one can be built again.
BuiltLayoutsKeepTheirPromise == BuiltLayoutFitsProgram /\ FreshLayoutIsReproducible

=============================================================================
