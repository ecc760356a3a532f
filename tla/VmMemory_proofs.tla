--------------------------- MODULE VmMemory_proofs ---------------------------
(***************************************************************************)
(* The regions of VmMemory stay disjoint, code and constants stay as       *)
(* loaded, what is written is read back, and the recorder tells what       *)
(* changed, for every valid layout policy and every sequence of accesses.  *)
(* The layouts VmLayout builds suit their programs, a fresh one is built   *)
(* again from the seed it records, and refusals are for a reason.          *)
(***************************************************************************)
EXTENDS VmMemory, VmLayout, Recursion

Shape(x) ==
  /\ DOMAIN x = {"regions", "changes", "overflowed"} /\ x = [f \in DOMAIN x |-> x[f]]
  /\ DOMAIN x.regions = Kinds /\ x.regions = [k \in Kinds |-> x.regions[k]]
  /\ \A k \in Kinds : LET r == x.regions[k] IN
       DOMAIN r = {"base", "size", "permissions", "bytes"} /\ r = [f \in DOMAIN r |-> r[f]]

\* The regions lie in order, and none has more permissions than its kind is granted.
Spaced(x) ==
  /\ \A k \in Kinds : LET r == x.regions[k] IN
       r.base \in Int /\ r.size \in Nat /\ r.permissions \subseteq Granted(k)
  /\ \A j, k \in Kinds : LET q == x.regions[j] IN LET r == x.regions[k] IN
       (j < k /\ q.size > 0 /\ r.size > 0) => q.base + q.size <= r.base

Inv == Shape(memory) /\ Spaced(memory)

\* y has the regions of x, where it has them, with the same permissions.
SamePlaces(x, y) ==
  \A k \in Kinds : LET q == x.regions[k] IN LET r == y.regions[k] IN
    r.base = q.base /\ r.size = q.size /\ r.permissions = q.permissions

LEMMA AppendedAfter ==
  ASSUME NEW S, NEW a \in Seq(S), NEW b \in Seq(S), NEW c \in S
  PROVE  a \o Append(b, c) = Append(a \o b, c)
OBVIOUS

LEMMA SpacedByPlaces ==
  ASSUME NEW STATE x, NEW STATE y, Spaced(x), SamePlaces(x, y)
  PROVE  Spaced(y)
BY DEF Spaced, SamePlaces

\* Replacing the bytes of one region leaves the others and every place alone.
LEMMA PutBytes ==
  ASSUME NEW STATE x, Shape(x), NEW STATE k, NEW STATE b
  PROVE  LET y == [x EXCEPT !.regions[k].bytes = b] IN
         /\ Shape(y) /\ SamePlaces(x, y)
         /\ \A j \in Kinds : j # k => y.regions[j].bytes = x.regions[j].bytes
<1> DEFINE r == [x.regions EXCEPT ![k].bytes = b]
           y == [x EXCEPT !.regions = r]
<1>1. y = [x EXCEPT !.regions[k].bytes = b]
  OBVIOUS
<1>2. /\ DOMAIN r = Kinds /\ r = [j \in Kinds |-> r[j]]
      /\ \A j \in Kinds : /\ DOMAIN r[j] = {"base", "size", "permissions", "bytes"}
                          /\ r[j] = [f \in DOMAIN r[j] |-> r[j][f]]
  BY DEF Shape
<1>3. \A j \in Kinds : /\ r[j].base = x.regions[j].base /\ r[j].size = x.regions[j].size
                       /\ r[j].permissions = x.regions[j].permissions
                       /\ r[j].bytes = IF j = k THEN b ELSE x.regions[j].bytes
  BY DEF Shape
<1> HIDE DEF r
<1>4. /\ DOMAIN y = {"regions", "changes", "overflowed"} /\ y = [f \in DOMAIN y |-> y[f]]
      /\ y.regions = r
  BY DEF Shape
<1> HIDE DEF y
<1>5. Shape(y)
  BY <1>2, <1>4 DEF Shape
<1>6. SamePlaces(x, y)
  BY <1>3, <1>4 DEF SamePlaces
<1> QED
  BY <1>1, <1>3, <1>4, <1>5, <1>6

LEMMA PutBytesThere ==
  ASSUME NEW STATE x, Shape(x), NEW STATE k, k \in Kinds, NEW STATE b
  PROVE  [x EXCEPT !.regions[k].bytes = b].regions[k].bytes = b
<1> DEFINE q == [x.regions[k] EXCEPT !.bytes = b]
           r == [x.regions EXCEPT ![k] = q]
           y == [x EXCEPT !.regions = r]
<1>1. q.bytes = b
  BY DEF Shape
<1> HIDE DEF q
<1>2. r[k] = q
  BY DEF Shape
<1>3. y = [x EXCEPT !.regions[k].bytes = b]
  BY DEF q
<1> HIDE DEF r
<1>4. y.regions = r
  BY DEF Shape
<1> HIDE DEF y
<1> QED
  BY <1>1, <1>2, <1>3, <1>4

\* What the recorder keeps does not touch the regions.
LEMMA Record ==
  ASSUME NEW STATE x, Shape(x), NEW STATE c, NEW STATE o
  PROVE  LET y == [x EXCEPT !.changes = c, !.overflowed = o] IN
         Shape(y) /\ y.regions = x.regions
<1> DEFINE y == [x EXCEPT !.changes = c, !.overflowed = o]
<1>1. /\ DOMAIN y = {"regions", "changes", "overflowed"} /\ y = [f \in DOMAIN y |-> y[f]]
      /\ y.regions = x.regions
  BY DEF Shape
<1> HIDE DEF y
<1>2. Shape(y)
  BY <1>1 DEF Shape
<1> QED
  BY <1>1, <1>2 DEF y

LEMMA PuttingKeeps ==
  ASSUME NEW STATE x, Shape(x), NEW STATE k, NEW STATE a, NEW STATE s
  PROVE  LET y == Putting(x, k, a, s) IN
         /\ Shape(y) /\ SamePlaces(x, y)
         /\ \A j \in Kinds : j # k => y.regions[j].bytes = x.regions[j].bytes
<1> DEFINE b == [i \in DOMAIN x.regions[k].bytes |->
                   LET j == i - (a - x.regions[k].base) + 1
                   IN  IF j \in DOMAIN s THEN s[j] ELSE x.regions[k].bytes[i]]
<1>1. Putting(x, k, a, s) = [x EXCEPT !.regions[k].bytes = b]
  BY DEF Putting
<1> HIDE DEF b
<1> QED
  BY <1>1, PutBytes

\* The bytes of region r with the sequence s put over them at address a.
Over(r, a, s) ==
  [i \in DOMAIN r.bytes |->
     LET j == i - (a - r.base) + 1 IN IF j \in DOMAIN s THEN s[j] ELSE r.bytes[i]]

LEMMA PuttingPuts ==
  ASSUME NEW STATE x, Shape(x), NEW STATE k, k \in Kinds, NEW STATE a, NEW STATE s
  PROVE  Putting(x, k, a, s).regions[k].bytes = Over(x.regions[k], a, s)
<1> DEFINE b == Over(x.regions[k], a, s)
<1>1. Putting(x, k, a, s) = [x EXCEPT !.regions[k].bytes = b]
  BY DEF Putting, Over
<1> HIDE DEF b
<1>2. [x EXCEPT !.regions[k].bytes = b].regions[k].bytes = b
  BY PutBytesThere
<1> QED
  BY <1>1, <1>2 DEF b

\* A checked write that succeeds writes to data, heap or stack.
LEMMA WriteTarget ==
  ASSUME NEW STATE x, Spaced(x), NEW STATE a, NEW STATE n, NEW STATE d,
         Succeeded(Validate(x, "write", a, n, d))
  PROVE  First(Containing(x, a, n)) \notin {Code, Const}
<1> DEFINE k == First(Containing(x, a, n))
<1>1. k # Code /\ "write" \in x.regions[k].permissions
  BY DEF Succeeded, Validate, Permitted
<1> HIDE DEF k
<1>2. k = Const => x.regions[k].permissions \subseteq {"read"}
  BY DEF Spaced, Granted, Kinds, Code, Const
<1>3. k # Const
  BY <1>1, <1>2
<1> QED
  BY <1>1, <1>3 DEF k

LEMMA WrittenKeeps ==
  ASSUME NEW STATE x, Shape(x), Spaced(x),
         NEW STATE a, NEW STATE n, NEW STATE v, NEW STATE d
  PROVE  LET y == Written(x, a, n, v, d) IN
         /\ Shape(y) /\ SamePlaces(x, y)
         /\ \A j \in {Code, Const} : y.regions[j].bytes = x.regions[j].bytes
<1> DEFINE k == First(Containing(x, a, n))
           z == Putting(x, k, a, Encode(v, n))
           cs == ChangedBytes(x.regions[k], k, a, Encode(v, n))
           y == [z EXCEPT !.changes = @ \o Retained(z, cs),
                          !.overflowed = @ \/ Retained(z, cs) # cs]
           y2 == [z EXCEPT !.changes = z.changes \o Retained(z, cs),
                           !.overflowed = z.overflowed \/ Retained(z, cs) # cs]
<1>1. CASE ~Succeeded(Validate(x, "write", a, n, d))
  BY <1>1 DEF Written, SamePlaces
<1>2. CASE Succeeded(Validate(x, "write", a, n, d))
  <2>1. Written(x, a, n, v, d) = y
    BY <1>2 DEF Written, Recording
  <2>2. k \notin {Code, Const}
    BY <1>2, WriteTarget
  <2> HIDE DEF k
  <2>3. /\ Shape(z) /\ SamePlaces(x, z)
        /\ \A j \in Kinds : j # k => z.regions[j].bytes = x.regions[j].bytes
    BY PuttingKeeps
  <2> HIDE DEF z, cs
  <2>4. y = y2
    OBVIOUS
  <2>5. Shape(y) /\ y.regions = z.regions
    BY <2>3, <2>4, Record
  <2> HIDE DEF y, y2
  <2>6. Code \in Kinds /\ Const \in Kinds
    BY DEF Kinds, Code, Const
  <2> QED
    BY <2>1, <2>2, <2>3, <2>5, <2>6 DEF SamePlaces
<1> QED
  BY <1>1, <1>2

-----------------------------------------------------------------------------
(* Initialization and release *)

\* What the proofs need of a policy; those callers pass and those of configurations have it.
Placing(p) == /\ \A k \in Kinds : p.regions[k].base \in Int /\ p.regions[k].limit \in Int
              /\ p.gap \in Nat

LEMMA PolicyPlaces ==
  ASSUME NEW STATE p, p \in Policy
  PROVE  Placing(p)
BY DEF Policy, RegionPolicy, Placing, Word

LEMMA ConfigPlaces ==
  ASSUME NEW STATE c, c \in Configs
  PROVE  Placing(PolicyFromConfig(c))
<1>1. c \in [Kinds -> Int] /\ StackTop \in Int /\ FixedBase \in [1 .. 4 -> Int]
  BY MemoryAssumption, LayoutAssumption DEF Word
<1>2. FixedSize \in [Kinds -> Int] /\ StackRegion = 5 /\ Kinds = 1 .. 5
  BY LayoutAssumption DEF Word, Kinds, StackRegion
<1> DEFINE d == DefaultPolicy
           r == [k \in Kinds |->
                   IF k = StackRegion
                   THEN [d.regions[k] EXCEPT !.base = StackTop - c[k], !.limit = StackTop]
                   ELSE [d.regions[k] EXCEPT !.limit = FixedBase[k] + c[k]]]
           q == [d EXCEPT !.heapRequest = c[Heap], !.stackRequest = c[StackRegion], !.regions = r]
<1>3. /\ PolicyFromConfig(c) = q
      /\ DOMAIN d.regions = Kinds
      /\ \A k \in Kinds : /\ DOMAIN d.regions[k] = {"base", "limit", "min", "max"}
                          /\ d.regions[k].base = Base(k)
  BY DEF PolicyFromConfig, DefaultPolicy
<1>4. \A k \in Kinds : Base(k) \in Int
  BY <1>1, <1>2 DEF Base
<1>5. \A k \in Kinds : r[k].base \in Int /\ r[k].limit \in Int
  <2> HIDE DEF d
  <2> TAKE k \in Kinds
  <2>1. CASE k = StackRegion
    <3>1. r[k] = [d.regions[k] EXCEPT !.base = StackTop - c[k], !.limit = StackTop]
      BY <2>1
    <3>2. r[k].base = StackTop - c[k] /\ r[k].limit = StackTop
      BY <1>3, <3>1
    <3> QED
      BY <1>1, <3>2
  <2>2. CASE k # StackRegion
    <3>1. r[k] = [d.regions[k] EXCEPT !.limit = FixedBase[k] + c[k]]
      BY <2>2
    <3>2. r[k].base = Base(k) /\ r[k].limit = FixedBase[k] + c[k]
      BY <1>3, <3>1
    <3>3. k \in 1 .. 4
      BY <1>2, <2>2
    <3> QED
      BY <1>1, <1>4, <3>2, <3>3
  <2> QED
    BY <2>1, <2>2
<1> HIDE DEF r
<1>6. q.regions = r /\ q.gap = 0
  BY DEF DefaultPolicy
<1> HIDE DEF q
<1> QED
  BY <1>3, <1>5, <1>6 DEF Placing

LEMMA ReleasedInv == Shape(Released) /\ Spaced(Released)
<1>1. Shape(Released)
  BY DEF Shape, Released
<1>2. Spaced(Released)
  BY DEF Spaced, Released
<1> QED
  BY <1>1, <1>2

\* The order PolicyIsValid demands of neighbours holds of any two regions.
LEMMA InOrder ==
  ASSUME NEW STATE p, Placing(p), PolicyIsValid(p), NEW j \in Kinds, NEW k \in Kinds, j < k
  PROVE  p.regions[j].limit <= p.regions[k].base
<1>1. \A i \in 1 .. 4 : p.regions[i].limit <= p.regions[i + 1].base
  BY DEF PolicyIsValid, Separated, Placing, Kinds
<1>2. \A i \in Kinds : p.regions[i].base < p.regions[i].limit
  BY DEF PolicyIsValid
<1>3. /\ p.regions[1].limit <= p.regions[2].base /\ p.regions[2].limit <= p.regions[3].base
      /\ p.regions[3].limit <= p.regions[4].base /\ p.regions[4].limit <= p.regions[5].base
  BY <1>1
<1>4. \A i \in 1 .. 5 : p.regions[i].base \in Int /\ p.regions[i].limit \in Int
  BY DEF Placing, Kinds
<1> QED
  BY <1>2, <1>3, <1>4 DEF Kinds

LEMMA AllocatedInv ==
  ASSUME NEW STATE p, Placing(p), PolicyIsValid(p)
  PROVE  Shape(Allocated(p)) /\ Spaced(Allocated(p))
<1> DEFINE x == Allocated(p)
           r == [k \in Kinds |->
                   [base |-> p.regions[k].base, size |-> SizeIn(p, k), permissions |-> Granted(k),
                    bytes |-> [i \in 0 .. SizeIn(p, k) - 1 |-> 0]]]
<1>1. x = [regions |-> r, changes |-> <<>>, overflowed |-> FALSE]
  <2>1. x = [Released EXCEPT !.regions = r]
    BY DEF Allocated
  <2> HIDE DEF x, r
  <2> QED
    BY <2>1 DEF Released
<1>2. /\ DOMAIN r = Kinds /\ r = [j \in Kinds |-> r[j]]
      /\ \A j \in Kinds : /\ DOMAIN r[j] = {"base", "size", "permissions", "bytes"}
                          /\ r[j] = [f \in DOMAIN r[j] |-> r[j][f]]
  OBVIOUS
<1>3. \A k \in Kinds : /\ r[k].base = p.regions[k].base /\ r[k].permissions = Granted(k)
                       /\ r[k].size = p.regions[k].limit - p.regions[k].base
  BY DEF SizeIn
<1> HIDE DEF x, r
<1>4. Shape(x)
  BY <1>1, <1>2 DEF Shape
<1>5. \A k \in Kinds : r[k].base \in Int /\ r[k].size \in Nat
  BY <1>3 DEF Placing, PolicyIsValid
<1>6. \A j, k \in Kinds : j < k => r[j].base + r[j].size <= r[k].base
  BY <1>3, InOrder DEF Placing
<1>7. Spaced(x)
  BY <1>1, <1>3, <1>5, <1>6 DEF Spaced
<1> QED
  BY <1>4, <1>7 DEF x

-----------------------------------------------------------------------------
(* Steps *)

LEMMA InitializeInv ==
  ASSUME NEW STATE p, Placing(p), InitWithLayoutPolicy(p)
  PROVE  Inv'
BY ReleasedInv, AllocatedInv DEF InitWithLayoutPolicy, Fresh, StartOver, Inv

LEMMA StepInv == Inv /\ [Next]_vars => Inv'
<1> SUFFICES ASSUME Inv, [Next]_vars PROVE Inv'
  OBVIOUS
<1>1. ASSUME NEW a \in Word, NEW n \in Widths, NEW d \in BOOLEAN, Read(a, n, d)
      PROVE  Inv'
  BY <1>1 DEF Read, Inv
<1>2. ASSUME NEW a \in Word, NEW n \in Widths, NEW v \in Contents, NEW d \in BOOLEAN, Write(a, n, v, d)
      PROVE  Inv'
  BY <1>2, WrittenKeeps, SpacedByPlaces DEF Write, Inv
<1>3. CASE ClearChanges
  <2> DEFINE y == [memory EXCEPT !.changes = <<>>, !.overflowed = FALSE]
  <2>1. memory' = y
    BY <1>3 DEF ClearChanges, Cleared
  <2>2. Shape(y) /\ y.regions = memory.regions
    BY Record DEF Inv
  <2> HIDE DEF y
  <2> QED
    BY <2>1, <2>2 DEF Inv, Spaced
<1>4. CASE Deinit
  BY <1>4, ReleasedInv DEF Deinit, StartOver, Inv
<1>5. ASSUME NEW l \in Loads, LoadRegionBytes(l)
      PROVE  Inv'
  BY <1>5, PuttingKeeps, SpacedByPlaces DEF LoadRegionBytes, Inv
<1>6. ASSUME NEW p \in Policies, InitWithLayoutPolicy(p)
      PROVE  Inv'
  BY <1>6, MemoryAssumption, PolicyPlaces, InitializeInv
<1>7. ASSUME NEW c \in Configs, InitFromConfig(c)
      PROVE  Inv'
  BY <1>7, ConfigPlaces, InitializeInv, ReleasedInv DEF InitFromConfig, Fresh, StartOver, Inv
<1>8. CASE UNCHANGED vars
  BY <1>8 DEF vars, Inv
<1> QED
  BY <1>1, <1>2, <1>3, <1>4, <1>5, <1>6, <1>7, <1>8 DEF Next

LEMMA AlwaysInv == Spec => []Inv
<1>1. Init => Inv
  BY ReleasedInv DEF Init, Inv
<1> QED
  BY <1>1, StepInv, PTL DEF Spec

\* No two regions share an address, whatever valid policy memory was initialized with.
THEOREM RegionsStayDisjoint == Spec => []RegionsDisjoint
<1>1. Inv => RegionsDisjoint
  BY DEF Inv, Spaced, RegionsDisjoint, End
<1> QED
  BY <1>1, AlwaysInv, PTL

\* The bytes of code and constants change only when a loader runs or memory is set up anew.
THEOREM ProtectedBytesStay == Spec => OnlyLoadersChangeProtectedBytes
<1> DEFINE Kept == \A k \in {Code, Const} : memory'.regions[k].bytes = memory.regions[k].bytes
           Anew == loaded' \/ before' = BytesOf(memory')
<1>1. ASSUME Inv, Next
      PROVE  Kept \/ Anew
  <2>1. ASSUME NEW a \in Word, NEW n \in Widths, NEW d \in BOOLEAN, Read(a, n, d)
        PROVE  Kept
    BY <2>1 DEF Read
  <2>2. ASSUME NEW a \in Word, NEW n \in Widths, NEW v \in Contents, NEW d \in BOOLEAN, Write(a, n, v, d)
        PROVE  Kept
    BY <1>1, <2>2, WrittenKeeps DEF Write, Inv
  <2>3. CASE ClearChanges
    <3>1. memory'.regions = memory.regions
      BY <1>1, <2>3, Record DEF ClearChanges, Cleared, Inv
    <3> QED
      BY <3>1
  <2>4. CASE Deinit
    BY <2>4 DEF Deinit, StartOver, BytesOf
  <2>5. ASSUME NEW l \in Loads, LoadRegionBytes(l)
        PROVE  Kept \/ Anew
    BY <2>5 DEF LoadRegionBytes
  <2>6. ASSUME NEW p, InitWithLayoutPolicy(p)
        PROVE  Anew
    BY <2>6 DEF InitWithLayoutPolicy, Fresh, StartOver, BytesOf
  <2>7. ASSUME NEW c \in Configs, InitFromConfig(c)
        PROVE  Anew
    BY <2>6, <2>7 DEF InitFromConfig, Fresh, StartOver, BytesOf
  <2> QED
    BY <1>1, <2>1, <2>2, <2>3, <2>4, <2>5, <2>6, <2>7 DEF Next
<1>2. Inv /\ [Next]_vars =>
        [\A k \in {Code, Const} :
           memory'.regions[k].bytes # memory.regions[k].bytes
             => loaded' \/ before' = BytesOf(memory')]_vars
  BY <1>1
<1> QED
  BY <1>2, AlwaysInv, PTL DEF Spec, OnlyLoadersChangeProtectedBytes

-----------------------------------------------------------------------------
(* Integers and their bytes *)

\* Weight is the powers of ByteBase.
LEMMA Weights ==
  /\ Weight[0] = 1
  /\ \A n \in Nat : Weight[n] \in Nat \ {0} /\ Weight[n + 1] = ByteBase * Weight[n]
<1> DEFINE h == [p \in (Nat \ {0}) \X Nat |-> ByteBase * p[2]]
           W(f) == [i \in Nat |-> IF i = 0 THEN 1 ELSE ByteBase * f[i - 1]]
<1>0. ByteBase \in Nat \ {0}
  BY MemoryAssumption
<1>1. \E f : f = W(f)
  <2>1. \A m \in Nat \ {0}, x \in Nat : h[<<m, x>>] \in Nat /\ h[<<m, x>>] = ByteBase * x
    BY <1>0
  <2>2. AlwaysStepsIn(Nat, h)
    BY <2>1 DEF AlwaysStepsIn
  <2> HIDE DEF h
  <2>3. PICK f \in [Nat -> Nat] : AlwaysRecurs(f, 1, h)
    <3>1. 1 \in Nat
      OBVIOUS
    <3> QED
      BY <2>2, <3>1, RecursionOnNat
  <2>4. ASSUME NEW i \in Nat, i # 0
        PROVE  f[i] = ByteBase * f[i - 1]
    <3>1. f[i] = h[<<i, f[i - 1]>>] /\ f[i - 1] \in Nat
      BY <2>3, <2>4 DEF AlwaysRecurs
    <3> QED
      BY <2>1, <2>4, <3>1
  <2>5. f[0] = 1
    BY <2>3 DEF AlwaysRecurs
  <2>6. f = W(f)
    BY <2>3, <2>4, <2>5
  <2> QED
    BY <2>6
<1>2. Weight = W(Weight)
  <2>1. Weight = CHOOSE f : f = W(f)
    BY DEF Weight
  <2> HIDE DEF W
  <2> QED
    BY <1>1, <2>1
<1>3. Weight[0] = 1 /\ \A n \in Nat : Weight[n + 1] = ByteBase * Weight[n]
  BY <1>2
<1>4. ASSUME NEW n \in Nat
      PROVE  Weight[n] \in Nat \ {0}
  <2> DEFINE S == {m \in 0 .. n : Weight[m] \in Nat \ {0}}
  <2>1. 0 \in S
    BY <1>3
  <2>2. \A m \in 0 .. n - 1 : m \in S => m + 1 \in S
    <3> SUFFICES ASSUME NEW m \in 0 .. n - 1, Weight[m] \in Nat \ {0}
                 PROVE  Weight[m + 1] \in Nat \ {0}
      OBVIOUS
    <3>1. Weight[m + 1] = ByteBase * Weight[m]
      BY <1>3
    <3> DEFINE w == Weight[m]
    <3> HIDE DEF w
    <3>2. w \in Nat \ {0} => ByteBase * w \in Nat \ {0}
      BY <1>0, Z3
    <3> QED
      BY <3>1, <3>2 DEF w
  <2> HIDE DEF S
  <2>3. \A m \in 0 .. n : m \in S
    BY <2>1, <2>2, Induction
  <2> QED
    BY <2>3 DEF S
<1> QED
  BY <1>3, <1>4

Numbers(r, a, n) == \A i \in 1 .. n : r.bytes[a - r.base + i - 1] \in Nat
AddsUp(r, a, n) ==
  \E g : /\ g[0] = 0 /\ Decode(r, a, n) = g[n]
         /\ \A m \in 1 .. n : g[m] = g[m - 1] + r.bytes[a - r.base + m - 1] * Weight[m - 1]

\* Decode adds up the bytes of its range, each with its weight.
LEMMA DecodeAddsUp ==
  ASSUME NEW STATE r, NEW STATE a, NEW STATE n, n \in Nat, Numbers(r, a, n)
  PROVE  AddsUp(r, a, n)
<1> DEFINE t == [i \in 1 .. n |-> i]
           c == [i \in 1 .. n |-> r.bytes[a - r.base + i - 1] * Weight[i - 1]]
           h == [p \in Nat \X (1 .. n) |-> p[1] + c[p[2]]]
           G(f) == [s \in SUBSET DOMAIN t |->
                      IF s = {} THEN 0
                      ELSE f[s \ {Max(s)}] + r.bytes[a - r.base + t[Max(s)] - 1] * Weight[t[Max(s)] - 1]]
           f == CHOOSE f : f = G(f)
<1>1. Decode(r, a, n) = f[DOMAIN t]
  BY DEF Decode, FoldLeft, MapThenFoldSet
<1>2. t \in Seq(1 .. n) /\ DOMAIN t = 1 .. n /\ \A i \in 1 .. n : t[i] = i
  OBVIOUS
<1>3. \A i \in 1 .. n : c[i] \in Nat /\ c[i] = r.bytes[a - r.base + i - 1] * Weight[i - 1]
  BY Weights DEF Numbers
<1> HIDE DEF c
<1>4. h \in [Nat \X (1 .. n) -> Nat] /\ \A x \in Nat, i \in 1 .. n : h[<<x, i>>] = x + c[i]
  BY <1>3
<1> HIDE DEF h, t
<1>5. \E e : e = G(e)
  <2>0. 0 \in Nat
    OBVIOUS
  <2>1. PICK e : IsFold(e, 0, h, t) /\ StaysIn(e, Nat, 1 .. n, t)
    BY <1>2, <1>4, <2>0, FoldExists
  <2>2. ASSUME NEW s \in SUBSET DOMAIN t
        PROVE  e[s] = G(e)[s]
    <3>1. CASE s = {}
      BY <2>1, <3>1 DEF IsFold
    <3>2. CASE s # {}
      <4>1. e[s \ {Max(s)}] \in Nat /\ t[Max(s)] \in 1 .. n
        BY <2>1, <3>2 DEF StaysIn
      <4>2. e[s] = h[<<e[s \ {Max(s)}], t[Max(s)]>>]
        BY <2>1, <3>2 DEF IsFold
      <4>3. e[s] = e[s \ {Max(s)}] + c[t[Max(s)]]
        BY <1>4, <4>1, <4>2
      <4> QED
        BY <1>3, <3>2, <4>1, <4>3
    <3> QED
      BY <3>1, <3>2
  <2>3. e = G(e)
    <3> HIDE DEF G
    <3>1. DOMAIN G(e) = SUBSET DOMAIN t /\ G(e) = [s \in SUBSET DOMAIN t |-> G(e)[s]]
      BY DEF G
    <3> QED
      BY <2>1, <2>2, <3>1 DEF StaysIn
  <2> QED
    BY <2>3
<1>6. f = G(f)
  <2> HIDE DEF G
  <2> QED
    BY <1>5
<1> HIDE DEF f
<1> DEFINE g == [m \in 0 .. n |-> f[1 .. m]]
<1>7. g[0] = 0
  <2>1. 1 .. 0 = {} /\ 1 .. 0 \in SUBSET DOMAIN t
    OBVIOUS
  <2> QED
    BY <1>6, <2>1
<1>8. ASSUME NEW m \in 1 .. n
      PROVE  g[m] = g[m - 1] + r.bytes[a - r.base + m - 1] * Weight[m - 1]
  <2>1. Max(1 .. m) = m /\ (1 .. m) \ {m} = 1 .. m - 1
    BY GreatestOfPrefix
  <2>2. 1 .. m \in SUBSET DOMAIN t /\ 1 .. m # {} /\ t[m] = m
    <3>1. 1 .. m \subseteq 1 .. n /\ m \in 1 .. m
      OBVIOUS
    <3>2. DOMAIN t = 1 .. n /\ t[m] = m
      BY <1>2
    <3> QED
      BY <3>1, <3>2
  <2>3. f[1 .. m] = f[1 .. m - 1] + r.bytes[a - r.base + m - 1] * Weight[m - 1]
    BY <1>6, <2>1, <2>2
  <2> QED
    BY <2>3
<1>9. Decode(r, a, n) = g[n]
  BY <1>1, <1>2
<1> HIDE DEF g
<1> QED
  BY <1>7, <1>8, <1>9 DEF AddsUp

LEMMA EncodedBytes ==
  ASSUME NEW STATE v, v \in Nat, NEW STATE n, n \in Nat
  PROVE  /\ DOMAIN Encode(v, n) = 1 .. n
         /\ \A i \in 1 .. n : /\ Encode(v, n)[i] = (v \div Weight[i - 1]) % ByteBase
                              /\ Encode(v, n)[i] \in Byte
<1>1. ByteBase \in Nat \ {0}
  BY MemoryAssumption
<1>2. ASSUME NEW i \in 1 .. n
      PROVE  (v \div Weight[i - 1]) % ByteBase \in Byte
  <2>1. Weight[i - 1] \in Nat \ {0}
    BY Weights
  <2>2. v \div Weight[i - 1] \in Int
    BY <2>1, DivModBasics
  <2> QED
    BY <1>1, <2>2, DivModBasics DEF Byte
<1> QED
  BY <1>2 DEF Encode

Stands(r, a, v, n) == \A i \in 1 .. n : r.bytes[a - r.base + i - 1] = Encode(v, n)[i]

\* Where the encoding of v stands, the narrower reads see what v leaves modulo their range.
LEMMA EncodedReadsBack ==
  ASSUME NEW STATE r, NEW STATE a, NEW STATE n, n \in Nat, NEW STATE v, v \in Nat, NEW STATE w, w \in 0 .. n,
         Stands(r, a, v, n)
  PROVE  Decode(r, a, w) = v % Weight[w]
<1>1. ASSUME NEW i \in 1 .. n
      PROVE  /\ r.bytes[a - r.base + i - 1] \in Nat
             /\ r.bytes[a - r.base + i - 1] = (v \div Weight[i - 1]) % ByteBase
  <2>1. Byte \subseteq Nat
    BY MemoryAssumption DEF Byte
  <2>2. Encode(v, n)[i] = (v \div Weight[i - 1]) % ByteBase /\ Encode(v, n)[i] \in Byte
    BY EncodedBytes
  <2>3. r.bytes[a - r.base + i - 1] = Encode(v, n)[i]
    BY DEF Stands
  <2> HIDE DEF Byte
  <2> QED
    BY <2>1, <2>2, <2>3
<1>2. PICK g : /\ g[0] = 0 /\ Decode(r, a, w) = g[w]
               /\ \A m \in 1 .. w :
                    g[m] = g[m - 1] + r.bytes[a - r.base + m - 1] * Weight[m - 1]
  <2>1. w \in Nat
    OBVIOUS
  <2>2. Numbers(r, a, w)
    BY <1>1 DEF Numbers
  <2>3. AddsUp(r, a, w)
    BY <2>1, <2>2, DecodeAddsUp
  <2> QED
    BY <2>3 DEF AddsUp
<1> DEFINE S == {m \in 0 .. w : g[m] = v % Weight[m]}
<1>3. 0 \in S
  <2>1. v % 1 = 0
    BY DivModBasics
  <2> QED
    BY <1>2, <2>1, Weights
<1>4. ASSUME NEW m \in 0 .. w - 1, m \in S
      PROVE  m + 1 \in S
  <2>1. m + 1 \in 1 .. n /\ m + 1 \in 1 .. w /\ (m + 1) - 1 = m
    OBVIOUS
  <2>2. g[m + 1] = g[(m + 1) - 1] + r.bytes[a - r.base + (m + 1) - 1] * Weight[(m + 1) - 1]
    BY <1>2, <2>1
  <2>3. r.bytes[a - r.base + (m + 1) - 1] = (v \div Weight[(m + 1) - 1]) % ByteBase
    BY <1>1, <2>1
  <2>4. g[m + 1] = (v % Weight[m]) + ((v \div Weight[m]) % ByteBase) * Weight[m]
    BY <1>4, <2>1, <2>2, <2>3
  <2>5. Weight[m] \in Nat \ {0} /\ Weight[m + 1] = ByteBase * Weight[m] /\ ByteBase \in Nat \ {0}
    <3>1. m \in Nat
      OBVIOUS
    <3> QED
      BY <3>1, Weights, MemoryAssumption
  <2>6. v % (ByteBase * Weight[m]) = (v % Weight[m]) + ((v \div Weight[m]) % ByteBase) * Weight[m]
    <3> DEFINE q == Weight[m]
    <3>1. v \in Int /\ ByteBase \in Nat \ {0} /\ q \in Nat \ {0}
      BY <2>5
    <3> HIDE DEF q
    <3>2. v % (ByteBase * q) = (v % q) + ((v \div q) % ByteBase) * q
      BY <3>1, NextPlace
    <3> QED
      BY <3>2 DEF q
  <2>7. g[m + 1] = v % Weight[m + 1]
    BY <2>4, <2>5, <2>6
  <2> QED
    BY <2>1, <2>7
<1>5. w \in S
  <2> HIDE DEF S
  <2>1. \A m \in 0 .. w : m \in S
    BY <1>3, <1>4, Induction
  <2> QED
    BY <2>1
<1> QED
  BY <1>2, <1>5

\* A checked write finds a region that holds the range, and puts the value's bytes there.
LEMMA WrittenRegion ==
  ASSUME NEW STATE x, Shape(x), NEW STATE a, NEW STATE n, n \in Nat, NEW STATE v, v \in Nat, NEW STATE d,
         Succeeded(Validate(x, "write", a, n, d))
  PROVE  LET k == First(Containing(x, a, n))
             r == x.regions[k]
             y == Written(x, a, n, v, d)
         IN  /\ k \in Kinds /\ Holds(r, a, n)
             /\ SamePlaces(x, y)
             /\ \A j \in Kinds : j # k => y.regions[j].bytes = x.regions[j].bytes
             /\ y.regions[k].bytes = Over(r, a, Encode(v, n))
<1> DEFINE k == First(Containing(x, a, n))
           r == x.regions[k]
           s == Encode(v, n)
           z == Putting(x, k, a, s)
           cs == ChangedBytes(r, k, a, s)
           y == [z EXCEPT !.changes = @ \o Retained(z, cs),
                          !.overflowed = @ \/ Retained(z, cs) # cs]
           y2 == [z EXCEPT !.changes = z.changes \o Retained(z, cs),
                           !.overflowed = z.overflowed \/ Retained(z, cs) # cs]
<1>1. k \in Kinds /\ Holds(r, a, n)
  <2>1. Containing(x, a, n) # {} /\ Containing(x, a, n) \subseteq Nat
    BY DEF Succeeded, Validate, Containing, Kinds
  <2>2. \E j \in Containing(x, a, n) : \A i \in Containing(x, a, n) : j <= i
    BY <2>1, LeastElement
  <2>3. k \in Containing(x, a, n)
    BY <2>2 DEF First
  <2> QED
    BY <2>3 DEF Containing
<1>2. Written(x, a, n, v, d) = y
  BY DEF Written, Recording
<1> HIDE DEF k
<1> HIDE DEF s
<1>6. /\ Shape(z) /\ SamePlaces(x, z)
      /\ \A j \in Kinds : j # k => z.regions[j].bytes = x.regions[j].bytes
  BY PuttingKeeps
<1>7. z.regions[k].bytes = Over(r, a, s)
  BY <1>1, PuttingPuts
<1> HIDE DEF z, cs
<1>8. y = y2
  OBVIOUS
<1>9. y.regions = z.regions
  BY <1>6, <1>8, Record
<1> HIDE DEF y, y2
<1>10. SamePlaces(x, y)
  BY <1>6, <1>9 DEF SamePlaces
<1> QED
  BY <1>1, <1>2, <1>6, <1>7, <1>9, <1>10 DEF k, s

-----------------------------------------------------------------------------
(* The bytes of the regions *)

\* The bytes of a region fill it.
Filled(x) ==
  \A k \in Kinds : x.regions[k].bytes \in [0 .. x.regions[k].size - 1 -> Byte]

LEMMA ZeroIsByte == 0 \in Byte
  BY MemoryAssumption DEF Byte

LEMMA ReleasedFilled == Filled(Released)
<1>1. NoBytes \in [0 .. 0 - 1 -> Byte]
  BY DEF NoBytes
<1>2. \A k \in Kinds : Released.regions[k].bytes = NoBytes /\ Released.regions[k].size = 0
  BY DEF Released
<1> QED
  BY <1>1, <1>2 DEF Filled

LEMMA AllocatedFilled ==
  ASSUME NEW STATE p, Placing(p), PolicyIsValid(p)
  PROVE  Filled(Allocated(p))
<1> DEFINE r == [k \in Kinds |->
                   [base |-> p.regions[k].base, size |-> SizeIn(p, k), permissions |-> Granted(k),
                    bytes |-> [i \in 0 .. SizeIn(p, k) - 1 |-> 0]]]
<1>1. Allocated(p).regions = r
  <2>1. Allocated(p) = [Released EXCEPT !.regions = r]
    BY DEF Allocated
  <2> HIDE DEF r
  <2> QED
    BY <2>1 DEF Released
<1>2. \A k \in Kinds : /\ r[k].size = SizeIn(p, k)
                       /\ r[k].bytes = [i \in 0 .. SizeIn(p, k) - 1 |-> 0]
  OBVIOUS
<1> HIDE DEF r
<1>3. \A k \in Kinds : r[k].bytes \in [0 .. r[k].size - 1 -> Byte]
  BY <1>2, ZeroIsByte
<1> QED
  BY <1>1, <1>3 DEF Filled

\* A write leaves bytes where bytes were.
LEMMA WrittenFilled ==
  ASSUME NEW STATE x, Shape(x), Spaced(x), Filled(x), NEW STATE a, NEW STATE n, n \in Nat, NEW STATE v, v \in Nat, NEW STATE d
  PROVE  Filled(Written(x, a, n, v, d))
<1>1. CASE ~Succeeded(Validate(x, "write", a, n, d))
  BY <1>1 DEF Written
<1>2. CASE Succeeded(Validate(x, "write", a, n, d))
  <2> DEFINE k == First(Containing(x, a, n))
             r == x.regions[k]
             y == Written(x, a, n, v, d)
             b == Over(r, a, Encode(v, n))
  <2>1. /\ k \in Kinds /\ SamePlaces(x, y)
        /\ \A j \in Kinds : j # k => y.regions[j].bytes = x.regions[j].bytes
        /\ y.regions[k].bytes = b
    BY <1>2, WrittenRegion
  <2> HIDE DEF k, y
  <2>2. b \in [DOMAIN r.bytes -> Byte]
    BY <2>1, EncodedBytes DEF Filled, Over
  <2> HIDE DEF b
  <2>3. b \in [0 .. y.regions[k].size - 1 -> Byte]
    BY <2>1, <2>2 DEF Filled, SamePlaces
  <2>4. Filled(y)
    BY <2>1, <2>3 DEF Filled, SamePlaces
  <2> QED
    BY <2>4 DEF y
<1> QED
  BY <1>1, <1>2

LEMMA PuttingFilled ==
  ASSUME NEW STATE x, Shape(x), Filled(x), NEW STATE k, k \in Kinds, NEW STATE a, NEW STATE s, \A i \in DOMAIN s : s[i] \in Byte
  PROVE  Filled(Putting(x, k, a, s))
<1> DEFINE r == x.regions[k]
           b == Over(r, a, s)
           y == Putting(x, k, a, s)
<1>1. y.regions[k].bytes = b
  BY PuttingPuts
<1>2. b \in [0 .. r.size - 1 -> Byte]
  BY DEF Filled, Over
<1> HIDE DEF b
<1>3. /\ SamePlaces(x, y)
      /\ \A j \in Kinds : j # k => y.regions[j].bytes = x.regions[j].bytes
  BY PuttingKeeps
<1> HIDE DEF y
<1> QED
  BY <1>1, <1>2, <1>3 DEF Filled, SamePlaces, y

LEMMA InitializeFilled ==
  ASSUME NEW STATE p, Placing(p), InitWithLayoutPolicy(p)
  PROVE  Filled(memory)'
BY ReleasedFilled, AllocatedFilled DEF InitWithLayoutPolicy, Fresh, StartOver, Filled

LEMMA FilledSteps == Inv /\ Filled(memory) /\ [Next]_vars => Filled(memory)'
<1> SUFFICES ASSUME Inv, Filled(memory), [Next]_vars PROVE Filled(memory)'
  OBVIOUS
<1>1. ASSUME NEW a \in Word, NEW n \in Widths, NEW d \in BOOLEAN, Read(a, n, d)
      PROVE  Filled(memory)'
  BY <1>1 DEF Read, Filled
<1>2. ASSUME NEW a \in Word, NEW n \in Widths, NEW v \in Contents, NEW d \in BOOLEAN, Write(a, n, v, d)
      PROVE  Filled(memory)'
  <2>1. n \in Nat /\ v \in Nat
    BY MemoryAssumption
  <2>2. Filled(Written(memory, a, n, v, d))
    BY <2>1, WrittenFilled DEF Inv
  <2> QED
    BY <1>2, <2>2 DEF Write, Filled
<1>3. CASE ClearChanges
  <2>1. memory'.regions = memory.regions
    BY <1>3, Record DEF ClearChanges, Cleared, Inv
  <2> QED
    BY <2>1 DEF Filled
<1>4. CASE Deinit
  BY <1>4, ReleasedFilled DEF Deinit, StartOver, Filled
<1>5. ASSUME NEW l \in Loads, LoadRegionBytes(l)
      PROVE  Filled(memory)'
  <2>1. l.region \in Kinds /\ l.bytes \in Seq(Byte)
    BY MemoryAssumption
  <2>2. \A i \in DOMAIN l.bytes : l.bytes[i] \in Byte
    BY <2>1
  <2>3. \A a : Filled(Putting(memory, l.region, a, l.bytes))
    BY <2>1, <2>2, PuttingFilled DEF Inv
  <2>4. memory' = memory \/ \E a : memory' = Putting(memory, l.region, a, l.bytes)
    BY <1>5 DEF LoadRegionBytes
  <2> QED
    BY <2>3, <2>4 DEF Filled
<1>6. ASSUME NEW p \in Policies, InitWithLayoutPolicy(p)
      PROVE  Filled(memory)'
  BY <1>6, MemoryAssumption, PolicyPlaces, InitializeFilled
<1>7. ASSUME NEW c \in Configs, InitFromConfig(c)
      PROVE  Filled(memory)'
  BY <1>7, ConfigPlaces, InitializeFilled, ReleasedFilled DEF InitFromConfig, Fresh, StartOver, Filled
<1>8. CASE UNCHANGED vars
  BY <1>8 DEF vars, Filled
<1> QED
  BY <1>1, <1>2, <1>3, <1>4, <1>5, <1>6, <1>7, <1>8 DEF Next

LEMMA AlwaysFilled == Spec => []Filled(memory)
<1>1. Init => Filled(memory)
  BY ReleasedFilled DEF Init
<1> QED
  BY <1>1, FilledSteps, AlwaysInv, PTL DEF Spec

\* A write that succeeds is read back whole and in part, and changes nothing beside itself.
THEOREM WritesAreReadBack == Spec => []WritesReadBack
<1>1. Inv /\ Filled(memory) => WritesReadBack
  <2> SUFFICES ASSUME Inv, Filled(memory), NEW a \in Word, NEW n \in Widths, NEW v \in Contents,
                      v < Weight[n], Succeeded(Validate(memory, "write", a, n, FALSE))
               PROVE  LET k == First(Containing(memory, a, n))
                          r == Written(memory, a, n, v, FALSE).regions[k]
                      IN  /\ Decode(r, a, n) = v
                          /\ \A w \in Widths : w <= n => Decode(r, a, w) = v % Weight[w]
                          /\ \A i \in DOMAIN r.bytes :
                               r.base + i \notin a .. a + n - 1 => r.bytes[i] = memory.regions[k].bytes[i]
    BY DEF WritesReadBack
  <2> DEFINE d == FALSE
             k == First(Containing(memory, a, n))
             q == memory.regions[k]
             y == Written(memory, a, n, v, d)
             r == y.regions[k]
             s == Encode(v, n)
             b == Over(q, a, s)
  <2>1. n \in Nat \ {0} /\ v \in Nat /\ a \in Nat
    BY MemoryAssumption DEF Word
  <2>2. k \in Kinds /\ Holds(q, a, n) /\ SamePlaces(memory, y) /\ r.bytes = b
    <3>1. Shape(memory) /\ n \in Nat /\ Succeeded(Validate(memory, "write", a, n, d))
      BY <2>1 DEF Inv
    <3> HIDE DEF d
    <3> QED
      BY <2>1, <3>1, WrittenRegion
  <2>0. DOMAIN s = 1 .. n
    BY <2>1, EncodedBytes
  <2> HIDE DEF k, y, b, s
  <2>3. /\ q.base \in Int /\ q.size \in Nat /\ DOMAIN q.bytes = 0 .. q.size - 1
        /\ q.base <= a /\ a + n <= q.base + q.size /\ r.base = q.base
    BY <2>2 DEF Inv, Spaced, Filled, Holds, End, SamePlaces
  <2> HIDE DEF q, r
  <2>4. ASSUME NEW i \in 1 .. n
        PROVE  r.bytes[a - r.base + i - 1] = s[i]
    <3> DEFINE j == a - r.base + i - 1
    <3>1. j \in DOMAIN q.bytes /\ j - (a - q.base) + 1 = i
      BY <2>1, <2>3
    <3> HIDE DEF j
    <3>2. b[j] = s[i]
      BY <2>0, <3>1 DEF b, Over
    <3> QED
      BY <2>2, <3>2 DEF j
  <2>5. ASSUME NEW w \in 0 .. n
        PROVE  Decode(r, a, w) = v % Weight[w]
    <3>1. n \in Nat /\ v \in Nat
      BY <2>1
    <3>2. Stands(r, a, v, n)
      BY <2>4 DEF s, Stands
    <3> QED
      BY <3>1, <3>2, EncodedReadsBack
  <2>6. v % Weight[n] = v
    <3> DEFINE m == Weight[n]
    <3>1. m \in Nat \ {0} /\ v \in 0 .. m - 1
      BY <2>1, Weights
    <3> HIDE DEF m
    <3>2. v = m * 0 + v
      BY <2>1, <3>1
    <3>3. v % m = v
      BY <2>1, <3>1, <3>2, DivModUnique
    <3> QED
      BY <3>3 DEF m
  <2>7. ASSUME NEW i \in DOMAIN r.bytes, r.base + i \notin a .. a + n - 1
        PROVE  r.bytes[i] = q.bytes[i]
    <3>1. i \in DOMAIN q.bytes /\ i \in Int
      BY <2>2, <2>3 DEF b, Over
    <3>2. i - (a - q.base) + 1 \notin 1 .. n
      <4> SUFFICES ASSUME i - (a - q.base) + 1 \in 1 .. n PROVE FALSE
        OBVIOUS
      <4>1. 1 <= i - (a - q.base) + 1 /\ i - (a - q.base) + 1 <= n
        OBVIOUS
      <4>2. q.base + i \in Int /\ a <= q.base + i /\ q.base + i <= a + n - 1
        BY <2>1, <2>3, <3>1, <4>1
      <4> QED
        BY <2>1, <2>3, <2>7, <4>2
    <3> QED
      BY <2>0, <2>2, <3>1, <3>2 DEF b, Over
  <2>8. Decode(r, a, n) = v
    <3>1. n \in 0 .. n
      BY <2>1
    <3> QED
      BY <2>5, <2>6, <3>1
  <2>9. \A w \in Widths : w <= n => Decode(r, a, w) = v % Weight[w]
    <3> SUFFICES ASSUME NEW w \in Widths, w <= n
                 PROVE  Decode(r, a, w) = v % Weight[w]
      OBVIOUS
    <3>1. w \in 0 .. n
      BY <2>1, MemoryAssumption
    <3> QED
      BY <2>5, <3>1
  <2> QED
    BY <2>7, <2>8, <2>9 DEF k, q, r, y
<1> QED
  BY <1>1, AlwaysInv, AlwaysFilled, PTL

-----------------------------------------------------------------------------
(* The recorder *)

Change == [address : Int, region : Kinds, old : Byte, new : Byte]

\* What the regions may hold, taken together.
Images == [Kinds -> UNION {[0 .. n - 1 -> Byte] : n \in Nat}]

\* One byte of one region set, where it exists.
SetAt(b, k, i, v) == [b EXCEPT ![k][i] = v]

LEMMA SetAtStays ==
  ASSUME NEW STATE b, b \in Images, NEW STATE k, NEW STATE i, NEW STATE v, v \in Byte
  PROVE  /\ SetAt(b, k, i, v) \in Images
         /\ \A j \in Kinds : SetAt(b, k, i, v)[j] =
              [m \in DOMAIN b[j] |-> IF j = k /\ m = i THEN v ELSE b[j][m]]
<1> DEFINE B == UNION {[0 .. n - 1 -> Byte] : n \in Nat}
           e == [b[k] EXCEPT ![i] = v]
           f == [b EXCEPT ![k] = e]
<1>1. b \in [Kinds -> B]
  BY DEF Images
<1>2. \A j \in Kinds : \E n \in Nat : b[j] \in [0 .. n - 1 -> Byte]
  BY <1>1
<1>3. SetAt(b, k, i, v) = f
  BY DEF SetAt
<1>4. k \in Kinds => e = [m \in DOMAIN b[k] |-> IF m = i THEN v ELSE b[k][m]]
  BY <1>2
<1>5. k \in Kinds => \E n \in Nat : e \in [0 .. n - 1 -> Byte]
  BY <1>2
<1> HIDE DEF e
<1>6. \A j \in Kinds : f[j] = IF j = k THEN e ELSE b[j]
  BY <1>1
<1>7. \A j \in Kinds : f[j] \in B
  <2> TAKE j \in Kinds
  <2>1. \E n \in Nat : f[j] \in [0 .. n - 1 -> Byte]
    BY <1>2, <1>5, <1>6
  <2> QED
    BY <2>1
<1>8. DOMAIN f = Kinds /\ f = [j \in Kinds |-> f[j]]
  BY <1>1
<1> HIDE DEF f
<1>9. f \in Images
  <2> HIDE DEF B
  <2> QED
    BY <1>7, <1>8 DEF Images, B
<1>10. \A j \in Kinds : f[j] = [m \in DOMAIN b[j] |-> IF j = k /\ m = i THEN v ELSE b[j][m]]
  <2> TAKE j \in Kinds
  <2>1. CASE j = k
    BY <1>4, <1>6, <2>1
  <2>2. CASE j # k
    <3>1. b[j] = [m \in DOMAIN b[j] |-> b[j][m]]
      BY <1>2
    <3> QED
      BY <1>6, <2>2, <3>1
  <2> QED
    BY <2>1, <2>2
<1> QED
  BY <1>3, <1>9, <1>10

\* The folds of the property go through the changes one by one.
ReplayedThrough(g, b, t) ==
  /\ g[0] = b /\ FoldLeft(Replayed, b, t) = g[Len(t)]
  /\ \A m \in 1 .. Len(t) : g[m] = Replayed(g[m - 1], t[m])
UndoneThrough(g, b, t) ==
  /\ g[0] = b /\ FoldLeft(Undone, b, t) = g[Len(t)]
  /\ \A m \in 1 .. Len(t) : g[m] = Undone(g[m - 1], t[m])

LEMMA ReplayGoesThrough ==
  ASSUME NEW STATE b, b \in Images, NEW STATE t, t \in Seq(Change)
  PROVE  \E g : ReplayedThrough(g, b, t)
<1> DEFINE n == Len(t)
           h == [p \in Images \X Change |-> Replayed(p[1], p[2])]
           G(f) == [s \in SUBSET DOMAIN t |->
                      IF s = {} THEN b ELSE Replayed(f[s \ {Max(s)}], t[Max(s)])]
           f == CHOOSE f : f = G(f)
<1>1. FoldLeft(Replayed, b, t) = f[DOMAIN t]
  BY DEF FoldLeft, MapThenFoldSet
<1>2. DOMAIN t = 1 .. n /\ n \in Nat
  OBVIOUS
<1>3. \A x \in Images, c \in Change : Replayed(x, c) \in Images
  <2> SUFFICES ASSUME NEW x \in Images, NEW c \in Change PROVE Replayed(x, c) \in Images
    OBVIOUS
  <2> DEFINE k == c.region
             i == c.address - memory.regions[c.region].base
             v == c.new
  <2>1. v \in Byte /\ Replayed(x, c) = SetAt(x, k, i, v)
    BY DEF Change, Replayed, SetAt
  <2> HIDE DEF k, i, v
  <2> QED
    BY <2>1, SetAtStays
<1>4. h \in [Images \X Change -> Images] /\ \A x \in Images, c \in Change : h[<<x, c>>] = Replayed(x, c)
  BY <1>3
<1> HIDE DEF h, n
<1>5. \E e : e = G(e)
  <2>1. PICK e : IsFold(e, b, h, t) /\ StaysIn(e, Images, Change, t)
    BY <1>4, FoldExists
  <2>2. ASSUME NEW s \in SUBSET DOMAIN t
        PROVE  e[s] = G(e)[s]
    <3>1. CASE s = {}
      BY <2>1, <3>1 DEF IsFold
    <3>2. CASE s # {}
      <4>1. e[s \ {Max(s)}] \in Images /\ t[Max(s)] \in Change
        BY <2>1, <3>2 DEF StaysIn
      <4>2. e[s] = h[<<e[s \ {Max(s)}], t[Max(s)]>>]
        BY <2>1, <3>2 DEF IsFold
      <4>3. e[s] = Replayed(e[s \ {Max(s)}], t[Max(s)])
        BY <1>4, <4>1, <4>2
      <4> QED
        BY <3>2, <4>3
    <3> QED
      BY <3>1, <3>2
  <2>3. e = G(e)
    <3> HIDE DEF G
    <3>1. DOMAIN G(e) = SUBSET DOMAIN t /\ G(e) = [s \in SUBSET DOMAIN t |-> G(e)[s]]
      BY DEF G
    <3> QED
      BY <2>1, <2>2, <3>1 DEF StaysIn
  <2> QED
    BY <2>3
<1>6. f = G(f)
  <2> HIDE DEF G
  <2> QED
    BY <1>5
<1> HIDE DEF f
<1> DEFINE g == [m \in 0 .. n |-> f[1 .. m]]
<1>7. g[0] = b
  <2>1. 1 .. 0 = {} /\ 1 .. 0 \in SUBSET DOMAIN t
    OBVIOUS
  <2> QED
    BY <1>2, <1>6, <2>1
<1>8. ASSUME NEW m \in 1 .. n
      PROVE  g[m] = Replayed(g[m - 1], t[m])
  <2>1. Max(1 .. m) = m /\ (1 .. m) \ {m} = 1 .. m - 1
    BY GreatestOfPrefix
  <2>2. 1 .. m \in SUBSET DOMAIN t /\ 1 .. m # {}
    <3>1. m \in 1 .. m /\ \A i \in 1 .. m : i \in 1 .. n
      BY <1>2
    <3> QED
      BY <1>2, <3>1
  <2>3. f[1 .. m] = Replayed(f[1 .. m - 1], t[m])
    BY <1>6, <2>1, <2>2
  <2>4. m \in 0 .. n /\ m - 1 \in 0 .. n
    BY <1>2
  <2> QED
    BY <2>3, <2>4
<1>9. FoldLeft(Replayed, b, t) = g[n]
  BY <1>1, <1>2
<1> HIDE DEF g
<1> QED
  BY <1>7, <1>8, <1>9 DEF n, ReplayedThrough

LEMMA UndoGoesThrough ==
  ASSUME NEW STATE b, b \in Images, NEW STATE t, t \in Seq(Change)
  PROVE  \E g : UndoneThrough(g, b, t)
<1> DEFINE n == Len(t)
           h == [p \in Images \X Change |-> Undone(p[1], p[2])]
           G(f) == [s \in SUBSET DOMAIN t |->
                      IF s = {} THEN b ELSE Undone(f[s \ {Max(s)}], t[Max(s)])]
           f == CHOOSE f : f = G(f)
<1>1. FoldLeft(Undone, b, t) = f[DOMAIN t]
  BY DEF FoldLeft, MapThenFoldSet
<1>2. DOMAIN t = 1 .. n /\ n \in Nat
  OBVIOUS
<1>3. \A x \in Images, c \in Change : Undone(x, c) \in Images
  <2> SUFFICES ASSUME NEW x \in Images, NEW c \in Change PROVE Undone(x, c) \in Images
    OBVIOUS
  <2> DEFINE k == c.region
             i == c.address - memory.regions[c.region].base
             v == c.old
  <2>1. v \in Byte /\ Undone(x, c) = SetAt(x, k, i, v)
    BY DEF Change, Undone, SetAt
  <2> HIDE DEF k, i, v
  <2> QED
    BY <2>1, SetAtStays
<1>4. h \in [Images \X Change -> Images] /\ \A x \in Images, c \in Change : h[<<x, c>>] = Undone(x, c)
  BY <1>3
<1> HIDE DEF h, n
<1>5. \E e : e = G(e)
  <2>1. PICK e : IsFold(e, b, h, t) /\ StaysIn(e, Images, Change, t)
    BY <1>4, FoldExists
  <2>2. ASSUME NEW s \in SUBSET DOMAIN t
        PROVE  e[s] = G(e)[s]
    <3>1. CASE s = {}
      BY <2>1, <3>1 DEF IsFold
    <3>2. CASE s # {}
      <4>1. e[s \ {Max(s)}] \in Images /\ t[Max(s)] \in Change
        BY <2>1, <3>2 DEF StaysIn
      <4>2. e[s] = h[<<e[s \ {Max(s)}], t[Max(s)]>>]
        BY <2>1, <3>2 DEF IsFold
      <4>3. e[s] = Undone(e[s \ {Max(s)}], t[Max(s)])
        BY <1>4, <4>1, <4>2
      <4> QED
        BY <3>2, <4>3
    <3> QED
      BY <3>1, <3>2
  <2>3. e = G(e)
    <3> HIDE DEF G
    <3>1. DOMAIN G(e) = SUBSET DOMAIN t /\ G(e) = [s \in SUBSET DOMAIN t |-> G(e)[s]]
      BY DEF G
    <3> QED
      BY <2>1, <2>2, <3>1 DEF StaysIn
  <2> QED
    BY <2>3
<1>6. f = G(f)
  <2> HIDE DEF G
  <2> QED
    BY <1>5
<1> HIDE DEF f
<1> DEFINE g == [m \in 0 .. n |-> f[1 .. m]]
<1>7. g[0] = b
  <2>1. 1 .. 0 = {} /\ 1 .. 0 \in SUBSET DOMAIN t
    OBVIOUS
  <2> QED
    BY <1>2, <1>6, <2>1
<1>8. ASSUME NEW m \in 1 .. n
      PROVE  g[m] = Undone(g[m - 1], t[m])
  <2>1. Max(1 .. m) = m /\ (1 .. m) \ {m} = 1 .. m - 1
    BY GreatestOfPrefix
  <2>2. 1 .. m \in SUBSET DOMAIN t /\ 1 .. m # {}
    <3>1. m \in 1 .. m /\ \A i \in 1 .. m : i \in 1 .. n
      BY <1>2
    <3> QED
      BY <1>2, <3>1
  <2>3. f[1 .. m] = Undone(f[1 .. m - 1], t[m])
    BY <1>6, <2>1, <2>2
  <2>4. m \in 0 .. n /\ m - 1 \in 0 .. n
    BY <1>2
  <2> QED
    BY <2>3, <2>4
<1>9. FoldLeft(Undone, b, t) = g[n]
  BY <1>1, <1>2
<1> HIDE DEF g
<1> QED
  BY <1>7, <1>8, <1>9 DEF n, UndoneThrough

\* A byte that was changed, among those of a write.
Differs(c) == c.old # c.new

Gathered(g, r, k, a, s) ==
  LET t == AllBytes(r, k, a, s) IN
  /\ g[0] = <<>> /\ ChangedBytes(r, k, a, s) = g[Len(t)]
  /\ \A m \in 1 .. Len(t) :
       g[m] = IF Differs(t[m]) THEN Append(g[m - 1], t[m]) ELSE g[m - 1]

LEMMA ChangesGather ==
  ASSUME NEW STATE r, NEW STATE k, NEW STATE a, NEW STATE s, AllBytes(r, k, a, s) \in Seq(Change)
  PROVE  \E g : Gathered(g, r, k, a, s)
<1> DEFINE t == AllBytes(r, k, a, s)
           n == Len(t)
           Add(x, c) == IF Differs(c) THEN Append(x, c) ELSE x
           h == [p \in Seq(Change) \X Change |-> Add(p[1], p[2])]
           G(f) == [z \in SUBSET DOMAIN t |->
                      IF z = {} THEN <<>> ELSE Add(f[z \ {Max(z)}], t[Max(z)])]
           f == CHOOSE f : f = G(f)
<1>1. ChangedBytes(r, k, a, s) = f[DOMAIN t]
  BY DEF ChangedBytes, FoldLeft, MapThenFoldSet, Differs
<1> HIDE DEF t
<1>2. DOMAIN t = 1 .. n /\ n \in Nat /\ t \in Seq(Change)
  BY DEF t
<1>3. \A x \in Seq(Change), c \in Change : Add(x, c) \in Seq(Change)
  OBVIOUS
<1> HIDE DEF Add
<1>4. h \in [Seq(Change) \X Change -> Seq(Change)]
      /\ \A x \in Seq(Change), c \in Change : h[<<x, c>>] = Add(x, c)
  BY <1>3
<1> HIDE DEF h, n
<1>5. \E e : e = G(e)
  <2>0. <<>> \in Seq(Change)
    OBVIOUS
  <2>1. PICK e : IsFold(e, <<>>, h, t) /\ StaysIn(e, Seq(Change), Change, t)
    <3> DEFINE T == Seq(Change)  o == <<>>
    <3>1. o \in T /\ h \in [T \X Change -> T] /\ t \in Seq(Change)
      BY <1>2, <1>4, <2>0
    <3> HIDE DEF T, o
    <3>2. \E e : IsFold(e, o, h, t) /\ StaysIn(e, T, Change, t)
      BY <3>1, FoldExists
    <3> QED
      BY <3>2 DEF T, o
  <2>2. ASSUME NEW z \in SUBSET DOMAIN t
        PROVE  e[z] = G(e)[z]
    <3>1. CASE z = {}
      BY <2>1, <3>1 DEF IsFold
    <3>2. CASE z # {}
      <4>1. e[z \ {Max(z)}] \in Seq(Change) /\ t[Max(z)] \in Change
        BY <2>1, <3>2 DEF StaysIn
      <4>2. e[z] = h[<<e[z \ {Max(z)}], t[Max(z)]>>]
        BY <2>1, <3>2 DEF IsFold
      <4>3. e[z] = Add(e[z \ {Max(z)}], t[Max(z)])
        BY <1>4, <4>1, <4>2
      <4> QED
        BY <3>2, <4>3
    <3> QED
      BY <3>1, <3>2
  <2>3. e = G(e)
    <3> HIDE DEF G
    <3>1. DOMAIN G(e) = SUBSET DOMAIN t /\ G(e) = [z \in SUBSET DOMAIN t |-> G(e)[z]]
      BY DEF G
    <3> QED
      BY <2>1, <2>2, <3>1 DEF StaysIn
  <2> QED
    BY <2>3
<1>6. f = G(f)
  <2> HIDE DEF G
  <2> QED
    BY <1>5
<1> HIDE DEF f
<1> DEFINE g == [m \in 0 .. n |-> f[1 .. m]]
<1>7. g[0] = <<>>
  <2>1. 1 .. 0 = {} /\ 1 .. 0 \in SUBSET DOMAIN t
    OBVIOUS
  <2>2. f[1 .. 0] = <<>>
    BY <1>6, <2>1
  <2> QED
    BY <1>2, <2>2
<1>8. ASSUME NEW m \in 1 .. n
      PROVE  g[m] = Add(g[m - 1], t[m])
  <2>1. Max(1 .. m) = m /\ (1 .. m) \ {m} = 1 .. m - 1
    BY GreatestOfPrefix
  <2>2. 1 .. m \in SUBSET DOMAIN t /\ 1 .. m # {}
    <3>1. m \in 1 .. m /\ \A i \in 1 .. m : i \in 1 .. n
      BY <1>2
    <3> QED
      BY <1>2, <3>1
  <2>3. f[1 .. m] = Add(f[1 .. m - 1], t[m])
    BY <1>6, <2>1, <2>2
  <2>4. m \in 0 .. n /\ m - 1 \in 0 .. n
    BY <1>2
  <2> QED
    BY <2>3, <2>4
<1>9. ChangedBytes(r, k, a, s) = g[n]
  BY <1>1, <1>2
<1> HIDE DEF g
<1> QED
  BY <1>7, <1>8, <1>9 DEF n, t, Add, Gathered

\* One recorded change, done and taken back, at the place the regions of m give it.
Redo(m, b, c) == SetAt(b, c.region, c.address - m.regions[c.region].base, c.new)
Undo(m, b, c) == SetAt(b, c.region, c.address - m.regions[c.region].base, c.old)

\* h is what the regions held between b and now, as the changes cs tell it.
Chain(m, h, cs, b, now) ==
  /\ h[0] = b /\ h[Len(cs)] = now
  /\ \A i \in 0 .. Len(cs) : h[i] \in Images
  /\ \A i \in 1 .. Len(cs) : h[i] = Redo(m, h[i - 1], cs[i]) /\ h[i - 1] = Undo(m, h[i], cs[i])

Told(m, cs, b, now) == cs \in Seq(Change) /\ \E h : Chain(m, h, cs, b, now)

LEMMA NothingToTell ==
  ASSUME NEW STATE m, NEW STATE b, b \in Images
  PROVE  Told(m, <<>>, b, b)
<1> DEFINE h == [i \in 0 .. 0 |-> b]
<1>1. <<>> \in Seq(Change) /\ Len(<<>>) = 0
  OBVIOUS
<1>2. Chain(m, h, <<>>, b, b)
  BY <1>1 DEF Chain
<1> QED
  BY <1>1, <1>2 DEF Told

LEMMA OneMore ==
  ASSUME NEW STATE m, NEW STATE cs, NEW STATE b, NEW STATE now, Told(m, cs, b, now),
         NEW STATE c, c \in Change, NEW STATE then, then \in Images,
         then = Redo(m, now, c), now = Undo(m, then, c)
  PROVE  Told(m, Append(cs, c), b, then)
<1>1. PICK h : Chain(m, h, cs, b, now)
  BY DEF Told
<1> DEFINE n == Len(cs)
           ds == Append(cs, c)
           e == [i \in 0 .. n + 1 |-> IF i = n + 1 THEN then ELSE h[i]]
<1>2. /\ cs \in Seq(Change) /\ n \in Nat /\ ds \in Seq(Change) /\ Len(ds) = n + 1
      /\ ds[n + 1] = c /\ \A i \in 1 .. n : ds[i] = cs[i]
  BY DEF Told
<1> HIDE DEF ds, n
<1>3. /\ e[0] = b /\ e[n + 1] = then /\ e[n] = now
      /\ \A i \in 0 .. n : e[i] = h[i]
  BY <1>1, <1>2 DEF Chain, n
<1> HIDE DEF e
<1>4. \A i \in 0 .. n + 1 : e[i] \in Images
  BY <1>1, <1>2, <1>3 DEF Chain, n
<1>5. ASSUME NEW i \in 1 .. n + 1
      PROVE  e[i] = Redo(m, e[i - 1], ds[i]) /\ e[i - 1] = Undo(m, e[i], ds[i])
  <2>1. CASE i = n + 1
    <3>1. i - 1 = n
      BY <1>2, <2>1
    <3> QED
      BY <1>2, <1>3, <2>1, <3>1
  <2>2. CASE i # n + 1
    <3>1. i \in 1 .. n /\ i \in 0 .. n /\ i - 1 \in 0 .. n
      BY <1>2, <2>2
    <3>2. h[i] = Redo(m, h[i - 1], cs[i]) /\ h[i - 1] = Undo(m, h[i], cs[i])
      BY <1>1, <3>1 DEF Chain, n
    <3> QED
      BY <1>2, <1>3, <3>1, <3>2
  <2> QED
    BY <2>1, <2>2
<1>6. Chain(m, e, ds, b, then)
  BY <1>2, <1>3, <1>4, <1>5 DEF Chain
<1> QED
  BY <1>2, <1>6 DEF Told, ds

\* Where the regions lie is all a telling takes from the memory.
LEMMA ToldBySamePlaces ==
  ASSUME NEW STATE x, NEW STATE y, SamePlaces(x, y),
         NEW STATE cs, NEW STATE b, NEW STATE now, Told(x, cs, b, now)
  PROVE  Told(y, cs, b, now)
<1>1. PICK h : Chain(x, h, cs, b, now)
  BY DEF Told
<1>2. ASSUME NEW i \in 1 .. Len(cs)
      PROVE  h[i] = Redo(y, h[i - 1], cs[i]) /\ h[i - 1] = Undo(y, h[i], cs[i])
  <2>1. cs[i] \in Change
    BY DEF Told
  <2>2. cs[i].region \in Kinds
    BY <2>1 DEF Change
  <2>3. x.regions[cs[i].region].base = y.regions[cs[i].region].base
    BY <2>2 DEF SamePlaces
  <2>4. h[i] = Redo(x, h[i - 1], cs[i]) /\ h[i - 1] = Undo(x, h[i], cs[i])
    BY <1>1 DEF Chain
  <2> QED
    BY <2>3, <2>4 DEF Redo, Undo
<1>3. Chain(y, h, cs, b, now)
  BY <1>1, <1>2 DEF Chain
<1> QED
  BY <1>3 DEF Told

\* A recorded history replays forwards and undoes backwards.
LEMMA ToldReplays ==
  ASSUME NEW STATE b, NEW STATE now, NEW STATE cs, Told(memory, cs, b, now)
  PROVE  FoldLeft(Replayed, b, cs) = now
<1>1. PICK h : Chain(memory, h, cs, b, now)
  BY DEF Told
<1>2. cs \in Seq(Change) /\ Len(cs) \in Nat /\ b \in Images
  <2>1. cs \in Seq(Change)
    BY DEF Told
  <2> QED
    BY <1>1, <2>1 DEF Chain
<1>3. PICK g : ReplayedThrough(g, b, cs)
  BY <1>2, ReplayGoesThrough
<1> USE DEF ReplayedThrough
<1> DEFINE n == Len(cs)
           S == {m \in 0 .. n : g[m] = h[m]}
<1>4. 0 \in S
  BY <1>1, <1>2, <1>3 DEF Chain
<1>5. ASSUME NEW m \in 0 .. n - 1, m \in S
      PROVE  m + 1 \in S
  <2>1. m + 1 \in 1 .. n /\ (m + 1) - 1 = m /\ m + 1 \in 0 .. n
    BY <1>2
  <2>2. g[m + 1] = Replayed(g[m], cs[m + 1])
    BY <1>3, <2>1
  <2>3. h[m + 1] = Redo(memory, h[m], cs[m + 1])
    BY <1>1, <2>1 DEF Chain
  <2>4. g[m] = h[m]
    BY <1>5
  <2> QED
    BY <2>1, <2>2, <2>3, <2>4 DEF Replayed, Redo, SetAt
<1>6. n \in S
  <2> HIDE DEF S
  <2>1. \A m \in 0 .. n : m \in S
    BY <1>2, <1>4, <1>5, Induction
  <2> QED
    BY <1>2, <2>1
<1> QED
  BY <1>1, <1>3, <1>6 DEF Chain

LEMMA ToldUndoes ==
  ASSUME NEW STATE b, NEW STATE now, NEW STATE cs, Told(memory, cs, b, now)
  PROVE  FoldLeft(Undone, now, Reverse(cs)) = b
<1>1. PICK h : Chain(memory, h, cs, b, now)
  BY DEF Told
<1> DEFINE n == Len(cs)
           rs == Reverse(cs)
<1>2. cs \in Seq(Change) /\ n \in Nat
  BY DEF Told
<1>3. /\ rs \in Seq(Change) /\ Len(rs) = n
      /\ \A m \in 1 .. n : rs[m] = cs[(n - m) + 1]
  BY <1>2 DEF Reverse
<1>4. now \in Images
  BY <1>1, <1>2 DEF Chain
<1> HIDE DEF rs
<1>5. PICK g : UndoneThrough(g, now, rs)
  BY <1>3, <1>4, UndoGoesThrough
<1> USE DEF UndoneThrough
<1> DEFINE S == {m \in 0 .. n : g[m] = h[n - m]}
<1>6. 0 \in S
  BY <1>1, <1>2, <1>5 DEF Chain
<1>7. ASSUME NEW m \in 0 .. n - 1, m \in S
      PROVE  m + 1 \in S
  <2>1. m + 1 \in 1 .. n /\ (m + 1) - 1 = m /\ m + 1 \in 0 .. n
    BY <1>2
  <2>2. g[m + 1] = Undone(g[m], rs[m + 1])
    BY <1>3, <1>5, <2>1
  <2>3. rs[m + 1] = cs[n - m]
    <3>1. (n - (m + 1)) + 1 = n - m
      BY <1>2
    <3> QED
      BY <1>3, <2>1, <3>1
  <2>4. h[n - (m + 1)] = Undo(memory, h[n - m], cs[n - m])
    <3>1. n - m \in 1 .. n /\ (n - m) - 1 = n - (m + 1)
      BY <1>2
    <3>2. h[(n - m) - 1] = Undo(memory, h[n - m], cs[n - m])
      BY <1>1, <3>1 DEF Chain
    <3> QED
      BY <3>1, <3>2
  <2>5. g[m] = h[n - m]
    BY <1>7
  <2> QED
    BY <2>1, <2>2, <2>3, <2>4, <2>5 DEF Undone, Undo, SetAt
<1>8. n \in S
  <2> HIDE DEF S
  <2>1. \A m \in 0 .. n : m \in S
    BY <1>2, <1>6, <1>7, Induction
  <2> QED
    BY <1>2, <2>1
<1>9. n - n = 0
  BY <1>2
<1> QED
  BY <1>1, <1>3, <1>5, <1>8, <1>9 DEF Chain, rs

LEMMA ImagesOfFilled ==
  ASSUME NEW STATE x, Spaced(x), Filled(x)
  PROVE  BytesOf(x) \in Images
<1> DEFINE B == UNION {[0 .. n - 1 -> Byte] : n \in Nat}
<1>1. \A k \in Kinds : x.regions[k].bytes \in B
  BY DEF Spaced, Filled
<1> HIDE DEF B
<1>2. [k \in Kinds |-> x.regions[k].bytes] \in [Kinds -> B]
  BY <1>1
<1> QED
  BY <1>2 DEF BytesOf, Images, B

LEMMA PuttingRecordsNothing ==
  ASSUME NEW STATE x, Shape(x), NEW STATE k, NEW STATE a, NEW STATE s
  PROVE  /\ Putting(x, k, a, s).changes = x.changes
         /\ Putting(x, k, a, s).overflowed = x.overflowed
<1> DEFINE b == [i \in DOMAIN x.regions[k].bytes |->
                   LET j == i - (a - x.regions[k].base) + 1
                   IN  IF j \in DOMAIN s THEN s[j] ELSE x.regions[k].bytes[i]]
           r == [x.regions EXCEPT ![k].bytes = b]
           y == [x EXCEPT !.regions = r]
<1>1. Putting(x, k, a, s) = y
  BY DEF Putting
<1> HIDE DEF r
<1>2. y.changes = x.changes /\ y.overflowed = x.overflowed
  BY DEF Shape
<1> QED
  BY <1>1, <1>2

LEMMA RecordsThese ==
  ASSUME NEW STATE x, Shape(x), NEW STATE c, NEW STATE o
  PROVE  LET y == [x EXCEPT !.changes = c, !.overflowed = o] IN
         y.changes = c /\ y.overflowed = o
BY DEF Shape

\* What a successful write leaves in the recorder.
Records(x, y, cs) ==
  /\ y.changes = x.changes \o Retained(x, cs)
  /\ y.overflowed = (x.overflowed \/ Retained(x, cs) # cs)

LEMMA WriteRecords ==
  ASSUME NEW STATE x, Shape(x), NEW STATE a, NEW STATE n, NEW STATE v, NEW STATE d,
         Succeeded(Validate(x, "write", a, n, d))
  PROVE  LET k == First(Containing(x, a, n))
             cs == ChangedBytes(x.regions[k], k, a, Encode(v, n))
             y == Written(x, a, n, v, d)
         IN  Records(x, y, cs)
<1> DEFINE k == First(Containing(x, a, n))
           s == Encode(v, n)
           z == Putting(x, k, a, s)
           cs == ChangedBytes(x.regions[k], k, a, s)
           new == z.changes \o Retained(z, cs)
           over == z.overflowed \/ Retained(z, cs) # cs
           y == [z EXCEPT !.changes = @ \o Retained(z, cs),
                          !.overflowed = @ \/ Retained(z, cs) # cs]
           y2 == [z EXCEPT !.changes = new, !.overflowed = over]
<1>1. Written(x, a, n, v, d) = y
  BY DEF Written, Recording
<1> HIDE DEF k, s, cs
<1>2. Shape(z) /\ z.changes = x.changes /\ z.overflowed = x.overflowed
  BY PuttingKeeps, PuttingRecordsNothing
<1> HIDE DEF z
<1>3. y = y2
  OBVIOUS
<1>4. Retained(z, cs) = Retained(x, cs)
  BY <1>2 DEF Retained
<1>5. y2.changes = new /\ y2.overflowed = over
  <2> HIDE DEF new, over
  <2> QED
    BY <1>2, RecordsThese
<1> HIDE DEF y, y2
<1>6. new = x.changes \o Retained(x, cs)
  BY <1>2, <1>4
<1>7. over = (x.overflowed \/ Retained(x, cs) # cs)
  BY <1>2, <1>4
<1> HIDE DEF new, over
<1> QED
  BY <1>1, <1>3, <1>5, <1>6, <1>7 DEF k, cs, s, Records

\* The recorder has room for MaxChanges; what it keeps is a prefix, whole when it fits.
LEMMA RetainedFits ==
  ASSUME NEW STATE x, x.changes \in Seq(Change), Len(x.changes) <= MaxChanges,
         NEW STATE cs, cs \in Seq(Change)
  PROVE  LET kept == Retained(x, cs) IN
         /\ kept \in Seq(Change) /\ Len(x.changes \o kept) <= MaxChanges
         /\ kept # cs => Len(x.changes \o kept) = MaxChanges
         /\ Len(x.changes) = MaxChanges => Len(x.changes \o kept) = MaxChanges
<1> DEFINE l == Len(cs)
           f == MaxChanges - Len(x.changes)
           q == Min({l, f})
           kept == SubSeq(cs, 1, q)
<1>1. l \in Nat /\ f \in Nat /\ Len(x.changes) \in Nat /\ MaxChanges \in Nat
  BY MemoryAssumption
<1>2. q \in {l, f} /\ q <= l /\ q <= f
  <2> HIDE DEF l, f
  <2>1. \E m \in {l, f} : \A i \in {l, f} : m <= i
    BY <1>1
  <2> QED
    BY <1>1, <2>1 DEF Min
<1> HIDE DEF q
<1>3. kept \in Seq(Change) /\ Len(kept) = q /\ q \in Nat
  BY <1>1, <1>2
<1>4. q = l => kept = cs
  BY <1>1
<1>5. kept = Retained(x, cs)
  BY DEF Retained, q
<1> HIDE DEF kept
<1>6. Len(x.changes \o kept) = Len(x.changes) + q
  BY <1>3
<1> QED
  BY <1>1, <1>2, <1>3, <1>4, <1>5, <1>6

-----------------------------------------------------------------------------

\* A write goes from one image to the next byte by byte, telling those that change.
LEMMA WriteIsTold ==
  ASSUME NEW STATE x, Spaced(x), Filled(x), NEW STATE k, k \in Kinds, NEW STATE a, a \in Int,
         NEW STATE n, n \in Nat, NEW STATE s, s \in [1 .. n -> Byte], Holds(x.regions[k], a, n),
         NEW STATE b, NEW STATE cs, Told(x, cs, b, BytesOf(x))
  PROVE  LET ds == ChangedBytes(x.regions[k], k, a, s) IN
         /\ ds \in Seq(Change)
         /\ Told(x, cs \o ds, b, [BytesOf(x) EXCEPT ![k] = Over(x.regions[k], a, s)])
<1> DEFINE r == x.regions[k]
           t == AllBytes(r, k, a, s)
           B == BytesOf(x)
           P(m) == [B EXCEPT ![k] = [i \in DOMAIN r.bytes |->
                      IF i - (a - r.base) + 1 \in 1 .. m THEN s[i - (a - r.base) + 1] ELSE r.bytes[i]]]
<1>1. /\ r.base \in Int /\ r.size \in Nat /\ DOMAIN r.bytes = 0 .. r.size - 1
      /\ r.bytes \in [0 .. r.size - 1 -> Byte]
      /\ r.base <= a /\ a + n <= r.base + r.size
  BY DEF Spaced, Filled, Holds, End
<1>2. B \in Images /\ DOMAIN B = Kinds /\ B[k] = r.bytes
  BY ImagesOfFilled DEF BytesOf
<1> HIDE DEF r, B
<1>3. /\ DOMAIN s = 1 .. n /\ \A i \in 1 .. n : s[i] \in Byte
  OBVIOUS
<1>4. /\ t \in Seq(Change) /\ Len(t) = n
      /\ \A m \in 1 .. n : t[m] = [address |-> a + m - 1, region |-> k,
                                   old |-> r.bytes[a - r.base + m - 1], new |-> s[m]]
  <2>1. ASSUME NEW m \in 1 .. n
        PROVE  [address |-> a + m - 1, region |-> k,
                old |-> r.bytes[a - r.base + m - 1], new |-> s[m]] \in Change
    <3>1. a - r.base + m - 1 \in 0 .. r.size - 1
      BY <1>1
    <3>2. r.bytes[a - r.base + m - 1] \in Byte /\ s[m] \in Byte /\ a + m - 1 \in Int
      BY <1>1, <1>3, <3>1
    <3> QED
      BY <3>2 DEF Change
  <2>2. t = [m \in 1 .. n |-> [address |-> a + m - 1, region |-> k,
                               old |-> r.bytes[a - r.base + m - 1], new |-> s[m]]]
    BY <1>3 DEF AllBytes
  <2> HIDE DEF t
  <2> QED
    BY <2>1, <2>2
<1>5. PICK g : /\ g[0] = <<>> /\ ChangedBytes(r, k, a, s) = g[Len(t)]
               /\ \A m \in 1 .. Len(t) :
                    g[m] = IF Differs(t[m]) THEN Append(g[m - 1], t[m]) ELSE g[m - 1]
  <2>1. PICK g : Gathered(g, r, k, a, s)
    BY <1>4, ChangesGather
  <2> QED
    BY <2>1 DEF Gathered
<1> HIDE DEF t
<1>6. ASSUME NEW m \in Nat
      PROVE  P(m) = [B EXCEPT ![k] = P(m)[k]] /\ DOMAIN P(m)[k] = DOMAIN r.bytes
  BY <1>2
<1> DEFINE S == {m \in 0 .. n : g[m] \in Seq(Change) /\ Told(x, cs \o g[m], b, P(m))}
<1>7. 0 \in S
  <2>1. P(0) = B
    <3>1. [i \in DOMAIN r.bytes |->
             IF i - (a - r.base) + 1 \in 1 .. 0 THEN s[i - (a - r.base) + 1] ELSE r.bytes[i]] = r.bytes
      <4>1. \A i : i \notin 1 .. 0
        OBVIOUS
      <4>2. r.bytes = [i \in DOMAIN r.bytes |-> r.bytes[i]]
        BY <1>1
      <4> QED
        BY <4>1, <4>2
    <3>2. [B EXCEPT ![k] = r.bytes] = B
      BY <1>2 DEF Images
    <3> QED
      BY <3>1, <3>2
  <2>2. cs \in Seq(Change) /\ <<>> \in Seq(Change)
    BY DEF Told
  <2>3. cs \o <<>> = cs
    BY <2>2
  <2>4. Told(x, cs, b, B)
    BY DEF B
  <2>5. Told(x, cs \o g[0], b, P(0))
    <3> HIDE DEF P
    <3> QED
      BY <1>5, <2>1, <2>3, <2>4
  <2>6. g[0] \in Seq(Change) /\ 0 \in 0 .. n
    BY <1>5, <2>2
  <2> HIDE DEF P
  <2> QED
    BY <2>5, <2>6
<1>8. ASSUME NEW m \in 0 .. n - 1, m \in S
      PROVE  m + 1 \in S
  <2> DEFINE c == t[m + 1]
             i == a - r.base + m
             p == P(m)
             q == P(m + 1)
  <2>1. m + 1 \in 1 .. n /\ (m + 1) - 1 = m /\ m + 1 \in 0 .. n /\ m \in Nat
    OBVIOUS
  <2>2. /\ c \in Change /\ c.region = k /\ c.address - r.base = i
        /\ c.old = r.bytes[i] /\ c.new = s[m + 1]
    <3>1. a + (m + 1) - 1 - r.base = i /\ a - r.base + (m + 1) - 1 = i
      BY <1>1
    <3>2. c \in Change
      BY <1>4, <2>1
    <3>3. c = [address |-> a + (m + 1) - 1, region |-> k,
               old |-> r.bytes[a - r.base + (m + 1) - 1], new |-> s[m + 1]]
      BY <1>4, <2>1
    <3> HIDE DEF c, i
    <3>4. c.address = a + (m + 1) - 1 /\ c.region = k /\ c.old = r.bytes[a - r.base + (m + 1) - 1] /\ c.new = s[m + 1]
      BY <3>3
    <3>5. c.address - r.base = i
      <4>1. c.address = a + m /\ r.base \in Int /\ m \in Int
        BY <1>1, <2>1, <3>4
      <4> QED
        BY <4>1 DEF i
    <3>6. c.old = r.bytes[i]
      BY <3>1, <3>4
    <3> QED
      BY <3>2, <3>4, <3>5, <3>6
  <2>3. i \in DOMAIN r.bytes /\ i - (a - r.base) + 1 = m + 1
    <3>1. a - r.base + m - (a - r.base) + 1 = m + 1
      BY <1>1, <2>1
    <3>2. a - r.base + m \in 0 .. r.size - 1
      BY <1>1, <2>1
    <3> QED
      BY <1>1, <3>1, <3>2
  <2>4. g[m + 1] = IF Differs(c) THEN Append(g[m], c) ELSE g[m]
    BY <1>4, <1>5, <2>1
  <2>5. g[m] \in Seq(Change) /\ Told(x, cs \o g[m], b, p)
    BY <1>8
  <2>6. p \in Images
    <3>1. PICK h : Chain(x, h, cs \o g[m], b, p)
      BY <2>5 DEF Told
    <3>2. cs \o g[m] \in Seq(Change)
      BY <2>5 DEF Told
    <3> DEFINE ds == cs \o g[m]
    <3>3. Len(ds) \in 0 .. Len(ds)
      BY <3>2
    <3> HIDE DEF p, ds
    <3> QED
      BY <3>1, <3>3 DEF Chain, ds
  <2>7. /\ DOMAIN p = Kinds /\ p = [j \in Kinds |-> p[j]]
        /\ DOMAIN q = Kinds /\ q = [j \in Kinds |-> q[j]]
    BY <1>2
  <2>8. \A j \in Kinds : j # k => p[j] = B[j] /\ q[j] = B[j]
    BY <1>2
  <2>9. /\ DOMAIN p[k] = DOMAIN r.bytes /\ DOMAIN q[k] = DOMAIN r.bytes
        /\ p[k] = [l \in DOMAIN r.bytes |-> p[k][l]] /\ q[k] = [l \in DOMAIN r.bytes |-> q[k][l]]
    BY <1>2
  <2>10. \A l \in DOMAIN r.bytes :
           /\ p[k][l] = IF l - (a - r.base) + 1 \in 1 .. m THEN s[l - (a - r.base) + 1] ELSE r.bytes[l]
           /\ q[k][l] = IF l - (a - r.base) + 1 \in 1 .. m + 1 THEN s[l - (a - r.base) + 1] ELSE r.bytes[l]
    BY <1>2
  <2>11. p[k][i] = c.old /\ q[k][i] = c.new
    <3>1. m + 1 \notin 1 .. m /\ m + 1 \in 1 .. m + 1
      BY <2>1
    <3> QED
      BY <2>2, <2>3, <2>10, <3>1
  <2>12. \A l \in DOMAIN r.bytes : l # i => p[k][l] = q[k][l]
    <3> SUFFICES ASSUME NEW l \in DOMAIN r.bytes, l # i PROVE p[k][l] = q[k][l]
      OBVIOUS
    <3>1. l - (a - r.base) + 1 # m + 1
      <4>1. a - r.base \in Int /\ l \in Int /\ m \in Int
        BY <1>1, <2>1
      <4>2. l # (a - r.base) + m
        OBVIOUS
      <4> QED
        BY <4>1, <4>2
    <3>2. (l - (a - r.base) + 1 \in 1 .. m) <=> (l - (a - r.base) + 1 \in 1 .. m + 1)
      BY <1>1, <2>1, <3>1
    <3> QED
      BY <2>10, <3>2
  <2> HIDE DEF p, q, c, i
  <2>13. q = SetAt(p, k, i, c.new) /\ q \in Images
    <3>1. c.new \in Byte
      BY <2>2 DEF Change
    <3> DEFINE w == SetAt(p, k, i, c.new)
    <3>2. w \in Images /\ \A j \in Kinds : w[j] =
            [l \in DOMAIN p[j] |-> IF j = k /\ l = i THEN c.new ELSE p[j][l]]
      BY <2>6, <3>1, SetAtStays
    <3>3. w[k] = q[k]
      <4>1. w[k] = [l \in DOMAIN r.bytes |-> IF l = i THEN c.new ELSE p[k][l]]
        BY <2>9, <3>2
      <4>2. \A l \in DOMAIN r.bytes : q[k][l] = IF l = i THEN c.new ELSE p[k][l]
        BY <2>11, <2>12
      <4> HIDE DEF w
      <4> QED
        BY <2>9, <4>1, <4>2
    <3>4. \A j \in Kinds : j # k => w[j] = q[j]
      <4> SUFFICES ASSUME NEW j \in Kinds, j # k PROVE w[j] = q[j]
        OBVIOUS
      <4>1. p[j] = [l \in DOMAIN p[j] |-> p[j][l]]
        BY <2>6 DEF Images
      <4>2. w[j] = [l \in DOMAIN p[j] |-> p[j][l]]
        BY <3>2
      <4> QED
        BY <2>8, <4>1, <4>2
    <3> HIDE DEF w
    <3>5. DOMAIN w = Kinds /\ w = [j \in Kinds |-> w[j]]
      BY <3>2 DEF Images
    <3>7. w = q
      BY <2>7, <3>3, <3>4, <3>5
    <3> QED
      BY <3>2, <3>7 DEF w
  <2>14. p = SetAt(q, k, i, c.old)
    <3>1. c.old \in Byte
      BY <2>2 DEF Change
    <3> DEFINE w == SetAt(q, k, i, c.old)
    <3>2. w \in Images /\ \A j \in Kinds : w[j] =
            [l \in DOMAIN q[j] |-> IF j = k /\ l = i THEN c.old ELSE q[j][l]]
      BY <2>13, <3>1, SetAtStays
    <3>3. w[k] = p[k]
      <4>1. w[k] = [l \in DOMAIN r.bytes |-> IF l = i THEN c.old ELSE q[k][l]]
        BY <2>9, <3>2
      <4>2. \A l \in DOMAIN r.bytes : p[k][l] = IF l = i THEN c.old ELSE q[k][l]
        BY <2>11, <2>12
      <4> HIDE DEF w
      <4> QED
        BY <2>9, <4>1, <4>2
    <3>4. \A j \in Kinds : j # k => w[j] = p[j]
      <4> SUFFICES ASSUME NEW j \in Kinds, j # k PROVE w[j] = p[j]
        OBVIOUS
      <4>1. q[j] = [l \in DOMAIN q[j] |-> q[j][l]]
        BY <2>13 DEF Images
      <4>2. w[j] = [l \in DOMAIN q[j] |-> q[j][l]]
        BY <3>2
      <4> QED
        BY <2>8, <4>1, <4>2
    <3> HIDE DEF w
    <3>5. DOMAIN w = Kinds /\ w = [j \in Kinds |-> w[j]]
      BY <3>2 DEF Images
    <3>7. w = p
      BY <2>7, <3>3, <3>4, <3>5
    <3> QED
      BY <3>7 DEF w
  <2>15. g[m + 1] \in Seq(Change) /\ Told(x, cs \o g[m + 1], b, q)
    <3>1. CASE Differs(c)
      <4>1. q = Redo(x, p, c) /\ p = Undo(x, q, c)
        BY <2>2, <2>13, <2>14 DEF Redo, Undo, r
      <4>2. cs \o g[m + 1] = Append(cs \o g[m], c) /\ g[m + 1] \in Seq(Change)
        <5>1. cs \in Seq(Change) /\ g[m] \in Seq(Change) /\ c \in Change /\ g[m + 1] = Append(g[m], c)
          BY <2>2, <2>4, <2>5, <3>1 DEF Told
        <5> DEFINE h == g[m]
        <5>2. cs \in Seq(Change) /\ h \in Seq(Change) /\ c \in Change
          BY <5>1
        <5> HIDE DEF h
        <5>3. cs \o Append(h, c) = Append(cs \o h, c)
          BY <5>2, AppendedAfter
        <5>4. g[m + 1] = Append(h, c)
          BY <5>1 DEF h
        <5>5. cs \o g[m + 1] = Append(cs \o h, c) /\ g[m + 1] \in Seq(Change)
          BY <5>2, <5>3, <5>4
        <5> QED
          BY <5>5 DEF h
      <4> DEFINE ds == cs \o g[m]
      <4> HIDE DEF ds
      <4>3. Told(x, Append(ds, c), b, q)
        BY <2>2, <2>5, <2>13, <4>1, OneMore DEF ds
      <4> QED
        BY <4>2, <4>3 DEF ds
    <3>2. CASE ~Differs(c)
      <4>1. c.old = c.new
        BY <3>2 DEF Differs
      <4>2. p = q
        <5>1. \A l \in DOMAIN r.bytes : p[k][l] = q[k][l]
          BY <2>11, <2>12, <4>1
        <5>2. p[k] = q[k]
          BY <2>9, <5>1
        <5> QED
          BY <2>7, <2>8, <5>2
      <4> QED
        BY <2>4, <2>5, <3>2, <4>2
    <3> QED
      BY <3>1, <3>2
  <2> QED
    BY <2>1, <2>15 DEF q
<1>9. n \in S
  <2> HIDE DEF S
  <2>1. \A m \in 0 .. n : m \in S
    BY <1>7, <1>8, Induction
  <2> QED
    BY <2>1
<1>10. P(n) = [B EXCEPT ![k] = Over(r, a, s)]
  BY <1>3 DEF Over
<1> HIDE DEF P
<1>11. ChangedBytes(r, k, a, s) = g[n]
  BY <1>4, <1>5
<1> QED
  BY <1>9, <1>10, <1>11 DEF r, B

Recorded ==
  /\ memory.changes \in Seq(Change) /\ memory.overflowed \in BOOLEAN
  /\ Len(memory.changes) <= MaxChanges
  /\ memory.overflowed => Len(memory.changes) = MaxChanges
  /\ (~loaded /\ ~memory.overflowed) => Told(memory, memory.changes, before, BytesOf(memory))

\* Every call that starts the recorder over leaves nothing to tell.
LEMMA StartedOver ==
  ASSUME NEW STATE x, Spaced(x), Filled(x), x.changes = <<>>, x.overflowed = FALSE,
         memory' = x, before' = BytesOf(x)
  PROVE  Recorded'
<1>1. BytesOf(x) \in Images
  BY ImagesOfFilled
<1>2. Told(x, <<>>, BytesOf(x), BytesOf(x))
  BY <1>1, NothingToTell
<1>3. x.changes \in Seq(Change) /\ Len(x.changes) = 0 /\ 0 <= MaxChanges
  BY MemoryAssumption
<1>4. /\ memory'.changes \in Seq(Change) /\ memory'.overflowed \in BOOLEAN
      /\ Len(memory'.changes) <= MaxChanges /\ ~memory'.overflowed
  BY <1>3
<1>5. Told(memory', memory'.changes, before', BytesOf(memory'))
  BY <1>2
<1> QED
  BY <1>4, <1>5 DEF Recorded

\* A checked write leaves the recorder telling the truth.
LEMMA WriteRecorded ==
  ASSUME Inv, Filled(memory), Recorded,
         NEW a \in Word, NEW n \in Nat, NEW v \in Nat, NEW d \in BOOLEAN, Write(a, n, v, d)
  PROVE  Recorded'
<1>1. memory' = Written(memory, a, n, v, d) /\ before' = before /\ loaded' = loaded
  BY DEF Write
<1>2. CASE ~Succeeded(Validate(memory, "write", a, n, d))
  <2>1. memory' = memory
    BY <1>1, <1>2 DEF Written
  <2> QED
    BY <1>1, <2>1 DEF Recorded
<1>3. CASE Succeeded(Validate(memory, "write", a, n, d))
  <2> DEFINE k == First(Containing(memory, a, n))
             r == memory.regions[k]
             s == Encode(v, n)
             cs == ChangedBytes(r, k, a, s)
             y == Written(memory, a, n, v, d)
             b == Over(r, a, s)
  <2>1. Shape(memory) /\ Spaced(memory)
    BY DEF Inv
  <2>2. /\ k \in Kinds /\ Holds(r, a, n) /\ SamePlaces(memory, y)
        /\ \A j \in Kinds : j # k => y.regions[j].bytes = memory.regions[j].bytes
        /\ y.regions[k].bytes = b
    BY <1>3, <2>1, WrittenRegion
  <2>3. Records(memory, y, cs)
    BY <1>3, <2>1, WriteRecords
  <2>4. s \in [1 .. n -> Byte] /\ a \in Int
    <3>1. DOMAIN s = 1 .. n /\ \A i \in 1 .. n : s[i] \in Byte
      BY EncodedBytes
    <3>2. s = [i \in 1 .. n |-> s[i]]
      BY DEF Encode
    <3> HIDE DEF s
    <3> QED
      BY <3>1, <3>2 DEF Word
  <2> HIDE DEF k, s, y, b
  <2>5. ASSUME NEW STATE ds, NEW STATE e, Told(memory, ds, e, BytesOf(memory))
        PROVE  cs \in Seq(Change) /\ Told(memory, ds \o cs, e, BytesOf(y))
    <3>1. /\ cs \in Seq(Change)
          /\ Told(memory, ds \o cs, e, [BytesOf(memory) EXCEPT ![k] = Over(r, a, s)])
      BY <2>1, <2>2, <2>4, <2>5, WriteIsTold
    <3>2. [BytesOf(memory) EXCEPT ![k] = b] = BytesOf(y)
      BY <2>2 DEF BytesOf
    <3> HIDE DEF cs
    <3> QED
      BY <3>1, <3>2 DEF b
  <2>6. cs \in Seq(Change)
    <3> DEFINE ds == <<>>
               e == BytesOf(memory)
    <3>1. Told(memory, ds, e, BytesOf(memory))
      BY <2>1, ImagesOfFilled, NothingToTell
    <3> HIDE DEF ds, e
    <3> QED
      BY <2>5, <3>1
  <2> HIDE DEF cs, r
  <2> DEFINE kept == Retained(memory, cs)
  <2>7. /\ kept \in Seq(Change) /\ Len(memory.changes \o kept) <= MaxChanges
        /\ kept # cs => Len(memory.changes \o kept) = MaxChanges
        /\ Len(memory.changes) = MaxChanges => Len(memory.changes \o kept) = MaxChanges
    BY <2>6, RetainedFits DEF Recorded
  <2> HIDE DEF kept
  <2>8. y.changes = memory.changes \o kept /\ y.overflowed = (memory.overflowed \/ kept # cs)
    BY <2>3 DEF kept, Records
  <2>9. y.changes \in Seq(Change) /\ y.overflowed \in BOOLEAN
    BY <2>7, <2>8 DEF Recorded
  <2>10. Len(y.changes) <= MaxChanges /\ (y.overflowed => Len(y.changes) = MaxChanges)
    BY <2>7, <2>8 DEF Recorded
  <2>11. ASSUME ~loaded, ~y.overflowed
         PROVE  Told(y, y.changes, before, BytesOf(y))
    <3>1. ~memory.overflowed /\ kept = cs
      BY <2>8, <2>11
    <3>2. Told(memory, memory.changes, before, BytesOf(memory))
      BY <2>11, <3>1 DEF Recorded
    <3>3. Told(memory, memory.changes \o cs, before, BytesOf(y))
      BY <2>5, <3>2
    <3> DEFINE now == BytesOf(y)
               ds == memory.changes \o cs
    <3> HIDE DEF now, ds
    <3>4. Told(y, ds, before, now)
      BY <2>2, <3>3, ToldBySamePlaces DEF now, ds
    <3> QED
      BY <2>8, <3>1, <3>4 DEF now, ds
  <2>12. memory' = y
    BY <1>1 DEF y
  <2> QED
    BY <1>1, <2>9, <2>10, <2>11, <2>12 DEF Recorded
<1> QED
  BY <1>2, <1>3

LEMMA InitializeRecorded ==
  ASSUME NEW STATE p, Placing(p), InitWithLayoutPolicy(p)
  PROVE  Recorded'
<1>1. Released.changes = <<>> /\ Released.overflowed = FALSE
  BY DEF Released
<1>2. Allocated(p).changes = <<>> /\ Allocated(p).overflowed = FALSE
  <2> DEFINE r == [k \in Kinds |->
                     [base |-> p.regions[k].base, size |-> SizeIn(p, k), permissions |-> Granted(k),
                      bytes |-> [i \in 0 .. SizeIn(p, k) - 1 |-> 0]]]
  <2>1. Allocated(p) = [Released EXCEPT !.regions = r]
    BY DEF Allocated
  <2> HIDE DEF r
  <2> QED
    BY <2>1 DEF Released
<1>3. \/ memory' = Released /\ before' = BytesOf(Released)
      \/ PolicyIsValid(p) /\ memory' = Allocated(p) /\ before' = BytesOf(Allocated(p))
  BY DEF InitWithLayoutPolicy, Fresh, StartOver
<1>4. CASE memory' = Released /\ before' = BytesOf(Released)
  BY <1>1, <1>4, ReleasedInv, ReleasedFilled, StartedOver
<1>5. CASE PolicyIsValid(p) /\ memory' = Allocated(p) /\ before' = BytesOf(Allocated(p))
  <2>1. Spaced(Allocated(p)) /\ Filled(Allocated(p))
    BY <1>5, AllocatedInv, AllocatedFilled
  <2> QED
    BY <1>2, <1>5, <2>1, StartedOver
<1> QED
  BY <1>3, <1>4, <1>5

LEMMA RecordedSteps == Inv /\ Filled(memory) /\ Recorded /\ [Next]_vars => Recorded'
<1> SUFFICES ASSUME Inv, Filled(memory), Recorded, [Next]_vars PROVE Recorded'
  OBVIOUS
<1>0. ASSUME memory' = Released, before' = BytesOf(Released)
      PROVE  Recorded'
  <2>1. Released.changes = <<>> /\ Released.overflowed = FALSE
    BY DEF Released
  <2> QED
    BY <1>0, <2>1, ReleasedInv, ReleasedFilled, StartedOver
<1>1. ASSUME NEW a \in Word, NEW n \in Widths, NEW d \in BOOLEAN, Read(a, n, d)
      PROVE  Recorded'
  BY <1>1 DEF Read, Recorded
<1>2. ASSUME NEW a \in Word, NEW n \in Widths, NEW v \in Contents, NEW d \in BOOLEAN, Write(a, n, v, d)
      PROVE  Recorded'
  <2>1. n \in Nat /\ v \in Nat
    BY MemoryAssumption
  <2> QED
    BY <1>2, <2>1, WriteRecorded
<1>3. CASE ClearChanges
  <2> DEFINE y == [memory EXCEPT !.changes = <<>>, !.overflowed = FALSE]
  <2>1. memory' = y /\ before' = BytesOf(memory)
    BY <1>3 DEF ClearChanges, Cleared
  <2>2. y.regions = memory.regions
    BY Record DEF Inv
  <2>3. y.changes = <<>> /\ y.overflowed = FALSE
    BY DEF Inv, Shape
  <2> HIDE DEF y
  <2>4. Spaced(y) /\ Filled(y) /\ BytesOf(y) = BytesOf(memory)
    BY <2>2 DEF Inv, Spaced, Filled, BytesOf
  <2> QED
    BY <2>1, <2>3, <2>4, StartedOver
<1>4. CASE Deinit
  BY <1>0, <1>4 DEF Deinit, StartOver
<1>5. ASSUME NEW l \in Loads, LoadRegionBytes(l)
      PROVE  Recorded'
  <2>1. CASE memory' = memory /\ before' = before /\ loaded' = loaded
    BY <2>1 DEF Recorded
  <2>2. ASSUME NEW STATE a, memory' = Putting(memory, l.region, a, l.bytes), loaded' = TRUE
        PROVE  Recorded'
    <3> DEFINE y == Putting(memory, l.region, a, l.bytes)
    <3>1. y.changes = memory.changes /\ y.overflowed = memory.overflowed
      <4> DEFINE q == l.region
                 s == l.bytes
      <4> HIDE DEF q, s
      <4>1. /\ Putting(memory, q, a, s).changes = memory.changes
            /\ Putting(memory, q, a, s).overflowed = memory.overflowed
        BY PuttingRecordsNothing DEF Inv
      <4> QED
        BY <4>1 DEF q, s
    <3> HIDE DEF y
    <3>2. memory' = y
      BY <2>2 DEF y
    <3> QED
      BY <2>2, <3>1, <3>2 DEF Recorded
  <2> QED
    BY <1>5, <2>1, <2>2 DEF LoadRegionBytes
<1>6. ASSUME NEW p \in Policies, InitWithLayoutPolicy(p)
      PROVE  Recorded'
  BY <1>6, MemoryAssumption, PolicyPlaces, InitializeRecorded
<1>7. ASSUME NEW c \in Configs, InitFromConfig(c)
      PROVE  Recorded'
  BY <1>0, <1>7, ConfigPlaces, InitializeRecorded DEF InitFromConfig, Fresh, StartOver
<1>8. CASE UNCHANGED vars
  BY <1>8 DEF vars, Recorded
<1> QED
  BY <1>1, <1>2, <1>3, <1>4, <1>5, <1>6, <1>7, <1>8 DEF Next

\* The recorded changes, replayed on the bytes of the last clear, give the bytes now, and
\* undone from the last to the first give those bytes back, unless bytes were loaded or the
\* recorder says it overflowed; it says so only when it is full.
THEOREM RecordsAreTrue == Spec => []RecorderTellsTheTruth
<1>1. Init => Recorded
  <2> SUFFICES ASSUME Init PROVE Recorded
    OBVIOUS
  <2>1. BytesOf(Released) \in Images
    BY ReleasedInv, ReleasedFilled, ImagesOfFilled
  <2>2. Told(Released, <<>>, BytesOf(Released), BytesOf(Released))
    BY <2>1, NothingToTell
  <2>3. Released.changes = <<>> /\ Released.overflowed = FALSE
    BY DEF Released
  <2>4. <<>> \in Seq(Change) /\ Len(<<>>) = 0 /\ 0 <= MaxChanges
    BY MemoryAssumption
  <2>5. memory = Released /\ before = BytesOf(Released)
    BY DEF Init
  <2> QED
    BY <2>2, <2>3, <2>4, <2>5 DEF Recorded
<1>2. Recorded => RecorderTellsTheTruth
  BY ToldReplays, ToldUndoes DEF Recorded, RecorderTellsTheTruth
<1> QED
  BY <1>1, <1>2, RecordedSteps, AlwaysInv, AlwaysFilled, PTL DEF Spec

-----------------------------------------------------------------------------
(* Layouts: sizes. *)

LEMMA WordsAreNumbers == UMax \in Nat /\ \A w \in Word : w \in Nat
BY LayoutAssumption DEF Word

\* Rounding up never loses a byte.
LEMMA AlignUpIsEnough ==
  ASSUME NEW n \in Nat, NEW a \in Nat \ {0}
  PROVE  AlignUp(n, a) \in Nat /\ AlignUp(n, a) >= n
<1>1. n % a \in 0 .. a - 1
  OBVIOUS
<1>2. a - (n % a) \in Nat
  BY <1>1
<1>3. (a - (n % a)) % a \in 0 .. a - 1
  BY <1>2
<1> QED
  BY <1>3 DEF AlignUp

LEMMA RawSizesAreNumbers ==
  ASSUME NEW p \in Policy, NEW d \in Metadata, NEW k \in Kinds
  PROVE  RawSize(p, d, k) \in Nat
BY WordsAreNumbers DEF Policy, Metadata, RawSize, Requested, NoRequest

\* A region is at least as large as what was asked for.
LEMMA AlignedSizeIsEnough ==
  ASSUME NEW p \in Policy, NEW d \in Metadata, NEW k \in Kinds, p.alignment # 0
  PROVE  AlignedSize(p, d, k) \in Nat /\ AlignedSize(p, d, k) >= RawSize(p, d, k)
<1>1. RawSize(p, d, k) \in Nat
  BY RawSizesAreNumbers
<1>2. p.regions[k].min \in Nat /\ p.alignment \in Nat \ {0}
  BY WordsAreNumbers DEF Policy, RegionPolicy
<1> DEFINE n == AtLeast(RawSize(p, d, k), p.regions[k].min)
<1>3. n \in Nat /\ n >= RawSize(p, d, k)
  BY <1>1, <1>2 DEF AtLeast
<1>4. AlignUp(n, p.alignment) \in Nat /\ AlignUp(n, p.alignment) >= n
  BY <1>2, <1>3, AlignUpIsEnough
<1> QED
  BY <1>1, <1>3, <1>4 DEF AlignedSize

\* What sizing keeps, and that the end of each region it does not keep follows from the size.
LEMMA SizedShape ==
  ASSUME NEW p \in Policy, NEW d \in Metadata, p.alignment # 0
  PROVE  LET q == Sized(p, d) IN
         /\ DOMAIN q = DOMAIN p
         /\ \A f \in DOMAIN p \ {"mode", "heapRequest", "stackRequest", "regions"} : q[f] = p[f]
         /\ q.mode = "automatic" /\ DOMAIN q.regions = Kinds
         /\ \A k \in Kinds : /\ q.regions[k].base \in Int /\ q.regions[k].limit \in Int
                             /\ SizeIn(q, k) = AlignedSize(p, d, k)
         /\ \A k \in 1 .. 4 : q.regions[k].base = p.regions[k].base
         /\ q.regions[StackRegion].limit = p.regions[StackRegion].limit
<1> DEFINE q == Sized(p, d)
<1>1. \A k \in Kinds : p.regions[k] \in RegionPolicy
  BY DEF Policy
<1>2. \A k \in Kinds : q.regions[k] = SizedTo(p, k, AlignedSize(p, d, k))
  BY DEF Sized, Policy
<1>3. ASSUME NEW k \in Kinds
      PROVE  /\ q.regions[k].base \in Int /\ q.regions[k].limit \in Int
             /\ SizeIn(q, k) = AlignedSize(p, d, k)
             /\ k # StackRegion => q.regions[k].base = p.regions[k].base
             /\ k = StackRegion => q.regions[k].limit = p.regions[k].limit
  <2> DEFINE size == AlignedSize(p, d, k)
  <2>1. size \in Nat
    BY AlignedSizeIsEnough
  <2>2. p.regions[k].base \in Nat /\ p.regions[k].limit \in Nat
    BY <1>1, WordsAreNumbers DEF RegionPolicy
  <2> HIDE DEF size
  <2>3. CASE k = StackRegion
    <3>1. q.regions[k] = [p.regions[k] EXCEPT !.base = p.regions[k].limit - size]
      BY <1>2, <2>3 DEF SizedTo, size
    <3>2. /\ q.regions[k].base = p.regions[k].limit - size
          /\ q.regions[k].limit = p.regions[k].limit
      BY <3>1, <1>1 DEF RegionPolicy
    <3> QED
      BY <2>1, <2>2, <2>3, <3>2 DEF SizeIn, size
  <2>4. CASE k # StackRegion
    <3>1. q.regions[k] = [p.regions[k] EXCEPT !.limit = p.regions[k].base + size]
      BY <1>2, <2>4 DEF SizedTo, size
    <3>2. /\ q.regions[k].limit = p.regions[k].base + size
          /\ q.regions[k].base = p.regions[k].base
      BY <3>1, <1>1 DEF RegionPolicy
    <3> QED
      BY <2>1, <2>2, <2>4, <3>2 DEF SizeIn, size
  <2> QED
    BY <2>3, <2>4
<1>4. /\ DOMAIN q = DOMAIN p /\ q.mode = "automatic" /\ DOMAIN q.regions = Kinds
      /\ \A f \in DOMAIN p \ {"mode", "heapRequest", "stackRequest", "regions"} : q[f] = p[f]
  BY DEF Sized, Policy
<1> QED
  BY <1>3, <1>4 DEF Kinds, StackRegion

-----------------------------------------------------------------------------
(* Order. *)

HasBounds(q) == \A k \in Kinds : q.regions[k].base \in Int /\ q.regions[k].limit \in Int

\* Neighbours a gap apart are enough: every region ends a gap before any later one.
LEMMA NeighboursSuffice ==
  ASSUME NEW q, HasBounds(q), q.gap \in Nat, PolicyIsValid(q)
  PROVE  \A j, k \in Kinds : j < k => q.regions[j].limit + q.gap <= q.regions[k].base
<1> DEFINE b(k) == q.regions[k].base
           e(k) == q.regions[k].limit
<1>1. \A k \in Kinds : b(k) \in Int /\ e(k) \in Int /\ b(k) < e(k)
  BY DEF HasBounds, PolicyIsValid
<1>2. /\ e(1) + q.gap <= b(2) /\ e(2) + q.gap <= b(3)
      /\ e(3) + q.gap <= b(4) /\ e(4) + q.gap <= b(5)
  BY DEF PolicyIsValid, Separated
<1> HIDE DEF b, e
<1>3. \A j, k \in Kinds : j < k => e(j) + q.gap <= b(k)
  <2> SUFFICES ASSUME NEW j \in Kinds, NEW k \in Kinds, j < k PROVE e(j) + q.gap <= b(k)
    OBVIOUS
  <2>1. j \in {1, 2, 3, 4} /\ k \in {2, 3, 4, 5}
    BY DEF Kinds
  <2> QED
    BY <1>1, <1>2, <2>1 DEF Kinds
<1> QED
  BY <1>3 DEF b, e

-----------------------------------------------------------------------------
(* Automatic sizing. *)

\* Only a sizing whose result is valid succeeds.
LEMMA AutomaticSucceeds ==
  ASSUME NEW p \in Policy, NEW d \in Metadata, Automatic(p, d).status = "ok"
  PROVE  p.alignment # 0 /\ PolicyIsValid(Sized(p, d))
<1>1. \A v, g : Verdict(v, g).status = v
  BY DEF Verdict
<1>2. \A k : RegionFault(p, d, k).status # "ok"
  BY <1>1 DEF RegionFault
<1> QED
  BY <1>1, <1>2 DEF Automatic

LEMMA AutomaticFits ==
  ASSUME NEW p \in Policy, NEW d \in Metadata, Automatic(p, d).status = "ok"
  PROVE  LET q == Sized(p, d) IN
         /\ HasBounds(q) /\ q.gap \in Nat /\ PolicyIsValid(q)
         /\ \A k \in Kinds : SizeIn(q, k) >= RawSize(p, d, k)
         /\ \A k \in 1 .. 4 : q.regions[k].base = p.regions[k].base
         /\ q.regions[StackRegion].limit = p.regions[StackRegion].limit
<1> DEFINE q == Sized(p, d)
<1>1. p.alignment # 0 /\ PolicyIsValid(q)
  BY AutomaticSucceeds
<1>2. HasBounds(q)
  BY <1>1, SizedShape DEF HasBounds
<1>3. q.gap = p.gap /\ p.gap \in Nat
  BY <1>1, SizedShape, WordsAreNumbers DEF Policy
<1>4. \A k \in Kinds : SizeIn(q, k) >= RawSize(p, d, k)
  BY <1>1, SizedShape, AlignedSizeIsEnough
<1> QED
  BY <1>1, <1>2, <1>3, <1>4, SizedShape

-----------------------------------------------------------------------------
(* Randomized placement. *)

\* The policy sized for a program whatever mode its base names.
LEMMA SizingBaseIsPolicy ==
  ASSUME NEW p \in Policy, NEW d \in Metadata
  PROVE  LET a == SizingBase(p) IN
         /\ a \in Policy /\ DOMAIN a = DOMAIN p /\ a.regions = p.regions
         /\ \A k \in Kinds : RawSize(a, d, k) = RawSize(p, d, k)
BY DEF SizingBase, Policy, Modes, RawSize

LEMMA SizedToShape ==
  ASSUME NEW p, NEW k, NEW size
  PROVE  DOMAIN SizedTo(p, k, size) = DOMAIN p.regions[k]
BY DEF SizedTo

\* What is placed: a sized policy with a randomized mode and a seed.
LEMMA SeededShape ==
  ASSUME NEW p \in Policy, NEW d \in Metadata, NEW mode \in {"seeded", "fresh"}, NEW seed \in Word,
         Automatic(SizingBase(p), d).status = "ok"
  PROVE  LET q == Seeded(p, d, mode, seed)
             a == Sized(SizingBase(p), d)
         IN  /\ q.mode = mode /\ q.seed = seed
             /\ q.regions = a.regions /\ DOMAIN q.regions = Kinds
             /\ HasBounds(q) /\ \A k \in Kinds : SizeIn(q, k) >= RawSize(p, d, k)
             /\ DOMAIN q = DOMAIN p
             /\ q.gap \in Nat /\ q.alignment \in Nat \ {0}
             /\ q.randomMin \in Nat /\ q.randomLimit \in Nat
<1> DEFINE b == SizingBase(p)
           a == Sized(b, d)
           q == Seeded(p, d, mode, seed)
<1>1. b \in Policy /\ DOMAIN b = DOMAIN p /\ \A k \in Kinds : RawSize(b, d, k) = RawSize(p, d, k)
  BY SizingBaseIsPolicy
<1>2. b.alignment # 0 /\ HasBounds(a) /\ \A k \in Kinds : SizeIn(a, k) >= RawSize(b, d, k)
  BY <1>1, AutomaticFits, AutomaticSucceeds
<1>3. q = [a EXCEPT !.mode = mode, !.hasSeed = TRUE, !.seed = seed]
  BY DEF Seeded
<1>4. /\ DOMAIN a = DOMAIN p /\ DOMAIN a.regions = Kinds
      /\ \A f \in {"gap", "alignment", "randomMin", "randomLimit"} : a[f] = b[f]
  <2>1. {"gap", "alignment", "randomMin", "randomLimit"}
          \subseteq DOMAIN b \ {"mode", "heapRequest", "stackRequest", "regions"}
    BY <1>1 DEF Policy
  <2> QED
    BY <1>1, <1>2, <2>1, SizedShape
<1>5. /\ b.gap \in Nat /\ b.alignment \in Nat \ {0} /\ b.randomMin \in Nat /\ b.randomLimit \in Nat
  BY <1>1, <1>2, WordsAreNumbers DEF Policy
<1> HIDE DEF a, b, q
<1>6. /\ DOMAIN q = DOMAIN a /\ q.regions = a.regions /\ q.mode = mode /\ q.seed = seed
      /\ q.gap = a.gap /\ q.alignment = a.alignment
      /\ q.randomMin = a.randomMin /\ q.randomLimit = a.randomLimit
  <2>1. {"mode", "hasSeed", "seed"} \subseteq DOMAIN a
    BY <1>4 DEF Policy
  <2> QED
    BY <1>3, <2>1
<1>7. a.gap = b.gap /\ a.alignment = b.alignment /\ a.randomMin = b.randomMin /\ a.randomLimit = b.randomLimit
  BY <1>4
<1>8. HasBounds(q) /\ \A k \in Kinds : SizeIn(q, k) >= RawSize(p, d, k)
  BY <1>1, <1>2, <1>6 DEF HasBounds, SizeIn
<1> QED
  BY <1>3, <1>4, <1>5, <1>6, <1>7, <1>8 DEF a, b, q

\* Where the first region may go is one of at least one slots.
LEMMA FirstBaseIsNumber ==
  ASSUME NEW q, HasBounds(q), q.gap \in Nat, q.alignment \in Nat \ {0}, q.seed \in Word,
         q.randomMin \in Nat, q.randomLimit \in Nat, Placement(q).status = "ok"
  PROVE  FirstBase(q) \in Int
<1>1. Total(q) \in Int /\ Span(q) \in Int
  BY DEF HasBounds, Total, SizeBefore, SizeIn, Span, Kinds
<1>2. Start(q) \in Nat
  BY AlignUpIsEnough DEF Start
<1>3. Start(q) < q.randomLimit /\ Span(q) <= q.randomLimit - Start(q)
  BY <1>1, <1>2 DEF Placement, Verdict
<1> DEFINE room == q.randomLimit - Start(q) - Span(q)
           slots == room \div q.alignment + 1
<1>4. room \in Nat
  BY <1>1, <1>2, <1>3
<1> HIDE DEF room
<1>5. slots \in Nat \ {0}
  BY <1>4
<1>6. Mix[q.seed] \in Nat
  BY WordsAreNumbers, LayoutAssumption
<1> HIDE DEF slots
<1>7. Mix[q.seed] % slots \in Nat
  BY <1>5, <1>6
<1> QED
  BY <1>2, <1>7 DEF FirstBase, slots, room

\* Placing moves regions and keeps their sizes.
LEMMA PlacedShape ==
  ASSUME NEW q, HasBounds(q), q.gap \in Nat, FirstBase(q) \in Int,
         DOMAIN q.regions = Kinds, "regions" \in DOMAIN q,
         q = [f \in DOMAIN q |-> q[f]],
         \A k \in Kinds : {"base", "limit"} \subseteq DOMAIN q.regions[k]
  PROVE  LET r == Placed(q) IN
         /\ HasBounds(r) /\ \A k \in Kinds : SizeIn(r, k) = SizeIn(q, k)
         /\ \A f \in DOMAIN q \ {"regions"} : r[f] = q[f]
<1> DEFINE r == Placed(q)
<1>1. \A k \in Kinds : r.regions[k] = [q.regions[k] EXCEPT !.base = PlacedBase(q, k),
                                         !.limit = PlacedBase(q, k) + SizeIn(q, k)]
  BY DEF Placed
<1>2. ASSUME NEW k \in Kinds
      PROVE  /\ r.regions[k].base = PlacedBase(q, k)
             /\ r.regions[k].limit = PlacedBase(q, k) + SizeIn(q, k)
             /\ PlacedBase(q, k) \in Int /\ SizeIn(q, k) \in Int
  <2>1. r.regions[k].base = PlacedBase(q, k) /\ r.regions[k].limit = PlacedBase(q, k) + SizeIn(q, k)
    BY <1>1
  <2>2. \A j \in Kinds : SizeIn(q, j) \in Int
    BY DEF HasBounds, SizeIn
  <2>3. SizeBefore(q, k) \in Int
    BY <2>2 DEF SizeBefore, Kinds
  <2>4. PlacedBase(q, k) \in Int
    BY <2>3 DEF PlacedBase, Kinds
  <2> QED
    BY <2>1, <2>2, <2>4
<1>3. \A f \in DOMAIN q \ {"regions"} : r[f] = q[f]
  BY DEF Placed
<1> HIDE DEF r
<1>4. \A k \in Kinds : SizeIn(r, k) = SizeIn(q, k)
  BY <1>2 DEF SizeIn
<1>5. HasBounds(r)
  BY <1>2 DEF HasBounds
<1> QED
  BY <1>3, <1>4, <1>5 DEF r

\* A randomized layout that was built has its sizes, its gaps and its range.
LEMMA RandomizedFits ==
  ASSUME NEW p \in Policy, NEW d \in Metadata, NEW mode \in {"seeded", "fresh"}, NEW seed \in Word,
         RandomizedOutcome(p, d, mode, seed).verdict.status = "ok"
  PROVE  LET q == Seeded(p, d, mode, seed)
             r == RandomizedOutcome(p, d, mode, seed).policy
         IN  /\ Automatic(SizingBase(p), d).status = "ok"
             /\ Placement(q).status = "ok" /\ r = Placed(q) /\ r.seed = seed
             /\ \A k \in Kinds : SizeIn(r, k) >= RawSize(p, d, k)
             /\ \A j, k \in Kinds : j < k => r.regions[j].limit + r.gap <= r.regions[k].base
             /\ \A k \in Kinds : InRandomRange(r, r.regions[k])
<1> DEFINE q == Seeded(p, d, mode, seed)
           r == Placed(q)
<1>1. /\ Automatic(SizingBase(p), d).status = "ok" /\ Placement(q).status = "ok"
      /\ RandomizedOutcome(p, d, mode, seed).policy = r
  BY DEF RandomizedOutcome
<1>2. /\ q.mode = mode /\ q.seed = seed /\ HasBounds(q) /\ DOMAIN q.regions = Kinds
      /\ \A k \in Kinds : SizeIn(q, k) >= RawSize(p, d, k)
      /\ DOMAIN q = DOMAIN p /\ q.gap \in Nat /\ q.alignment \in Nat \ {0}
      /\ q.randomMin \in Nat /\ q.randomLimit \in Nat
      /\ q.regions = Sized(SizingBase(p), d).regions
  BY <1>1, SeededShape
<1>3. /\ \A k \in Kinds : {"base", "limit"} \subseteq DOMAIN q.regions[k]
      /\ {"regions", "mode", "seed", "gap"} \subseteq DOMAIN q
      /\ q = [f \in DOMAIN q |-> q[f]]
  <2>1. \A k \in Kinds : p.regions[k] \in RegionPolicy
    BY DEF Policy
  <2>2. \A k \in Kinds : q.regions[k] = SizedTo(SizingBase(p), k,
                           AlignedSize(SizingBase(p), d, k))
    BY <1>2 DEF Sized
  <2>3. \A k \in Kinds : DOMAIN q.regions[k] = DOMAIN p.regions[k]
    BY <2>2, SizingBaseIsPolicy, SizedToShape
  <2>4. \A k \in Kinds : {"base", "limit"} \subseteq DOMAIN q.regions[k]
    BY <2>1, <2>3 DEF RegionPolicy
  <2>5. {"regions", "mode", "seed", "gap"} \subseteq DOMAIN q
    BY <1>2 DEF Policy
  <2>6. q = [f \in DOMAIN q |-> q[f]]
    BY DEF Seeded
  <2> QED
    BY <2>4, <2>5, <2>6
<1> HIDE DEF q
<1>4. FirstBase(q) \in Int
  BY <1>1, <1>2, FirstBaseIsNumber
<1>5. /\ HasBounds(r) /\ \A k \in Kinds : SizeIn(r, k) = SizeIn(q, k)
      /\ r.mode = mode /\ r.gap = q.gap /\ r.seed = seed
  BY <1>2, <1>3, <1>4, PlacedShape
<1>6. PolicyIsValid(r)
  BY <1>1 DEF Placement, Verdict
<1> HIDE DEF r
<1>7. \A j, k \in Kinds : j < k => r.regions[j].limit + r.gap <= r.regions[k].base
  BY <1>2, <1>5, <1>6, NeighboursSuffice
<1>8. \A k \in Kinds : InRandomRange(r, r.regions[k])
  BY <1>5, <1>6 DEF PolicyIsValid, Randomized
<1>9. \A k \in Kinds : SizeIn(r, k) >= RawSize(p, d, k)
  BY <1>2, <1>5
<1> QED
  BY <1>1, <1>5, <1>7, <1>8, <1>9 DEF q, r

-----------------------------------------------------------------------------
(* Reproducing a fresh layout. *)

\* Policies alike in everything but which randomized mode they name are placed alike.
LEMMA AlikePlacedAlike ==
  ASSUME NEW q, NEW r, q.mode \in {"seeded", "fresh"}, r.mode \in {"seeded", "fresh"},
         {"regions", "gap", "alignment", "seed", "randomMin", "randomLimit", "mode", "totalLimit"}
           \subseteq DOMAIN q,
         DOMAIN r = DOMAIN q, \A f \in DOMAIN q \ {"mode"} : r[f] = q[f]
  PROVE  Placed(r).regions = Placed(q).regions /\ Placement(r) = Placement(q)
<1>1. /\ r.regions = q.regions /\ r.gap = q.gap /\ r.alignment = q.alignment /\ r.seed = q.seed
      /\ r.randomMin = q.randomMin /\ r.randomLimit = q.randomLimit /\ r.totalLimit = q.totalLimit
  OBVIOUS
<1>2. /\ Start(r) = Start(q)
      /\ \A k : SizeIn(r, k) = SizeIn(q, k)
  BY <1>1 DEF Start, SizeIn
<1>3. \A k : SizeBefore(r, k) = SizeBefore(q, k)
  BY <1>2 DEF SizeBefore
<1>4. Span(r) = Span(q)
  BY <1>1, <1>3 DEF Span, Total
<1>5. FirstBase(r) = FirstBase(q)
  BY <1>1, <1>2, <1>4 DEF FirstBase
<1>6. \A k : PlacedBase(r, k) = PlacedBase(q, k)
  BY <1>1, <1>3, <1>5 DEF PlacedBase
<1>7. Placed(r).regions = Placed(q).regions
  <2> DEFINE Moved(old, x, n) == [old EXCEPT !.base = x, !.limit = x + n]
  <2>1. Placed(q).regions = [k \in Kinds |-> Moved(q.regions[k], PlacedBase(q, k), SizeIn(q, k))]
    BY DEF Placed
  <2>2. Placed(r).regions = [k \in Kinds |-> Moved(r.regions[k], PlacedBase(r, k), SizeIn(r, k))]
    BY <1>1 DEF Placed
  <2> HIDE DEF Moved
  <2> QED
    BY <1>1, <1>2, <1>6, <2>1, <2>2
<1> DEFINE a == Placed(q)
           b == Placed(r)
<1>8. /\ b.gap = a.gap /\ b.alignment = a.alignment /\ b.totalLimit = a.totalLimit
      /\ b.randomMin = a.randomMin /\ b.randomLimit = a.randomLimit
      /\ a.mode \in {"seeded", "fresh"} /\ b.mode \in {"seeded", "fresh"}
  BY <1>1 DEF Placed
<1>9. PolicyIsValid(b) <=> PolicyIsValid(a)
  <2> HIDE DEF a, b
  <2>1. b.regions = a.regions
    BY <1>7 DEF a, b
  <2>2. Randomized(a.mode) /\ Randomized(b.mode)
    BY <1>8 DEF Randomized
  <2>3. Total(b) = Total(a) /\ (Separated(b) <=> Separated(a)) /\ \A k : SizeIn(b, k) = SizeIn(a, k)
    BY <1>8, <2>1 DEF Total, SizeBefore, SizeIn, Separated
  <2>4. \A x : InRandomRange(b, x) <=> InRandomRange(a, x)
    BY <1>8 DEF InRandomRange
  <2> QED
    BY <1>8, <2>1, <2>2, <2>3, <2>4 DEF PolicyIsValid
<1>10. Placement(r) = Placement(q)
  BY <1>1, <1>2, <1>4, <1>9 DEF Placement
<1> QED
  BY <1>7, <1>10

LEMMA SameSeedSamePlace ==
  ASSUME NEW p \in Policy, NEW d \in Metadata, NEW seed \in Word,
         RandomizedOutcome(p, d, "fresh", seed).verdict.status = "ok"
  PROVE  LET again == RandomizedOutcome(p, d, "seeded", seed) IN
         /\ again.verdict.status = "ok"
         /\ again.policy.regions = RandomizedOutcome(p, d, "fresh", seed).policy.regions
<1> DEFINE q == Seeded(p, d, "fresh", seed)
           r == Seeded(p, d, "seeded", seed)
<1>1. /\ Automatic(SizingBase(p), d).status = "ok" /\ Placement(q).status = "ok"
      /\ RandomizedOutcome(p, d, "fresh", seed).policy = Placed(q)
  BY DEF RandomizedOutcome
<1>2. /\ q.mode = "fresh" /\ r.mode = "seeded"
      /\ DOMAIN q = DOMAIN p /\ DOMAIN r = DOMAIN p
  BY <1>1, SeededShape
<1>3. \A f \in DOMAIN q \ {"mode"} : r[f] = q[f]
  BY <1>2 DEF Seeded
<1>4. {"regions", "gap", "alignment", "seed", "randomMin", "randomLimit", "mode", "totalLimit"}
        \subseteq DOMAIN q
  BY <1>2 DEF Policy
<1> HIDE DEF q, r
<1>5. Placed(r).regions = Placed(q).regions /\ Placement(r) = Placement(q)
  BY <1>2, <1>3, <1>4, AlikePlacedAlike
<1> QED
  BY <1>1, <1>5 DEF RandomizedOutcome, q, r

-----------------------------------------------------------------------------
(* Multiples of the alignment. *)

LEMMA MultiplesHaveFactors ==
  ASSUME NEW a \in Nat \ {0}, NEW n \in Int, n % a = 0
  PROVE  \E m \in Int : n = a * m
<1>1. n \div a \in Int /\ n = a * (n \div a) + (n % a)
  BY DivModBasics
<1> QED
  BY <1>1

LEMMA ProductsAreMultiples ==
  ASSUME NEW a \in Nat \ {0}, NEW m \in Int
  PROVE  a * m \in Int /\ (a * m) % a = 0
<1>1. a * m \in Int
  OBVIOUS
<1> DEFINE n == a * m
<1>2. n \in Int /\ n = a * m + 0 /\ 0 \in 0 .. a - 1
  BY <1>1
<1> HIDE DEF n
<1>3. n % a = 0
  BY <1>2, DivModUnique
<1> QED
  BY <1>1, <1>3 DEF n

LEMMA SumsOfMultiples ==
  ASSUME NEW a \in Nat \ {0}, NEW x \in Int, NEW y \in Int, x % a = 0, y % a = 0
  PROVE  (x + y) % a = 0
<1>1. PICK i \in Int : x = a * i
  BY MultiplesHaveFactors
<1>2. PICK j \in Int : y = a * j
  BY MultiplesHaveFactors
<1>3. x + y = a * (i + j)
  BY <1>1, <1>2, Z3
<1> QED
  BY <1>3, ProductsAreMultiples

\* Rounding up gives a multiple, and leaves a multiple as it is.
LEMMA AlignUpAligns ==
  ASSUME NEW n \in Nat, NEW a \in Nat \ {0}
  PROVE  AlignUp(n, a) % a = 0 /\ (n % a = 0 => AlignUp(n, a) = n)
<1> DEFINE q == n \div a
           r == n % a
<1>1. q \in Int /\ r \in 0 .. a - 1 /\ n = a * q + r
  BY DivModBasics
<1>2. AlignUp(n, a) = n + ((a - r) % a)
  BY DEF AlignUp
<1> HIDE DEF q, r
<1>3. CASE r = 0
  <2>1. a % a = 0
    <3>1. a = a * 1 + 0 /\ 0 \in 0 .. a - 1
      OBVIOUS
    <3> QED
      BY <3>1, DivModUnique
  <2>2. AlignUp(n, a) = n
    BY <1>1, <1>2, <1>3, <2>1
  <2>3. n % a = 0
    BY <1>3 DEF r
  <2> QED
    BY <2>2, <2>3
<1>4. CASE r # 0
  <2>1. a - r \in 0 .. a - 1 /\ a - r \in Int /\ a - r = a * 0 + (a - r)
    BY <1>1, <1>4
  <2>2. (a - r) % a = a - r
    BY <2>1, DivModUnique
  <2>3. AlignUp(n, a) = a * q + a
    BY <1>1, <1>2, <2>2
  <2>4. AlignUp(n, a) = a * (q + 1)
    BY <1>1, <2>3, Z3
  <2>5. AlignUp(n, a) % a = 0
    BY <1>1, <2>4, ProductsAreMultiples
  <2> QED
    BY <1>4, <2>5 DEF r
<1> QED
  BY <1>3, <1>4

LEMMA AlignDownAligns ==
  ASSUME NEW n \in Nat, NEW a \in Nat \ {0}
  PROVE  AlignDown(n, a) \in 0 .. n /\ AlignDown(n, a) % a = 0
<1> DEFINE q == n \div a
           r == n % a
<1>1. q \in Int /\ r \in 0 .. a - 1 /\ n = a * q + r
  BY DivModBasics
<1>2. AlignDown(n, a) = n - r
  BY DEF AlignDown
<1> HIDE DEF q, r
<1>3. a * q \in Int
  BY <1>1
<1>4. AlignDown(n, a) = a * q
  BY <1>1, <1>2, <1>3
<1>5. AlignDown(n, a) % a = 0
  BY <1>1, <1>4, ProductsAreMultiples
<1>6. q >= 0
  BY <1>1, Z3
<1>7. a * q >= 0
  BY <1>6, <1>1, Z3
<1> QED
  BY <1>1, <1>2, <1>3, <1>4, <1>5, <1>7

-----------------------------------------------------------------------------
(* What the checks of the automatic builder leave to the last one: nothing. *)

Sizes(p, d) == [k \in Kinds |-> AlignedSize(p, d, k)]

\* The sizes of regions 1 to k, taken together.
LEMMA SizesAdded ==
  ASSUME NEW p \in Policy, NEW d \in Metadata, p.alignment # 0
  PROVE  LET z == Sizes(p, d) IN
         /\ \A k \in Kinds : z[k] \in Nat /\ AlignedSize(p, d, k) = z[k]
         /\ SizesUpTo(p, d, 1) = z[1] /\ SizesUpTo(p, d, 2) = z[1] + z[2]
         /\ SizesUpTo(p, d, 3) = z[1] + z[2] + z[3]
         /\ SizesUpTo(p, d, 4) = z[1] + z[2] + z[3] + z[4]
         /\ SizesUpTo(p, d, 5) = z[1] + z[2] + z[3] + z[4] + z[5]
         /\ Total(Sized(p, d)) = SizesUpTo(p, d, 5)
<1> DEFINE z == Sizes(p, d)
           q == Sized(p, d)
<1>1. \A k \in Kinds : z[k] \in Nat /\ AlignedSize(p, d, k) = z[k]
  BY AlignedSizeIsEnough DEF Sizes
<1>2. \A k \in Kinds : SizeIn(q, k) = z[k]
  BY <1>1, SizedShape
<1> HIDE DEF z, q
<1>3. /\ z[1] \in Nat /\ z[2] \in Nat /\ z[3] \in Nat /\ z[4] \in Nat /\ z[5] \in Nat
      /\ SizeIn(q, 1) = z[1] /\ SizeIn(q, 2) = z[2] /\ SizeIn(q, 3) = z[3]
      /\ SizeIn(q, 4) = z[4] /\ SizeIn(q, 5) = z[5]
  BY <1>1, <1>2 DEF Kinds
<1>4. /\ SizeBefore(q, 2) = z[1] /\ SizeBefore(q, 3) = z[1] + z[2]
      /\ SizeBefore(q, 4) = z[1] + z[2] + z[3]
      /\ SizeBefore(q, 5) = z[1] + z[2] + z[3] + z[4]
      /\ SizeBefore(q, 6) = z[1] + z[2] + z[3] + z[4] + z[5]
  BY <1>3 DEF SizeBefore
<1> QED
  BY <1>1, <1>4 DEF SizesUpTo, Total, z, q

\* A size is a multiple of the alignment and at least the least size; a multiple that is not
\* below it is kept.
LEMMA SizesAreAligned ==
  ASSUME NEW p \in Policy, NEW d \in Metadata, NEW k \in Kinds, p.alignment # 0
  PROVE  /\ AlignedSize(p, d, k) \in Nat /\ AlignedSize(p, d, k) % p.alignment = 0
         /\ AlignedSize(p, d, k) >= p.regions[k].min /\ p.regions[k].min \in Nat \ {0}
         /\ (RawSize(p, d, k) % p.alignment = 0 /\ RawSize(p, d, k) >= p.regions[k].min)
              => AlignedSize(p, d, k) = RawSize(p, d, k)
<1>1. RawSize(p, d, k) \in Nat
  BY RawSizesAreNumbers
<1>2. p.regions[k].min \in Nat \ {0} /\ p.alignment \in Nat \ {0}
  BY WordsAreNumbers DEF Policy, RegionPolicy
<1> DEFINE n == AtLeast(RawSize(p, d, k), p.regions[k].min)
<1>3. /\ n \in Nat /\ n >= p.regions[k].min
      /\ RawSize(p, d, k) >= p.regions[k].min => n = RawSize(p, d, k)
  BY <1>1, <1>2 DEF AtLeast
<1>4. AlignedSize(p, d, k) = AlignUp(n, p.alignment)
  BY DEF AlignedSize
<1> HIDE DEF n
<1>5. /\ AlignUp(n, p.alignment) \in Nat /\ AlignUp(n, p.alignment) >= n
      /\ AlignUp(n, p.alignment) % p.alignment = 0
      /\ n % p.alignment = 0 => AlignUp(n, p.alignment) = n
  BY <1>2, <1>3, AlignUpIsEnough, AlignUpAligns
<1> QED
  BY <1>1, <1>2, <1>3, <1>4, <1>5

\* The bounds sizing keeps.
LEMMA SizedKeepsBounds ==
  ASSUME NEW p \in Policy, NEW d \in Metadata, NEW k \in Kinds
  PROVE  /\ Sized(p, d).regions[k].min = p.regions[k].min
         /\ Sized(p, d).regions[k].max = p.regions[k].max
         /\ p.regions[k].max \in Word
<1>1. p.regions[k] \in RegionPolicy
  BY DEF Policy
<1>2. Sized(p, d).regions[k] = SizedTo(p, k, AlignedSize(p, d, k))
  BY DEF Sized, Policy
<1>3. \A n : /\ SizedTo(p, k, n).min = p.regions[k].min
             /\ SizedTo(p, k, n).max = p.regions[k].max
  BY <1>1 DEF SizedTo, RegionPolicy
<1> QED
  BY <1>1, <1>2, <1>3 DEF RegionPolicy

\* The sizes fit, taken alone and together.
SizesFit(p, d) ==
  /\ p.alignment # 0 /\ RegionFaults(p, d) = {}
  /\ SizesUpTo(p, d, StackRegion) <= p.totalLimit

NoCollision(p, d) == \A k \in 1 .. 4 : ~Collides(Sized(p, d), k)

LEMMA ValidAfterChecks ==
  ASSUME NEW p \in Policy, NEW d \in Metadata, SizesFit(p, d), NoCollision(p, d)
  PROVE  PolicyIsValid(Sized(p, d))
<1> DEFINE q == Sized(p, d)
<1>1. p.alignment # 0
  BY DEF SizesFit
<1>2. /\ DOMAIN q = DOMAIN p /\ q.mode = "automatic"
      /\ \A f \in DOMAIN p \ {"mode", "heapRequest", "stackRequest", "regions"} : q[f] = p[f]
      /\ \A k \in Kinds : /\ q.regions[k].base \in Int /\ q.regions[k].limit \in Int
                          /\ SizeIn(q, k) = AlignedSize(p, d, k)
  BY <1>1, SizedShape
<1>3. q.alignment = p.alignment /\ q.totalLimit = p.totalLimit /\ q.gap = p.gap
  BY <1>2 DEF Policy
<1>4. p.alignment \in Nat /\ p.gap \in Nat
  BY WordsAreNumbers DEF Policy
<1>5. \A k \in Kinds : AlignedSize(p, d, k) <= p.regions[k].max
  <2>1. \A k \in Kinds : ~RegionTooLarge(p, d, k)
    BY DEF SizesFit, RegionFaults
  <2>2. \A k \in Kinds : p.regions[k].max \in Nat
    BY SizedKeepsBounds, WordsAreNumbers
  <2>3. \A k \in Kinds : AlignedSize(p, d, k) \in Nat
    BY <1>1, SizesAreAligned
  <2> QED
    BY <2>1, <2>2, <2>3 DEF RegionTooLarge
<1>6. ASSUME NEW k \in Kinds
      PROVE  /\ q.regions[k].base < q.regions[k].limit
             /\ SizeIn(q, k) \in q.regions[k].min .. q.regions[k].max
  <2>1. /\ AlignedSize(p, d, k) \in Nat /\ p.regions[k].min \in Nat \ {0}
        /\ AlignedSize(p, d, k) >= p.regions[k].min
    BY <1>1, SizesAreAligned
  <2>2. q.regions[k].min = p.regions[k].min /\ q.regions[k].max = p.regions[k].max
        /\ p.regions[k].max \in Nat
    BY SizedKeepsBounds, WordsAreNumbers
  <2>3. SizeIn(q, k) = AlignedSize(p, d, k) /\ AlignedSize(p, d, k) <= p.regions[k].max
    BY <1>2, <1>5
  <2>4. q.regions[k].base \in Int /\ q.regions[k].limit \in Int
    BY <1>2
  <2>5. q.regions[k].limit - q.regions[k].base >= 1
    BY <2>1, <2>3 DEF SizeIn
  <2> HIDE DEF q
  <2>6. q.regions[k].base < q.regions[k].limit
    BY <2>4, <2>5
  <2> QED
    BY <2>1, <2>2, <2>3, <2>6
<1>7. Separated(q)
  <2>1. \A k \in 1 .. 4 : ~(q.regions[k].limit + q.gap > q.regions[k + 1].base)
    BY DEF NoCollision, Collides
  <2>2. \A k \in 1 .. 4 : /\ q.regions[k].limit \in Int /\ q.regions[k + 1].base \in Int
    BY <1>2 DEF Kinds
  <2>3. q.gap \in Int
    BY <1>3, <1>4
  <2> HIDE DEF q
  <2>4. \A k \in 1 .. 4 : q.regions[k].limit + q.gap <= q.regions[k + 1].base
    BY <2>1, <2>2, <2>3
  <2> QED
    BY <2>4 DEF Separated
<1>8. Total(q) <= q.totalLimit
  BY <1>1, <1>3, SizesAdded DEF SizesFit, StackRegion
<1>9. q.alignment > 0 /\ ~Randomized(q.mode)
  BY <1>1, <1>2, <1>3, <1>4 DEF Randomized
<1> HIDE DEF q
<1> QED
  BY <1>6, <1>7, <1>8, <1>9 DEF PolicyIsValid, q

\* What each verdict of the automatic builder says.
LEMMA Verdicts ==
  ASSUME NEW p \in Policy, NEW d \in Metadata, p.alignment # 0, ~Randomized(p.mode)
  PROVE  LET v == Automatic(p, d)
             q == Sized(p, d)
             f == Least(RegionFaults(p, d))
             collisions == {k \in 1 .. 4 : Collides(q, k)}
         IN  \/ /\ v = Verdict("integer-overflow", About(Data, UMax, p.regions[Data].max))
                /\ RawSize(p, d, Data) > UMax
             \/ v = Verdict("integer-overflow", NoRegion)
             \/ /\ ~(RawSize(p, d, Data) > UMax) /\ RegionFaults(p, d) # {}
                /\ v = RegionFault(p, d, f)
             \/ v = Verdict("resource-limit-exceeded", NoRegion)
             \/ /\ ~(RawSize(p, d, Data) > UMax) /\ SizesFit(p, d) /\ collisions # {}
                /\ \A k \in Kinds : ~(AlignedSize(p, d, k) > UMax)
                /\ v = Verdict("resource-limit-exceeded", Collision(q, Least(collisions)))
             \/ v = Verdict("ok", NoRegion)
<1> DEFINE v == Automatic(p, d)
           q == Sized(p, d)
           f == Least(RegionFaults(p, d))
           collisions == {k \in 1 .. 4 : Collides(q, k)}
<1>1. CASE RawSize(p, d, Data) > UMax \/ \E k \in Kinds : AlignedSize(p, d, k) > UMax
  BY <1>1 DEF Automatic
<1>2. CASE /\ ~(RawSize(p, d, Data) > UMax) /\ ~\E k \in Kinds : AlignedSize(p, d, k) > UMax
           /\ RegionFaults(p, d) # {}
  BY <1>2 DEF Automatic
<1>3. CASE /\ ~(RawSize(p, d, Data) > UMax) /\ ~\E k \in Kinds : AlignedSize(p, d, k) > UMax
           /\ RegionFaults(p, d) = {}
  <2>1. SizesUpTo(p, d, StackRegion) \in Nat
    BY SizesAdded DEF StackRegion, Kinds
  <2>2. p.totalLimit \in Nat
    BY WordsAreNumbers DEF Policy
  <2>3. CASE SizesUpTo(p, d, StackRegion) > p.totalLimit
    BY <1>3, <2>3 DEF Automatic
  <2>4. CASE ~(SizesUpTo(p, d, StackRegion) > p.totalLimit)
    <3>1. SizesFit(p, d)
      BY <1>3, <2>1, <2>2, <2>4 DEF SizesFit
    <3>2. CASE collisions # {}
      BY <1>3, <2>4, <3>1, <3>2 DEF Automatic
    <3>3. CASE collisions = {}
      <4>1. NoCollision(p, d)
        BY <3>3 DEF NoCollision
      <4>2. PolicyIsValid(q)
        BY <3>1, <4>1, ValidAfterChecks
      <4> QED
        BY <1>3, <2>4, <3>3, <4>2 DEF Automatic
    <3> QED
      BY <3>2, <3>3
  <2> QED
    BY <2>3, <2>4
<1> QED
  BY <1>1, <1>2, <1>3

\* The last check never refuses what the automatic builder sized.
LEMMA SizingRefusesForReason ==
  ASSUME NEW p \in Policy, NEW d \in Metadata, Automatic(p, d).status = "invalid-argument"
  PROVE  p.alignment = 0 \/ Randomized(p.mode)
<1> SUFFICES ASSUME p.alignment # 0, ~Randomized(p.mode) PROVE FALSE
  OBVIOUS
<1>1. \A s, g : Verdict(s, g).status = s
  BY DEF Verdict
<1>2. \A k : RegionFault(p, d, k).status # "invalid-argument"
  BY <1>1 DEF RegionFault
<1> DEFINE v == Automatic(p, d)
           f == Least(RegionFaults(p, d))
<1>3. \/ v = RegionFault(p, d, f)
      \/ \E s, g : s # "invalid-argument" /\ v = Verdict(s, g)
  BY Verdicts
<1> HIDE DEF v, f
<1> QED
  BY <1>1, <1>2, <1>3 DEF v

-----------------------------------------------------------------------------
(* What the checks of the randomized builder leave to the last one: the alignment of the gap. *)

\* The first region starts at a multiple of the alignment, and the last ends in range.
LEMMA FirstBaseFits ==
  ASSUME NEW q, HasBounds(q), q.gap \in Nat, q.alignment \in Nat \ {0}, q.seed \in Word,
         q.randomMin \in Nat, q.randomLimit \in Nat,
         Start(q) < q.randomLimit, Span(q) <= q.randomLimit - Start(q)
  PROVE  /\ FirstBase(q) \in Int /\ FirstBase(q) % q.alignment = 0
         /\ q.randomMin <= FirstBase(q) /\ FirstBase(q) + Span(q) <= q.randomLimit
<1>1. Span(q) \in Int
  BY DEF HasBounds, Total, SizeBefore, SizeIn, Span, Kinds
<1>2. Start(q) \in Nat /\ Start(q) >= q.randomMin /\ Start(q) % q.alignment = 0
  BY AlignUpIsEnough, AlignUpAligns DEF Start
<1> DEFINE a == q.alignment
           room == q.randomLimit - Start(q) - Span(q)
           last == room \div a
           slot == Mix[q.seed] % (last + 1)
<1>3. room \in Nat /\ a \in Nat \ {0}
  BY <1>1, <1>2
<1>4. FirstBase(q) = Start(q) + slot * a
  BY DEF FirstBase
<1> HIDE DEF room, a
<1>5. last \in Int /\ room % a \in 0 .. a - 1 /\ room = a * last + (room % a)
  BY <1>3, DivModBasics
<1> DEFINE rest == room % a
<1> HIDE DEF last, rest
<1>6. last \in Nat /\ a * last <= room
  <2>1. rest \in 0 .. a - 1 /\ room = a * last + rest /\ last \in Int
    BY <1>5 DEF last, rest
  <2>2. last >= 0
    BY <1>3, <2>1, Z3
  <2>3. a * last \in Int
    BY <1>3, <2>1
  <2> QED
    BY <1>3, <2>1, <2>2, <2>3
<1>7. Mix[q.seed] \in Int
  BY WordsAreNumbers, LayoutAssumption
<1>8. slot \in 0 .. last
  <2>1. last + 1 \in Int /\ last + 1 > 0
    BY <1>6
  <2>2. Mix[q.seed] % (last + 1) \in 0 .. (last + 1) - 1
    BY <1>7, <2>1, DivModBasics
  <2> QED
    BY <1>6, <2>2
<1> HIDE DEF slot
<1>9. /\ slot * a \in Nat /\ slot * a = a * slot
  BY <1>3, <1>6, <1>8, Z3
<1>10. slot * a <= room
  <2>1. a * slot <= a * last
    BY <1>3, <1>6, <1>8, Z3
  <2>2. a * last \in Int
    BY <1>3, <1>6
  <2> QED
    BY <1>3, <1>6, <1>9, <2>1, <2>2
<1>11. (a * slot) % a = 0
  BY <1>3, <1>6, <1>8, ProductsAreMultiples
<1>12. (Start(q) + slot * a) % a = 0
  <2> DEFINE x == Start(q)
             y == slot * a
  <2>1. x \in Int /\ y \in Int /\ x % a = 0 /\ y % a = 0
    BY <1>2, <1>9, <1>11 DEF a
  <2> HIDE DEF x, y
  <2>2. (x + y) % a = 0
    BY <1>3, <2>1, SumsOfMultiples
  <2> QED
    BY <2>2 DEF x, y
<1> DEFINE move == slot * a
<1>13. move \in Nat /\ move <= room /\ FirstBase(q) = Start(q) + move
  BY <1>4, <1>9, <1>10
<1> HIDE DEF move
<1>14. FirstBase(q) \in Int /\ q.randomMin <= FirstBase(q)
  BY <1>2, <1>13
<1>15. FirstBase(q) + Span(q) <= q.randomLimit
  BY <1>1, <1>2, <1>13 DEF room
<1>16. FirstBase(q) % q.alignment = 0
  BY <1>4, <1>12 DEF a
<1> QED
  BY <1>14, <1>15, <1>16

\* Where the regions are placed, one after the other.
LEMMA PlacedRegions ==
  ASSUME NEW q, NEW k \in Kinds, DOMAIN q.regions = Kinds, "regions" \in DOMAIN q,
         {"base", "limit", "min", "max"} \subseteq DOMAIN q.regions[k]
  PROVE  /\ Placed(q).regions[k].base = PlacedBase(q, k)
         /\ Placed(q).regions[k].limit = PlacedBase(q, k) + SizeIn(q, k)
         /\ Placed(q).regions[k].min = q.regions[k].min
         /\ Placed(q).regions[k].max = q.regions[k].max
<1>1. Placed(q).regions[k] = [q.regions[k] EXCEPT !.base = PlacedBase(q, k),
                                !.limit = PlacedBase(q, k) + SizeIn(q, k)]
  BY DEF Placed
<1> QED
  BY <1>1

\* Sizes and gaps in order, from the start of the range.
LEMMA PlacedBases ==
  ASSUME NEW q, NEW z \in [Kinds -> Nat], NEW g \in Nat, NEW b \in Int,
         q.gap = g, FirstBase(q) = b, \A k \in Kinds : SizeIn(q, k) = z[k]
  PROVE  /\ PlacedBase(q, 1) = b
         /\ PlacedBase(q, 2) = PlacedBase(q, 1) + z[1] + g
         /\ PlacedBase(q, 3) = PlacedBase(q, 2) + z[2] + g
         /\ PlacedBase(q, 4) = PlacedBase(q, 3) + z[3] + g
         /\ PlacedBase(q, 5) = PlacedBase(q, 4) + z[4] + g
         /\ PlacedBase(q, 5) + z[5] = b + Span(q)
<1>1. /\ z[1] \in Nat /\ z[2] \in Nat /\ z[3] \in Nat /\ z[4] \in Nat /\ z[5] \in Nat
      /\ SizeIn(q, 1) = z[1] /\ SizeIn(q, 2) = z[2] /\ SizeIn(q, 3) = z[3]
      /\ SizeIn(q, 4) = z[4] /\ SizeIn(q, 5) = z[5]
  BY DEF Kinds
<1>2. /\ SizeBefore(q, 1) = 0 /\ SizeBefore(q, 2) = z[1] /\ SizeBefore(q, 3) = z[1] + z[2]
      /\ SizeBefore(q, 4) = z[1] + z[2] + z[3]
      /\ SizeBefore(q, 5) = z[1] + z[2] + z[3] + z[4]
      /\ SizeBefore(q, 6) = z[1] + z[2] + z[3] + z[4] + z[5]
  BY <1>1 DEF SizeBefore
<1>3. Span(q) = z[1] + z[2] + z[3] + z[4] + z[5] + 4 * g
  BY <1>1, <1>2 DEF Span, Total
<1>4. /\ PlacedBase(q, 1) = b + (1 - 1) * g + 0
      /\ PlacedBase(q, 2) = b + (2 - 1) * g + z[1]
      /\ PlacedBase(q, 3) = b + (3 - 1) * g + (z[1] + z[2])
      /\ PlacedBase(q, 4) = b + (4 - 1) * g + (z[1] + z[2] + z[3])
      /\ PlacedBase(q, 5) = b + (5 - 1) * g + (z[1] + z[2] + z[3] + z[4])
  BY <1>2 DEF PlacedBase
<1> QED
  BY <1>1, <1>3, <1>4

\* They lie in range, each a gap behind the one before, and start at multiples of the alignment.
LEMMA PlacedInOrder ==
  ASSUME NEW at \in [Kinds -> Int], NEW z \in [Kinds -> Nat], NEW g \in Nat, NEW e \in Int,
         at[2] = at[1] + z[1] + g, at[3] = at[2] + z[2] + g, at[4] = at[3] + z[3] + g,
         at[5] = at[4] + z[4] + g, at[5] + z[5] = e
  PROVE  /\ \A k \in 1 .. 4 : at[k + 1] = at[k] + z[k] + g
         /\ \A k \in Kinds : at[1] <= at[k] /\ at[k] + z[k] <= e
<1>1. /\ z[1] \in Nat /\ z[2] \in Nat /\ z[3] \in Nat /\ z[4] \in Nat /\ z[5] \in Nat
      /\ at[1] \in Int /\ at[2] \in Int /\ at[3] \in Int /\ at[4] \in Int /\ at[5] \in Int
  BY DEF Kinds
<1>2. \A k \in 1 .. 4 : at[k + 1] = at[k] + z[k] + g
  <2> SUFFICES ASSUME NEW k \in 1 .. 4 PROVE at[k + 1] = at[k] + z[k] + g
    OBVIOUS
  <2>1. k = 1 \/ k = 2 \/ k = 3 \/ k = 4
    OBVIOUS
  <2> QED
    BY <2>1
<1>3. /\ at[1] <= at[2] /\ at[2] <= at[3] /\ at[3] <= at[4] /\ at[4] <= at[5]
      /\ at[1] + z[1] <= at[2] /\ at[2] + z[2] <= at[3] /\ at[3] + z[3] <= at[4]
      /\ at[4] + z[4] <= at[5] /\ at[5] <= e
  BY <1>1
<1>4. /\ at[1] <= at[1] /\ at[1] <= at[2] /\ at[1] <= at[3] /\ at[1] <= at[4] /\ at[1] <= at[5]
      /\ at[1] + z[1] <= e /\ at[2] + z[2] <= e /\ at[3] + z[3] <= e /\ at[4] + z[4] <= e
      /\ at[5] + z[5] <= e
  BY <1>1, <1>3
<1>5. \A k \in Kinds : at[1] <= at[k] /\ at[k] + z[k] <= e
  BY <1>4 DEF Kinds
<1> QED
  BY <1>2, <1>5

LEMMA PlacedAligned ==
  ASSUME NEW at \in [Kinds -> Int], NEW z \in [Kinds -> Nat], NEW g \in Nat, NEW a \in Nat \ {0},
         \A k \in 1 .. 4 : at[k + 1] = at[k] + z[k] + g,
         at[1] % a = 0, g % a = 0, \A k \in Kinds : z[k] % a = 0
  PROVE  \A k \in Kinds : at[k] % a = 0
<1>1. ASSUME NEW k \in 1 .. 4, at[k] % a = 0
      PROVE  at[k + 1] % a = 0
  <2> DEFINE x == at[k]
             y == z[k]
             s == x + y
  <2>1. x \in Int /\ y \in Int /\ g \in Int /\ x % a = 0 /\ y % a = 0
    BY <1>1 DEF Kinds
  <2>2. at[k + 1] = s + g
    OBVIOUS
  <2> HIDE DEF x, y
  <2>3. s \in Int
    BY <2>1
  <2>5. s % a = 0
    BY <2>1, SumsOfMultiples
  <2> HIDE DEF s
  <2>4. (s + g) % a = 0
    BY <2>1, <2>3, <2>5, SumsOfMultiples
  <2> QED
    BY <2>2, <2>4
<1>2. at[2] % a = 0
  BY <1>1
<1>3. at[3] % a = 0
  BY <1>1, <1>2
<1>4. at[4] % a = 0
  BY <1>1, <1>3
<1>5. at[5] % a = 0
  BY <1>1, <1>4
<1> QED
  BY <1>2, <1>3, <1>4, <1>5 DEF Kinds

LEMMA PlacementRefusesForReason ==
  ASSUME NEW p \in Policy, NEW d \in Metadata, NEW mode \in {"seeded", "fresh"}, NEW seed \in Word,
         Automatic(SizingBase(p), d).status = "ok",
         Placement(Seeded(p, d, mode, seed)).status = "invalid-argument"
  PROVE  p.randomMin >= p.randomLimit \/ p.gap % p.alignment # 0
<1> SUFFICES ASSUME ~(p.randomMin >= p.randomLimit), p.gap % p.alignment = 0
             PROVE  FALSE
  OBVIOUS
<1> DEFINE b == SizingBase(p)
           s == Sized(b, d)
           q == Seeded(p, d, mode, seed)
           r == Placed(q)
           z == [k \in Kinds |-> SizeIn(q, k)]
           at == [k \in Kinds |-> PlacedBase(q, k)]
<1>1. /\ b \in Policy /\ DOMAIN b = DOMAIN p /\ b.regions = p.regions
      /\ b.alignment = p.alignment /\ b.gap = p.gap /\ b.totalLimit = p.totalLimit
      /\ b.randomMin = p.randomMin /\ b.randomLimit = p.randomLimit
  BY SizingBaseIsPolicy DEF SizingBase, Policy
<1>2. b.alignment # 0 /\ PolicyIsValid(s)
  BY <1>1, AutomaticSucceeds
<1>3. /\ q.mode = mode /\ q.seed = seed
      /\ q.regions = s.regions /\ DOMAIN q.regions = Kinds
      /\ HasBounds(q) /\ DOMAIN q = DOMAIN p
      /\ q.gap \in Nat /\ q.alignment \in Nat \ {0}
      /\ q.randomMin \in Nat /\ q.randomLimit \in Nat
  BY SeededShape
<1>4. /\ q.alignment = p.alignment /\ q.gap = p.gap /\ q.totalLimit = p.totalLimit
      /\ q.randomMin = p.randomMin /\ q.randomLimit = p.randomLimit
      /\ s.totalLimit = p.totalLimit
  <2>1. \A f \in {"alignment", "gap", "totalLimit", "randomMin", "randomLimit"} :
          /\ f \in DOMAIN b \ {"mode", "heapRequest", "stackRequest", "regions"}
    BY <1>1 DEF Policy
  <2>2. /\ s.alignment = b.alignment /\ s.gap = b.gap /\ s.totalLimit = b.totalLimit
        /\ s.randomMin = b.randomMin /\ s.randomLimit = b.randomLimit /\ DOMAIN s = DOMAIN b
    BY <1>1, <1>2, <2>1, SizedShape
  <2>3. q = [s EXCEPT !.mode = mode, !.hasSeed = TRUE, !.seed = seed]
    BY DEF Seeded
  <2>4. \A f \in {"alignment", "gap", "totalLimit", "randomMin", "randomLimit"} : f \in DOMAIN s
    BY <2>1, <2>2
  <2> HIDE DEF s, q
  <2>5. /\ q.alignment = s.alignment /\ q.gap = s.gap /\ q.totalLimit = s.totalLimit
        /\ q.randomMin = s.randomMin /\ q.randomLimit = s.randomLimit
    BY <2>3, <2>4
  <2> QED
    BY <1>1, <2>2, <2>5
<1>5. ASSUME NEW k \in Kinds
      PROVE  /\ z[k] \in Nat /\ z[k] % q.alignment = 0
             /\ z[k] \in q.regions[k].min .. q.regions[k].max /\ q.regions[k].min \in Nat \ {0}
             /\ {"base", "limit", "min", "max"} \subseteq DOMAIN q.regions[k]
  <2>1. /\ SizeIn(q, k) = SizeIn(s, k) /\ q.regions[k] = s.regions[k]
    BY <1>3 DEF SizeIn
  <2>2. SizeIn(s, k) = AlignedSize(b, d, k)
    BY <1>1, <1>2, SizedShape
  <2>3. /\ AlignedSize(b, d, k) \in Nat /\ AlignedSize(b, d, k) % b.alignment = 0
        /\ b.regions[k].min \in Nat \ {0}
    BY <1>1, <1>2, SizesAreAligned
  <2>4. s.regions[k].min = b.regions[k].min
    BY <1>1, SizedKeepsBounds
  <2>5. SizeIn(s, k) \in s.regions[k].min .. s.regions[k].max
    BY <1>2 DEF PolicyIsValid
  <2>6. DOMAIN s.regions[k] = DOMAIN b.regions[k]
    BY <1>1, SizedToShape DEF Sized, Policy
  <2>7. {"base", "limit", "min", "max"} \subseteq DOMAIN b.regions[k]
    <3>1. b.regions[k] \in RegionPolicy
      BY <1>1 DEF Policy
    <3> QED
      BY <3>1 DEF RegionPolicy
  <2>8. z[k] = SizeIn(q, k) /\ q.alignment = b.alignment
    BY <1>1, <1>4
  <2> HIDE DEF s, q, z, b
  <2> QED
    BY <2>1, <2>2, <2>3, <2>4, <2>5, <2>6, <2>7, <2>8
<1>6. "regions" \in DOMAIN q /\ {"mode", "gap", "alignment", "totalLimit", "randomMin", "randomLimit"} \subseteq DOMAIN q
  BY <1>3 DEF Policy
<1>7. /\ r.mode = mode /\ r.gap = q.gap /\ r.alignment = q.alignment /\ r.totalLimit = q.totalLimit
      /\ r.randomMin = q.randomMin /\ r.randomLimit = q.randomLimit
  BY <1>3, <1>6 DEF Placed
<1>8. Total(s) = Total(q) /\ Total(q) <= q.totalLimit
  <2>1. Total(s) = Total(q)
    BY <1>3 DEF Total, SizeBefore, SizeIn
  <2> QED
    BY <1>2, <1>4, <2>1 DEF PolicyIsValid
<1>9. ~PolicyIsValid(r) /\ Start(q) < q.randomLimit /\ Span(q) <= q.randomLimit - Start(q)
      /\ q.randomMin < q.randomLimit
  <2>1. Start(q) \in Nat
    BY <1>3, AlignUpIsEnough DEF Start
  <2>2. Span(q) \in Int
    BY <1>3 DEF HasBounds, Total, SizeBefore, SizeIn, Span, Kinds
  <2>3. q.randomMin < q.randomLimit
    BY <1>3, <1>4
  <2>4. Placement(q).status = "invalid-argument"
    OBVIOUS
  <2> HIDE DEF q
  <2>5. /\ ~(q.randomMin >= q.randomLimit)
    BY <1>3, <2>3
  <2>6. ~PolicyIsValid(r) /\ ~(Start(q) >= q.randomLimit) /\ ~(Span(q) > q.randomLimit - Start(q))
    BY <2>4, <2>5 DEF Placement, Verdict
  <2> QED
    BY <1>3, <2>1, <2>2, <2>3, <2>6
<1> HIDE DEF s, q
<1>10. /\ FirstBase(q) \in Int /\ FirstBase(q) % q.alignment = 0
       /\ q.randomMin <= FirstBase(q) /\ FirstBase(q) + Span(q) <= q.randomLimit
  BY <1>3, <1>9, FirstBaseFits
<1>11. z \in [Kinds -> Nat] /\ \A k \in Kinds : SizeIn(q, k) = z[k]
  BY <1>5
<1> HIDE DEF z
<1>12. /\ PlacedBase(q, 1) = FirstBase(q)
       /\ PlacedBase(q, 2) = PlacedBase(q, 1) + z[1] + q.gap
       /\ PlacedBase(q, 3) = PlacedBase(q, 2) + z[2] + q.gap
       /\ PlacedBase(q, 4) = PlacedBase(q, 3) + z[3] + q.gap
       /\ PlacedBase(q, 5) = PlacedBase(q, 4) + z[4] + q.gap
       /\ PlacedBase(q, 5) + z[5] = FirstBase(q) + Span(q)
  BY <1>3, <1>10, <1>11, PlacedBases
<1>13. /\ at[1] = FirstBase(q) /\ at[2] = at[1] + z[1] + q.gap /\ at[3] = at[2] + z[2] + q.gap
       /\ at[4] = at[3] + z[3] + q.gap /\ at[5] = at[4] + z[4] + q.gap
       /\ at[5] + z[5] = FirstBase(q) + Span(q)
       /\ \A k \in Kinds : at[k] = PlacedBase(q, k)
  BY <1>12 DEF Kinds
<1>14. at \in [Kinds -> Int]
  <2>1. z[1] \in Nat /\ z[2] \in Nat /\ z[3] \in Nat /\ z[4] \in Nat /\ z[5] \in Nat
    BY <1>11 DEF Kinds
  <2>2. at[1] \in Int /\ at[2] \in Int /\ at[3] \in Int /\ at[4] \in Int /\ at[5] \in Int
    <3> HIDE DEF at
    <3> QED
      BY <1>3, <1>10, <1>13, <2>1
  <2>3. \A k \in Kinds : at[k] \in Int
    <3> HIDE DEF at
    <3> QED
      BY <2>2 DEF Kinds
  <2> QED
    BY <2>3
<1> HIDE DEF at
<1> DEFINE e == FirstBase(q) + Span(q)
<1>15. e \in Int /\ e <= q.randomLimit
  <2>1. Span(q) \in Int
    BY <1>3 DEF HasBounds, Total, SizeBefore, SizeIn, Span, Kinds
  <2> QED
    BY <1>10, <2>1
<1>16. at[5] + z[5] = e
  BY <1>13
<1> HIDE DEF e
<1>17. /\ \A k \in 1 .. 4 : at[k + 1] = at[k] + z[k] + q.gap
       /\ \A k \in Kinds : at[1] <= at[k] /\ at[k] + z[k] <= e
  BY <1>3, <1>11, <1>13, <1>14, <1>15, <1>16, PlacedInOrder
<1>18. \A k \in Kinds : at[k] % q.alignment = 0
  <2>1. at[1] % q.alignment = 0 /\ q.gap % q.alignment = 0
    BY <1>4, <1>10, <1>13
  <2>2. \A k \in Kinds : z[k] % q.alignment = 0
    BY <1>5
  <2> QED
    BY <1>3, <1>11, <1>14, <1>17, <2>1, <2>2, PlacedAligned
<1>19. ASSUME NEW k \in Kinds
       PROVE  /\ r.regions[k].base = at[k] /\ r.regions[k].limit = at[k] + z[k]
              /\ r.regions[k].min = q.regions[k].min /\ r.regions[k].max = q.regions[k].max
  BY <1>3, <1>5, <1>6, <1>11, <1>13, PlacedRegions
<1> HIDE DEF r
<1>20. ASSUME NEW k \in Kinds
       PROVE  /\ r.regions[k].base < r.regions[k].limit
              /\ InRandomRange(r, r.regions[k])
              /\ SizeIn(r, k) \in r.regions[k].min .. r.regions[k].max
              /\ SizeIn(r, k) = SizeIn(q, k)
  <2>1. /\ at[k] \in Int /\ z[k] \in Nat /\ SizeIn(q, k) = z[k]
        /\ at[1] \in Int
    BY <1>11, <1>14 DEF Kinds
  <2>2. /\ z[k] \in q.regions[k].min .. q.regions[k].max /\ q.regions[k].min \in Nat \ {0}
    BY <1>5
  <2>3. z[k] >= 1
    BY <2>1, <2>2
  <2>4. at[1] <= at[k] /\ at[k] + z[k] <= e /\ at[k] % q.alignment = 0
    BY <1>17, <1>18
  <2>5. SizeIn(r, k) = z[k]
    BY <1>19, <2>1 DEF SizeIn
  <2>6. r.regions[k].base < r.regions[k].limit
    BY <1>19, <2>1, <2>3
  <2>7. q.randomMin <= at[k]
    BY <1>3, <1>10, <1>13, <2>1, <2>4
  <2>8. at[k] + z[k] <= q.randomLimit
    BY <1>3, <1>15, <2>1, <2>4
  <2>9. InRandomRange(r, r.regions[k])
    BY <1>7, <1>19, <2>4, <2>7, <2>8 DEF InRandomRange
  <2> QED
    BY <1>19, <2>1, <2>2, <2>5, <2>6, <2>9
<1>21. Separated(r)
  <2> SUFFICES ASSUME NEW k \in 1 .. 4
               PROVE  r.regions[k].limit + r.gap <= r.regions[k + 1].base
    BY DEF Separated
  <2>1. k \in Kinds /\ k + 1 \in Kinds
    BY DEF Kinds
  <2>2. /\ r.regions[k].limit = at[k] + z[k] /\ r.regions[k + 1].base = at[k + 1]
        /\ at[k + 1] = at[k] + z[k] + q.gap /\ r.gap = q.gap
    BY <1>7, <1>17, <1>19, <2>1
  <2>3. at[k] \in Int /\ z[k] \in Nat
    BY <1>11, <1>14, <2>1
  <2> QED
    BY <1>3, <2>2, <2>3
<1>22. Total(r) = Total(q)
  <2>1. \A k \in Kinds : SizeIn(r, k) = SizeIn(q, k)
    BY <1>20
  <2> QED
    BY <2>1 DEF Total, SizeBefore, Kinds
<1>23. r.alignment > 0 /\ Total(r) <= r.totalLimit /\ r.randomMin < r.randomLimit
  BY <1>3, <1>7, <1>8, <1>9, <1>22
<1>24. PolicyIsValid(r)
  BY <1>20, <1>21, <1>23 DEF PolicyIsValid
<1> QED
  BY <1>9, <1>24

-----------------------------------------------------------------------------
(* The limit a diagnostic quotes. *)

LEMMA LeastIsMember ==
  ASSUME NEW S, S \subseteq Nat, S # {}
  PROVE  Least(S) \in S /\ \A j \in S : Least(S) <= j
<1>1. \E k \in S : \A j \in S : k <= j
  BY LeastElement
<1> QED
  BY <1>1 DEF Least

\* Shrinking one region changes its size alone.
LEMMA ShrunkSizes ==
  ASSUME NEW p \in Policy, NEW d \in Metadata, NEW k \in Kinds, NEW n \in Word,
         p.alignment # 0, n % p.alignment = 0, n >= p.regions[k].min
  PROVE  LET e == Shrunk(d, k, n) IN
         /\ e \in Metadata /\ RawSize(p, e, k) = n /\ AlignedSize(p, e, k) = n
         /\ \A j \in Kinds : j # k => /\ RawSize(p, e, j) = RawSize(p, d, j)
                                      /\ AlignedSize(p, e, j) = AlignedSize(p, d, j)
<1> DEFINE e == Shrunk(d, k, n)
<1>1. n \in Nat /\ 0 \in Word
  BY WordsAreNumbers DEF Word
<1>2. /\ k = Code  => e = [d EXCEPT !.code = n]
      /\ k = Data  => e = [d EXCEPT !.data = n, !.uninitialized = 0]
      /\ k = Const => e = [d EXCEPT !.const = n]
      /\ k = Heap  => e = [d EXCEPT !.heap = n]
      /\ k = StackRegion => e = [d EXCEPT !.stack = n]
  BY DEF Shrunk, Code, Data, Const, Heap, StackRegion
<1>3. k = Code \/ k = Data \/ k = Const \/ k = Heap \/ k = StackRegion
  BY DEF Kinds, Code, Data, Const, Heap, StackRegion
<1> HIDE DEF e
<1>4. e \in Metadata
  BY <1>1, <1>2, <1>3 DEF Metadata
<1>5. n # NoRequest
  BY <1>1 DEF NoRequest
<1> DEFINE Raw(x, j) == IF j = Code THEN x.code ELSE IF j = Data THEN x.data + x.uninitialized
                        ELSE IF j = Const THEN x.const
                        ELSE IF j = Heap THEN Requested(x.heap, p.heapRequest)
                        ELSE Requested(x.stack, p.stackRequest)
<1>6. \A x, j : RawSize(p, x, j) = Raw(x, j)
  BY DEF RawSize, Code, Data, Const, Heap, StackRegion
<1>10. /\ k = Code => e.code = n
       /\ k = Data => e.data = n /\ e.uninitialized = 0
       /\ k = Const => e.const = n
       /\ k = Heap => e.heap = n
       /\ k = StackRegion => e.stack = n
       /\ k # Code => e.code = d.code
       /\ k # Data => e.data = d.data /\ e.uninitialized = d.uninitialized
       /\ k # Const => e.const = d.const
       /\ k # Heap => e.heap = d.heap
       /\ k # StackRegion => e.stack = d.stack
  BY <1>2, <1>3 DEF Metadata, Code, Data, Const, Heap, StackRegion
<1>11. Requested(n, p.heapRequest) = n /\ Requested(n, p.stackRequest) = n
  BY <1>5 DEF Requested
<1>12. Raw(e, k) = n
  BY <1>1, <1>3, <1>10, <1>11 DEF Code, Data, Const, Heap, StackRegion
<1>13. \A j \in Kinds : j # k => Raw(e, j) = Raw(d, j)
  BY <1>3, <1>10 DEF Kinds, Code, Data, Const, Heap, StackRegion
<1> HIDE DEF Raw
<1>14. RawSize(p, e, k) = n
  BY <1>6, <1>12
<1>7. \A j \in Kinds : j # k => RawSize(p, e, j) = RawSize(p, d, j)
  BY <1>6, <1>13
<1>8. \A j \in Kinds : j # k => AlignedSize(p, e, j) = AlignedSize(p, d, j)
  BY <1>7 DEF AlignedSize
<1>9. AlignedSize(p, e, k) = n
  BY <1>1, <1>4, <1>14, SizesAreAligned
<1> QED
  BY <1>4, <1>7, <1>8, <1>9, <1>14 DEF e

\* Smaller sizes fit where larger ones did.
LEMMA SmallerFits ==
  ASSUME NEW p \in Policy, NEW d \in Metadata, NEW e \in Metadata, SizesFit(p, d),
         \A k \in Kinds : AlignedSize(p, e, k) <= AlignedSize(p, d, k)
  PROVE  SizesFit(p, e)
<1> DEFINE y == Sizes(p, d)
           z == Sizes(p, e)
<1>1. p.alignment # 0
  BY DEF SizesFit
<1>2. /\ \A k \in Kinds : y[k] \in Nat /\ AlignedSize(p, d, k) = y[k]
      /\ SizesUpTo(p, d, 1) = y[1] /\ SizesUpTo(p, d, 2) = y[1] + y[2]
      /\ SizesUpTo(p, d, 3) = y[1] + y[2] + y[3]
      /\ SizesUpTo(p, d, 4) = y[1] + y[2] + y[3] + y[4]
      /\ SizesUpTo(p, d, 5) = y[1] + y[2] + y[3] + y[4] + y[5]
  BY <1>1, SizesAdded
<1>3. /\ \A k \in Kinds : z[k] \in Nat /\ AlignedSize(p, e, k) = z[k]
      /\ SizesUpTo(p, e, 1) = z[1] /\ SizesUpTo(p, e, 2) = z[1] + z[2]
      /\ SizesUpTo(p, e, 3) = z[1] + z[2] + z[3]
      /\ SizesUpTo(p, e, 4) = z[1] + z[2] + z[3] + z[4]
      /\ SizesUpTo(p, e, 5) = z[1] + z[2] + z[3] + z[4] + z[5]
  BY <1>1, SizesAdded
<1> HIDE DEF y, z
<1>4. /\ y[1] \in Nat /\ y[2] \in Nat /\ y[3] \in Nat /\ y[4] \in Nat /\ y[5] \in Nat
      /\ z[1] \in Nat /\ z[2] \in Nat /\ z[3] \in Nat /\ z[4] \in Nat /\ z[5] \in Nat
      /\ z[1] <= y[1] /\ z[2] <= y[2] /\ z[3] <= y[3] /\ z[4] <= y[4] /\ z[5] <= y[5]
  BY <1>2, <1>3 DEF Kinds
<1>5. /\ SizesUpTo(p, e, 1) <= SizesUpTo(p, d, 1) /\ SizesUpTo(p, e, 2) <= SizesUpTo(p, d, 2)
      /\ SizesUpTo(p, e, 3) <= SizesUpTo(p, d, 3) /\ SizesUpTo(p, e, 4) <= SizesUpTo(p, d, 4)
      /\ SizesUpTo(p, e, 5) <= SizesUpTo(p, d, 5)
      /\ SizesUpTo(p, e, 1) \in Nat /\ SizesUpTo(p, d, 1) \in Nat
      /\ SizesUpTo(p, e, 2) \in Nat /\ SizesUpTo(p, d, 2) \in Nat
      /\ SizesUpTo(p, e, 3) \in Nat /\ SizesUpTo(p, d, 3) \in Nat
      /\ SizesUpTo(p, e, 4) \in Nat /\ SizesUpTo(p, d, 4) \in Nat
      /\ SizesUpTo(p, e, 5) \in Nat /\ SizesUpTo(p, d, 5) \in Nat
  BY <1>2, <1>3, <1>4
<1>6. \A k \in Kinds : /\ SizesUpTo(p, e, k) <= SizesUpTo(p, d, k)
                       /\ SizesUpTo(p, e, k) \in Nat /\ SizesUpTo(p, d, k) \in Nat
  BY <1>5 DEF Kinds
<1>7. UMax \in Nat /\ p.totalLimit \in Nat
  BY WordsAreNumbers DEF Policy
<1>8. ASSUME NEW k \in Kinds
      PROVE  ~RegionTooLarge(p, e, k) /\ ~RegionOverflows(p, e, k) /\ ~(SizesUpTo(p, e, k) > UMax)
  <2>1. ~RegionTooLarge(p, d, k) /\ ~RegionOverflows(p, d, k) /\ ~(SizesUpTo(p, d, k) > UMax)
    BY DEF SizesFit, RegionFaults
  <2>2. /\ p.regions[k].max \in Nat /\ p.regions[k].limit \in Nat /\ p.regions[k].base \in Nat
    BY WordsAreNumbers DEF Policy, RegionPolicy
  <2>3. /\ AlignedSize(p, e, k) \in Nat /\ AlignedSize(p, d, k) \in Nat
        /\ AlignedSize(p, e, k) <= AlignedSize(p, d, k)
    BY <1>2, <1>3
  <2>4. ~RegionTooLarge(p, e, k)
    BY <2>1, <2>2, <2>3 DEF RegionTooLarge
  <2>5. ~RegionOverflows(p, e, k)
    BY <1>7, <2>1, <2>2, <2>3 DEF RegionOverflows
  <2>6. ~(SizesUpTo(p, e, k) > UMax)
    BY <1>6, <1>7, <2>1
  <2> QED
    BY <2>4, <2>5, <2>6
<1>9. RegionFaults(p, e) = {}
  BY <1>8 DEF RegionFaults
<1>10. SizesUpTo(p, e, StackRegion) <= p.totalLimit
  <2>1. SizesUpTo(p, d, StackRegion) <= p.totalLimit
    BY DEF SizesFit
  <2> QED
    BY <1>6, <1>7, <2>1 DEF StackRegion, Kinds
<1> QED
  BY <1>1, <1>9, <1>10 DEF SizesFit

\* Sizes that fit and regions that do not collide give a layout.
LEMMA AutomaticBuilds ==
  ASSUME NEW p \in Policy, NEW d \in Metadata, ~Randomized(p.mode), SizesFit(p, d),
         NoCollision(p, d), RawSize(p, d, Data) <= UMax,
         \A k \in Kinds : AlignedSize(p, d, k) <= UMax
  PROVE  Automatic(p, d) = Verdict("ok", NoRegion)
<1>1. PolicyIsValid(Sized(p, d))
  BY ValidAfterChecks
<1>2. p.alignment # 0
  BY DEF SizesFit
<1>3. ~(RawSize(p, d, Data) > UMax) /\ ~\E k \in Kinds : AlignedSize(p, d, k) > UMax
  <2>1. RawSize(p, d, Data) \in Nat /\ UMax \in Nat
    BY RawSizesAreNumbers, WordsAreNumbers DEF Data, Kinds
  <2>2. \A k \in Kinds : AlignedSize(p, d, k) \in Nat
    BY <1>2, SizesAreAligned
  <2> QED
    BY <2>1, <2>2
<1>4. ~(SizesUpTo(p, d, StackRegion) > p.totalLimit)
  <2>1. SizesUpTo(p, d, StackRegion) \in Nat /\ p.totalLimit \in Nat
    BY <1>2, SizesAdded, WordsAreNumbers DEF StackRegion, Kinds, Policy
  <2> QED
    BY <2>1 DEF SizesFit
<1>5. {k \in 1 .. 4 : Collides(Sized(p, d), k)} = {}
  BY DEF NoCollision
<1>6. RegionFaults(p, d) = {}
  BY DEF SizesFit
<1> QED
  BY <1>1, <1>2, <1>3, <1>4, <1>5, <1>6 DEF Automatic

\* Where the regions of a sized policy begin and end.
LEMMA SizedBounds ==
  ASSUME NEW p \in Policy, NEW d \in Metadata, p.alignment # 0
  PROVE  LET q == Sized(p, d) IN
         /\ q.gap = p.gap /\ p.gap \in Nat
         /\ \A k \in 1 .. 4 : /\ q.regions[k].base = p.regions[k].base
                              /\ q.regions[k].limit = p.regions[k].base + AlignedSize(p, d, k)
                              /\ p.regions[k].base \in Nat
         /\ q.regions[5].limit = p.regions[5].limit
         /\ q.regions[5].base = p.regions[5].limit - AlignedSize(p, d, 5)
         /\ p.regions[5].limit \in Nat
         /\ \A k \in Kinds : /\ SizeIn(q, k) = AlignedSize(p, d, k)
                             /\ AlignedSize(p, d, k) \in Nat \ {0}
<1> DEFINE q == Sized(p, d)
<1>1. /\ DOMAIN q = DOMAIN p
      /\ \A f \in DOMAIN p \ {"mode", "heapRequest", "stackRequest", "regions"} : q[f] = p[f]
      /\ \A k \in Kinds : /\ q.regions[k].base \in Int /\ q.regions[k].limit \in Int
                          /\ SizeIn(q, k) = AlignedSize(p, d, k)
      /\ \A k \in 1 .. 4 : q.regions[k].base = p.regions[k].base
      /\ q.regions[5].limit = p.regions[5].limit
  BY SizedShape DEF StackRegion
<1>2. q.gap = p.gap /\ p.gap \in Nat
  BY <1>1, WordsAreNumbers DEF Policy
<1>3. \A k \in Kinds : p.regions[k].base \in Nat /\ p.regions[k].limit \in Nat
  BY WordsAreNumbers DEF Policy, RegionPolicy
<1>4. \A k \in Kinds : AlignedSize(p, d, k) \in Nat \ {0}
  BY SizesAreAligned
<1> HIDE DEF q
<1>5. ASSUME NEW k \in 1 .. 4 PROVE q.regions[k].limit = p.regions[k].base + AlignedSize(p, d, k)
  <2>1. k \in Kinds
    BY DEF Kinds
  <2>2. /\ q.regions[k].base \in Int /\ q.regions[k].limit \in Int
        /\ q.regions[k].limit - q.regions[k].base = AlignedSize(p, d, k)
        /\ q.regions[k].base = p.regions[k].base
    BY <1>1, <2>1 DEF SizeIn
  <2> QED
    BY <1>4, <2>1, <2>2
<1>6. q.regions[5].base = p.regions[5].limit - AlignedSize(p, d, 5)
  <2>1. 5 \in Kinds
    BY DEF Kinds
  <2>2. /\ q.regions[5].base \in Int /\ q.regions[5].limit \in Int
        /\ q.regions[5].limit - q.regions[5].base = AlignedSize(p, d, 5)
        /\ q.regions[5].limit = p.regions[5].limit
    BY <1>1, <2>1 DEF SizeIn
  <2> QED
    BY <1>4, <2>1, <2>2
<1> QED
  BY <1>1, <1>2, <1>3, <1>4, <1>5, <1>6 DEF q, Kinds

\* The size that collides exceeds the limit quoted for it, which is the room there is.
LEMMA QuotedRoom ==
  ASSUME NEW p \in Policy, NEW d \in Metadata, p.alignment # 0, NEW j \in 1 .. 4,
         Collides(Sized(p, d), j)
  PROVE  LET q == Sized(p, d)
             g == Collision(q, j)
             behind == j = Heap /\ q.regions[StackRegion].base < q.regions[Heap].base
             start == IF behind THEN q.regions[Heap].limit ELSE q.regions[j].base
             end == IF behind THEN q.regions[StackRegion].limit ELSE q.regions[j + 1].base
         IN  /\ g.region = IF behind THEN StackRegion ELSE j
             /\ g.requested = AlignedSize(p, d, g.region)
             /\ g.limit \in Nat /\ g.limit < AlignedSize(p, d, g.region)
             /\ g.limit > 0 => start + g.limit + p.gap <= end
<1> DEFINE q == Sized(p, d)
           g == Collision(q, j)
           behind == j = Heap /\ q.regions[StackRegion].base < q.regions[Heap].base
<1>1. /\ q.gap = p.gap /\ p.gap \in Nat
      /\ \A k \in 1 .. 4 : /\ q.regions[k].base = p.regions[k].base
                           /\ q.regions[k].limit = p.regions[k].base + AlignedSize(p, d, k)
                           /\ p.regions[k].base \in Nat
      /\ q.regions[5].limit = p.regions[5].limit
      /\ q.regions[5].base = p.regions[5].limit - AlignedSize(p, d, 5)
      /\ p.regions[5].limit \in Nat
      /\ \A k \in Kinds : /\ SizeIn(q, k) = AlignedSize(p, d, k)
                          /\ AlignedSize(p, d, k) \in Nat \ {0}
  BY SizedBounds
<1>2. q.regions[j].limit + q.gap > q.regions[j + 1].base
  BY DEF Collides
<1>3. \A a, b, c \in Int : /\ (a >= b + c) => Room(a, b, c) = a - b - c
                           /\ ~(a >= b + c) => Room(a, b, c) = 0
  BY DEF Room
<1>4. CASE behind
  <2>1. g = About(StackRegion, SizeIn(q, StackRegion),
                  Room(q.regions[StackRegion].limit, q.regions[Heap].limit, q.gap))
    BY <1>4 DEF Collision
  <2> DEFINE a == q.regions[5].limit
             b == q.regions[4].limit
             n == AlignedSize(p, d, 5)
             m == AlignedSize(p, d, 4)
  <2>2. /\ a \in Nat /\ q.regions[5].base = a - n /\ n \in Nat \ {0} /\ m \in Nat \ {0}
        /\ b = p.regions[4].base + m /\ p.regions[4].base \in Nat
        /\ q.regions[4].base = p.regions[4].base /\ SizeIn(q, 5) = n
    BY <1>1 DEF Kinds
  <2>3. g.region = 5 /\ g.requested = n /\ g.limit = Room(a, b, q.gap) /\ StackRegion = 5 /\ Heap = 4
    BY <2>1, <2>2 DEF About, StackRegion, Heap
  <2>4. a - n < p.regions[4].base
    BY <1>4, <2>2 DEF StackRegion, Heap
  <2> HIDE DEF a, b, n, m, q, g
  <2> DEFINE r == Room(a, b, q.gap)
             c == p.gap
  <2>7. a \in Int /\ b \in Int /\ c \in Nat /\ q.gap = c
    BY <1>1, <2>2 DEF q
  <2>8. (a >= b + c) => r = a - b - c
    BY <1>3, <2>7
  <2>9. ~(a >= b + c) => r = 0
    BY <1>3, <2>7
  <2> HIDE DEF r, c
  <2>10. r \in Nat /\ r < n /\ (r > 0 => b + r + c <= a)
    BY <2>2, <2>4, <2>7, <2>8, <2>9
  <2>5. /\ Room(a, b, q.gap) \in Nat /\ Room(a, b, q.gap) < n
        /\ Room(a, b, q.gap) > 0 => b + Room(a, b, q.gap) + p.gap <= a
    BY <2>10 DEF r, c
  <2> HIDE DEF behind
  <2>6. g.limit \in Nat /\ g.limit < n /\ (g.limit > 0 => b + g.limit + p.gap <= a)
    BY <2>3, <2>5
  <2> QED
    BY <1>4, <2>3, <2>6 DEF a, b, n, q, g, behind
<1>5. CASE ~behind
  <2>1. g = About(j, SizeIn(q, j), Room(q.regions[j + 1].base, q.regions[j].base, q.gap))
    BY <1>5 DEF Collision
  <2> DEFINE a == q.regions[j + 1].base
             b == q.regions[j].base
             n == AlignedSize(p, d, j)
  <2>2. /\ b \in Nat /\ n \in Nat \ {0} /\ SizeIn(q, j) = n
        /\ q.regions[j].limit = b + n
    BY <1>1 DEF Kinds
  <2>3. a \in Int
    <3>1. CASE j + 1 = 5
      BY <1>1, <3>1 DEF Kinds
    <3>2. CASE j + 1 \in 1 .. 4
      BY <1>1, <3>2
    <3> QED
      BY <3>1, <3>2
  <2>4. g.region = j /\ g.requested = n /\ g.limit = Room(a, b, q.gap)
    BY <2>1, <2>2 DEF About
  <2>5. b + n + q.gap > a
    BY <1>2, <2>2
  <2> HIDE DEF a, b, n, q, g
  <2> DEFINE r == Room(a, b, q.gap)
             c == p.gap
  <2>8. a \in Int /\ b \in Int /\ c \in Nat /\ q.gap = c
    BY <1>1, <2>2, <2>3 DEF q
  <2>9. (a >= b + c) => r = a - b - c
    BY <1>3, <2>8
  <2>10. ~(a >= b + c) => r = 0
    BY <1>3, <2>8
  <2> HIDE DEF r, c
  <2>11. r \in Nat /\ r < n /\ (r > 0 => b + r + c <= a)
    BY <2>2, <2>5, <2>8, <2>9, <2>10
  <2>6. /\ Room(a, b, q.gap) \in Nat /\ Room(a, b, q.gap) < n
        /\ Room(a, b, q.gap) > 0 => b + Room(a, b, q.gap) + p.gap <= a
    BY <2>11 DEF r, c
  <2>7. g.limit \in Nat /\ g.limit < n /\ (g.limit > 0 => b + g.limit + p.gap <= a)
    BY <2>4, <2>6
  <2> HIDE DEF behind
  <2> QED
    BY <1>5, <2>4, <2>7 DEF a, b, n, q, g, behind
<1> QED
  BY <1>4, <1>5

\* Shrunk to the room quoted, the region no longer collides, and the first region that
\* collided was the only one to be told.
LEMMA AdviceSettles ==
  ASSUME NEW p \in Policy, NEW d \in Metadata, ~Randomized(p.mode), SizesFit(p, d),
         ~(RawSize(p, d, Data) > UMax), \A k \in Kinds : ~(AlignedSize(p, d, k) > UMax),
         NEW j \in 1 .. 4, Collides(Sized(p, d), j),
         \A i \in 1 .. 4 : Collides(Sized(p, d), i) => j <= i,
         NEW n \in Nat, n % p.alignment = 0, n <= Collision(Sized(p, d), j).limit,
         n >= p.regions[Collision(Sized(p, d), j).region].min
  PROVE  LET k == Collision(Sized(p, d), j).region
             again == Automatic(p, Shrunk(d, k, n))
         IN  again.diagnostic.region # k /\ (k \in {Heap, StackRegion} => again.status = "ok")
<1> DEFINE q == Sized(p, d)
           g == Collision(q, j)
           k == g.region
           e == Shrunk(d, k, n)
           r == Sized(p, e)
           again == Automatic(p, e)
           behind == j = Heap /\ q.regions[StackRegion].base < q.regions[Heap].base
<1>1. p.alignment # 0
  BY DEF SizesFit
<1>2. /\ k = (IF behind THEN 5 ELSE j) /\ k \in Kinds
      /\ g.limit \in Nat /\ g.limit < AlignedSize(p, d, k)
      /\ behind => (g.limit > 0 => q.regions[4].limit + g.limit + p.gap <= q.regions[5].limit)
      /\ ~behind => (g.limit > 0 => q.regions[j].base + g.limit + p.gap <= q.regions[j + 1].base)
  BY <1>1, QuotedRoom DEF Kinds, Heap, StackRegion
<1>3. p.regions[k].min \in Nat \ {0} /\ n >= p.regions[k].min /\ n > 0 /\ g.limit > 0
  <2>1. p.regions[k].min \in Nat \ {0}
    BY <1>1, <1>2, SizesAreAligned
  <2>2. n >= p.regions[k].min /\ n <= g.limit
    OBVIOUS
  <2> HIDE DEF k, g
  <2> QED
    BY <1>2, <2>1, <2>2
<1>4. AlignedSize(p, d, k) \in Nat /\ UMax \in Nat /\ n <= AlignedSize(p, d, k) /\ n \in Word
  <2>1. AlignedSize(p, d, k) \in Nat /\ UMax \in Nat /\ ~(AlignedSize(p, d, k) > UMax) /\ n <= g.limit
    BY <1>1, <1>2, SizesAreAligned, WordsAreNumbers
  <2> HIDE DEF k, g
  <2> QED
    BY <1>2, <2>1 DEF Word
<1>5. /\ e \in Metadata /\ RawSize(p, e, k) = n /\ AlignedSize(p, e, k) = n
      /\ \A i \in Kinds : i # k => /\ RawSize(p, e, i) = RawSize(p, d, i)
                                   /\ AlignedSize(p, e, i) = AlignedSize(p, d, i)
  BY <1>1, <1>2, <1>3, <1>4, ShrunkSizes
<1> HIDE DEF k, e
<1>6. \A i \in Kinds : /\ AlignedSize(p, e, i) \in Nat /\ AlignedSize(p, d, i) \in Nat
                       /\ AlignedSize(p, e, i) <= AlignedSize(p, d, i)
                       /\ AlignedSize(p, e, i) <= UMax
  <2>1. \A i \in Kinds : /\ AlignedSize(p, e, i) \in Nat /\ AlignedSize(p, d, i) \in Nat
    BY <1>1, <1>5, SizesAreAligned
  <2>2. \A i \in Kinds : ~(AlignedSize(p, d, i) > UMax)
    OBVIOUS
  <2> QED
    BY <1>4, <1>5, <2>1, <2>2
<1>7. SizesFit(p, e)
  BY <1>5, <1>6, SmallerFits
<1>8. RawSize(p, e, Data) <= UMax
  <2>1. Data \in Kinds
    BY DEF Data, Kinds
  <2>2. RawSize(p, d, Data) \in Nat /\ ~(RawSize(p, d, Data) > UMax)
    BY <2>1, RawSizesAreNumbers
  <2>3. n <= UMax
    BY <1>4 DEF Word
  <2> QED
    BY <1>4, <1>5, <2>1, <2>2, <2>3
<1>9. /\ q.gap = p.gap /\ p.gap \in Nat
      /\ \A i \in 1 .. 4 : /\ q.regions[i].base = p.regions[i].base
                           /\ q.regions[i].limit = p.regions[i].base + AlignedSize(p, d, i)
                           /\ p.regions[i].base \in Nat
      /\ q.regions[5].limit = p.regions[5].limit
      /\ q.regions[5].base = p.regions[5].limit - AlignedSize(p, d, 5)
      /\ p.regions[5].limit \in Nat
  BY <1>1, SizedBounds
<1>10. /\ r.gap = p.gap
       /\ \A i \in 1 .. 4 : /\ r.regions[i].base = p.regions[i].base
                            /\ r.regions[i].limit = p.regions[i].base + AlignedSize(p, e, i)
       /\ r.regions[5].limit = p.regions[5].limit
       /\ r.regions[5].base = p.regions[5].limit - AlignedSize(p, e, 5)
  BY <1>1, <1>5, SizedBounds
<1>11. ASSUME NEW i \in 1 .. 4, ~Collides(q, i), i # k, i # 4 \/ k # 5
       PROVE  ~Collides(r, i)
  <2>1. i \in Kinds /\ r.regions[i].limit = q.regions[i].limit
    BY <1>5, <1>9, <1>10, <1>11 DEF Kinds
  <2>2. CASE i = 4
    <3>1. r.regions[5].base = q.regions[5].base
      BY <1>5, <1>9, <1>10, <1>11, <2>2 DEF Kinds
    <3> QED
      BY <1>9, <1>10, <1>11, <2>1, <2>2, <3>1 DEF Collides
  <2>3. CASE i # 4
    <3>1. i + 1 \in 1 .. 4
      BY <2>3
    <3>2. r.regions[i + 1].base = q.regions[i + 1].base
      BY <1>9, <1>10, <3>1
    <3> QED
      BY <1>9, <1>10, <1>11, <2>1, <3>2 DEF Collides
  <2> QED
    BY <2>2, <2>3
<1>12. ~Collides(r, j)
  <2>1. CASE behind
    <3>1. j = 4 /\ k = 5 /\ q.regions[4].limit + g.limit + p.gap <= q.regions[5].limit
      BY <1>2, <1>3, <2>1 DEF Heap
    <3> DEFINE a == p.regions[5].limit
               b == p.regions[4].base
               s == AlignedSize(p, d, 4)
               c == p.gap
               m == g.limit
    <3>2. /\ r.regions[4].limit = b + s /\ r.gap = c /\ r.regions[5].base = a - n
          /\ a \in Nat /\ b \in Nat /\ s \in Nat /\ c \in Nat
      BY <1>5, <1>6, <1>9, <1>10, <3>1 DEF Kinds
    <3>3. b + s + m + c <= a
      BY <1>9, <3>1
    <3>4. m \in Nat /\ n <= m
      BY <1>2
    <3> HIDE DEF a, b, s, c, m, g, r
    <3>5. ~(b + s + c > a - n)
      BY <3>2, <3>3, <3>4
    <3>6. ~(r.regions[4].limit + r.gap > r.regions[5].base)
      BY <3>2, <3>5
    <3>7. j + 1 = 5
      BY <3>1
    <3> QED
      BY <3>1, <3>6, <3>7 DEF Collides
  <2>2. CASE ~behind
    <3>1. k = j /\ q.regions[j].base + g.limit + p.gap <= q.regions[j + 1].base
      BY <1>2, <1>3, <2>2
    <3>2. r.regions[j + 1].base = q.regions[j + 1].base /\ q.regions[j + 1].base \in Int
      <4>1. CASE j = 4
        <5>1. AlignedSize(p, e, 5) = AlignedSize(p, d, 5) /\ AlignedSize(p, d, 5) \in Nat /\ j + 1 = 5
          BY <1>5, <1>6, <3>1, <4>1 DEF Kinds
        <5> HIDE DEF q, r
        <5> QED
          BY <1>9, <1>10, <4>1, <5>1
      <4>2. CASE j # 4
        <5>1. j + 1 \in 1 .. 4
          BY <4>2
        <5> HIDE DEF q, r
        <5> QED
          BY <1>9, <1>10, <5>1
      <4> QED
        BY <4>1, <4>2
    <3> DEFINE a == q.regions[j + 1].base
               b == p.regions[j].base
               c == p.gap
               m == g.limit
    <3>3. /\ r.regions[j].limit = b + n /\ r.gap = c /\ b \in Nat /\ c \in Nat
      BY <1>5, <1>9, <1>10, <3>1
    <3>4. a \in Int /\ b + m + c <= a /\ m \in Nat /\ n <= m
      BY <1>2, <1>9, <3>1, <3>2
    <3> HIDE DEF a, b, c, m, g
    <3>5. ~(b + n + c > a)
      BY <3>3, <3>4
    <3>6. ~(r.regions[j].limit + r.gap > r.regions[j + 1].base)
      BY <3>2, <3>3, <3>5 DEF a
    <3> HIDE DEF r
    <3> QED
      BY <3>6 DEF Collides
  <2> QED
    BY <2>1, <2>2
<1>13. k \in {Heap, StackRegion} => NoCollision(p, e)
  <2> SUFFICES ASSUME k = 4 \/ k = 5, NEW i \in 1 .. 4 PROVE ~Collides(r, i)
    BY DEF NoCollision, Heap, StackRegion
  <2>1. j = 4
    BY <1>2 DEF Heap
  <2>2. CASE i = 4
    BY <1>12, <2>1, <2>2
  <2>3. CASE i # 4
    <3>1. ~Collides(q, i)
      BY <2>1, <2>3
    <3>2. i # k
      BY <2>3
    <3> HIDE DEF q, r
    <3> QED
      BY <1>11, <2>3, <3>1, <3>2
  <2> QED
    BY <2>2, <2>3
<1>14. k \in {Heap, StackRegion} => again = Verdict("ok", NoRegion)
  BY <1>5, <1>6, <1>7, <1>8, <1>13, AutomaticBuilds
<1>15. ASSUME k \notin {Heap, StackRegion} PROVE again.diagnostic.region # k
  <2> DEFINE f == Least(RegionFaults(p, e))
             C == {i \in 1 .. 4 : Collides(r, i)}
  <2>1. k = j /\ k \in 1 .. 3
    BY <1>2, <1>15 DEF Heap, StackRegion, Kinds
  <2>2. \/ /\ again = Verdict("integer-overflow", About(Data, UMax, p.regions[Data].max))
           /\ RawSize(p, e, Data) > UMax
        \/ again = Verdict("integer-overflow", NoRegion)
        \/ /\ RegionFaults(p, e) # {} /\ again = RegionFault(p, e, f)
        \/ again = Verdict("resource-limit-exceeded", NoRegion)
        \/ C # {} /\ again = Verdict("resource-limit-exceeded", Collision(r, Least(C)))
        \/ again = Verdict("ok", NoRegion)
    BY <1>1, <1>5, Verdicts
  <2>3. ~(RawSize(p, e, Data) > UMax) /\ RegionFaults(p, e) = {}
    <3>1. Data \in Kinds /\ UMax \in Nat
      BY WordsAreNumbers DEF Data, Kinds
    <3>2. RawSize(p, e, Data) \in Nat
      BY <1>5, <3>1, RawSizesAreNumbers
    <3> QED
      BY <1>7, <1>8, <3>1, <3>2 DEF SizesFit
  <2>4. \A s : Verdict(s, NoRegion).diagnostic.region = 0
    BY DEF Verdict, NoRegion
  <2>5. ASSUME C # {} PROVE Collision(r, Least(C)).region # k
    <3> DEFINE m == Least(C)
    <3>1. m \in C
      BY <2>5, LeastIsMember
    <3>2. m \in 1 .. 4 /\ Collides(r, m)
      BY <3>1
    <3> HIDE DEF m
    <3>3. m # k
      BY <1>12, <2>1, <3>2
    <3>4. Collision(r, m).region \in {m, StackRegion}
      BY <1>1, <1>5, <3>2, QuotedRoom
    <3> QED
      BY <1>15, <3>3, <3>4 DEF m
  <2>6. \A s, c : Verdict(s, c).diagnostic = c
    BY DEF Verdict
  <2> HIDE DEF again, C, r
  <2> QED
    BY <2>1, <2>2, <2>3, <2>4, <2>5, <2>6
<1>16. \A s : Verdict(s, NoRegion).diagnostic.region = 0 /\ Verdict(s, NoRegion).status = s
  BY DEF Verdict, NoRegion
<1>17. k # 0
  BY <1>2 DEF Kinds
<1> HIDE DEF again
<1>18. again.diagnostic.region # k /\ (k \in {Heap, StackRegion} => again.status = "ok")
  BY <1>14, <1>15, <1>16, <1>17
<1> QED
  BY <1>18 DEF again, k, e

\* No region may grow past the address space.
MaximaFit(p) == \A k \in 1 .. 4 : p.regions[k].base + p.regions[k].max <= UMax

\* Shrunk to its greatest size, a region that was too large is refused for a tighter limit only.
LEMMA GreatestSizeSettles ==
  ASSUME NEW p \in Policy, NEW d \in Metadata, ~Randomized(p.mode), MaximaFit(p), p.alignment # 0,
         ~(RawSize(p, d, Data) > UMax), NEW k \in Kinds,
         NEW n \in Nat, n % p.alignment = 0, n <= p.regions[k].max, n >= p.regions[k].min,
         Automatic(p, Shrunk(d, k, n)).diagnostic.region = k
  PROVE  Automatic(p, Shrunk(d, k, n)).diagnostic.limit < p.regions[k].max
<1> DEFINE e == Shrunk(d, k, n)
           r == Sized(p, e)
           again == Automatic(p, e)
           f == Least(RegionFaults(p, e))
           C == {i \in 1 .. 4 : Collides(r, i)}
           max == p.regions[k].max
<1>1. /\ max \in Nat /\ max <= UMax /\ UMax \in Nat
      /\ p.regions[k].base \in Nat /\ p.regions[k].limit \in Nat
  BY WordsAreNumbers DEF Policy, RegionPolicy, Word
<1>2. n <= max /\ n \in Word
  BY <1>1 DEF Word
<1>3. /\ e \in Metadata /\ RawSize(p, e, k) = n /\ AlignedSize(p, e, k) = n
      /\ \A i \in Kinds : i # k => RawSize(p, e, i) = RawSize(p, d, i)
  BY <1>2, ShrunkSizes
<1>4. ~(RawSize(p, e, Data) > UMax)
  BY <1>1, <1>2, <1>3 DEF Data, Kinds
<1>5. \/ again = Verdict("integer-overflow", NoRegion)
      \/ RegionFaults(p, e) # {} /\ again = RegionFault(p, e, f)
      \/ again = Verdict("resource-limit-exceeded", NoRegion)
      \/ C # {} /\ again = Verdict("resource-limit-exceeded", Collision(r, Least(C)))
      \/ again = Verdict("ok", NoRegion)
  BY <1>3, <1>4, Verdicts
<1>6. \A s, c : Verdict(s, c).diagnostic = c
  BY DEF Verdict
<1>7. NoRegion.region # k
  BY DEF NoRegion, Kinds
<1>8. CASE RegionFaults(p, e) # {} /\ again = RegionFault(p, e, f)
  <2>1. \A i, x, y : About(i, x, y).region = i /\ About(i, x, y).limit = y
    BY DEF About
  <2>2. ~RegionTooLarge(p, e, k)
    BY <1>1, <1>2, <1>3 DEF RegionTooLarge
  <2>3. again.diagnostic.region = k
    OBVIOUS
  <2>4. /\ f = k /\ RegionOverflows(p, e, k)
        /\ again.diagnostic.limit = IF k = StackRegion THEN p.regions[k].limit ELSE max
    <3> HIDE DEF f, again, e, max
    <3>1. \/ RegionTooLarge(p, e, f) /\ again.diagnostic.region = f
          \/ /\ RegionOverflows(p, e, f) /\ again.diagnostic.region = f
             /\ again.diagnostic.limit = IF f = StackRegion THEN p.regions[f].limit
                                         ELSE p.regions[f].max
          \/ again.diagnostic = NoRegion
      BY <1>6, <1>8, <2>1 DEF RegionFault
    <3> QED
      BY <1>7, <2>2, <2>3, <3>1 DEF max
  <2>5. k = StackRegion
    <3> SUFFICES ASSUME k # StackRegion PROVE FALSE
      OBVIOUS
    <3>1. k \in 1 .. 4
      BY DEF Kinds, StackRegion
    <3>2. p.regions[k].base + max <= UMax
      BY <3>1 DEF MaximaFit
    <3>3. p.regions[k].base + n > UMax
      BY <1>3, <2>4 DEF RegionOverflows
    <3> HIDE DEF max
    <3> QED
      BY <1>1, <1>2, <3>2, <3>3
  <2>6. n > p.regions[k].limit
    BY <1>3, <2>4, <2>5 DEF RegionOverflows
  <2> HIDE DEF again, max
  <2>7. again.diagnostic.limit < max
    BY <1>1, <1>2, <2>4, <2>5, <2>6
  <2> QED
    BY <2>7 DEF again, e, max
<1>9. CASE C # {} /\ again = Verdict("resource-limit-exceeded", Collision(r, Least(C)))
  <2> DEFINE m == Least(C)
  <2>1. m \in C
    BY <1>9, LeastIsMember
  <2>2. m \in 1 .. 4 /\ Collides(r, m)
    BY <2>1
  <2>3. again.diagnostic = Collision(r, m) /\ again.diagnostic.region = k
    BY <1>6, <1>9
  <2> HIDE DEF m, again
  <2>4. /\ Collision(r, m).limit \in Nat
        /\ Collision(r, m).limit < AlignedSize(p, e, Collision(r, m).region)
    BY <1>3, <2>2, QuotedRoom
  <2>5. again.diagnostic.limit \in Nat /\ again.diagnostic.limit < n
    BY <1>3, <2>3, <2>4
  <2> HIDE DEF max
  <2>6. again.diagnostic.limit < max
    BY <1>1, <1>2, <2>5
  <2> QED
    BY <2>6 DEF again, e, max
<1> QED
  <2>1. again.diagnostic.region = k
    OBVIOUS
  <2> HIDE DEF again, r, f, C
  <2> QED
    BY <1>5, <1>6, <1>7, <1>8, <1>9, <2>1

LEMMA QuotesAreHonest ==
  ASSUME NEW p \in Policy, NEW d \in Metadata, ~Randomized(p.mode), MaximaFit(p),
         Automatic(p, d).status = "resource-limit-exceeded",
         Automatic(p, d).diagnostic.region \in Kinds
  PROVE  LET g == Automatic(p, d).diagnostic
             n == AlignDown(g.limit, p.alignment)
         IN  /\ g.requested > g.limit
             /\ n >= p.regions[g.region].min =>
                  LET again == Automatic(p, Shrunk(d, g.region, n))
                  IN  /\ again.diagnostic.region = g.region => again.diagnostic.limit < g.limit
                      /\ (g.region \in {Heap, StackRegion} /\ g.limit < p.regions[g.region].max)
                           => again.status = "ok"
<1> DEFINE v == Automatic(p, d)
           g == v.diagnostic
           n == AlignDown(g.limit, p.alignment)
           q == Sized(p, d)
           f == Least(RegionFaults(p, d))
           C == {i \in 1 .. 4 : Collides(q, i)}
<1>1. p.alignment # 0
  BY DEF Automatic, Verdict
<1>2. p.alignment \in Nat \ {0} /\ UMax \in Nat
  BY <1>1, WordsAreNumbers DEF Policy
<1>3. \A s, c : Verdict(s, c).diagnostic = c /\ Verdict(s, c).status = s
  BY DEF Verdict
<1>4. NoRegion.region \notin Kinds
  BY DEF NoRegion, Kinds
<1>5. \/ /\ ~(RawSize(p, d, Data) > UMax) /\ RegionFaults(p, d) # {} /\ v = RegionFault(p, d, f)
      \/ /\ ~(RawSize(p, d, Data) > UMax) /\ SizesFit(p, d) /\ C # {}
         /\ \A k \in Kinds : ~(AlignedSize(p, d, k) > UMax)
         /\ v = Verdict("resource-limit-exceeded", Collision(q, Least(C)))
  <2>1. \/ \E c : v = Verdict("integer-overflow", c)
        \/ /\ ~(RawSize(p, d, Data) > UMax) /\ RegionFaults(p, d) # {}
           /\ v = RegionFault(p, d, f)
        \/ v = Verdict("resource-limit-exceeded", NoRegion)
        \/ /\ ~(RawSize(p, d, Data) > UMax) /\ SizesFit(p, d) /\ C # {}
           /\ \A k \in Kinds : ~(AlignedSize(p, d, k) > UMax)
           /\ v = Verdict("resource-limit-exceeded", Collision(q, Least(C)))
        \/ v = Verdict("ok", NoRegion)
    BY <1>1, Verdicts
  <2>2. v.status = "resource-limit-exceeded" /\ v.diagnostic.region \in Kinds
    OBVIOUS
  <2> HIDE DEF v, f, C, q
  <2> QED
    BY <1>3, <1>4, <2>1, <2>2
<1>6. CASE /\ ~(RawSize(p, d, Data) > UMax) /\ RegionFaults(p, d) # {} /\ v = RegionFault(p, d, f)
  <2>1. f \in Kinds
    <3>1. RegionFaults(p, d) \subseteq Nat /\ RegionFaults(p, d) \subseteq Kinds
      BY DEF RegionFaults, Kinds
    <3> QED
      BY <1>6, <3>1, LeastIsMember
  <2>2. /\ RegionTooLarge(p, d, f)
        /\ v.diagnostic = About(f, AlignedSize(p, d, f), p.regions[f].max)
    <3>1. v.status = "resource-limit-exceeded"
      OBVIOUS
    <3> HIDE DEF v, f
    <3> QED
      BY <1>3, <1>6, <3>1 DEF RegionFault
  <2>3. /\ g.region = f /\ g.requested = AlignedSize(p, d, f) /\ g.limit = p.regions[f].max
    BY <2>2 DEF About
  <2>4. g.requested > g.limit
    BY <2>2, <2>3 DEF RegionTooLarge
  <2>5. p.regions[f].max \in Nat
    BY <2>1, WordsAreNumbers DEF Policy, RegionPolicy
  <2>6. n \in 0 .. g.limit /\ n % p.alignment = 0
    BY <1>2, <2>3, <2>5, AlignDownAligns
  <2> HIDE DEF n, f, v
  <2>7. n \in Nat /\ n <= p.regions[f].max
    BY <2>3, <2>5, <2>6
  <2>8. ~(g.limit < p.regions[g.region].max)
    BY <2>3, <2>5
  <2>9. ASSUME n >= p.regions[f].min, Automatic(p, Shrunk(d, f, n)).diagnostic.region = f
        PROVE  Automatic(p, Shrunk(d, f, n)).diagnostic.limit < p.regions[f].max
    BY <1>1, <1>6, <2>1, <2>6, <2>7, <2>9, GreatestSizeSettles
  <2> QED
    BY <2>3, <2>4, <2>8, <2>9 DEF n, v
<1>7. CASE /\ ~(RawSize(p, d, Data) > UMax) /\ SizesFit(p, d) /\ C # {}
           /\ \A k \in Kinds : ~(AlignedSize(p, d, k) > UMax)
           /\ v = Verdict("resource-limit-exceeded", Collision(q, Least(C)))
  <2> DEFINE j == Least(C)
  <2>1. j \in C /\ \A i \in C : j <= i
    BY <1>7, LeastIsMember
  <2>2. j \in 1 .. 4 /\ Collides(q, j) /\ \A i \in 1 .. 4 : Collides(q, i) => j <= i
    BY <2>1
  <2>3. g = Collision(q, j)
    BY <1>3, <1>7
  <2> HIDE DEF j, v
  <2>4. /\ g.requested = AlignedSize(p, d, g.region)
        /\ g.limit \in Nat /\ g.limit < AlignedSize(p, d, g.region)
    BY <1>1, <2>2, <2>3, QuotedRoom
  <2>5. g.region \in Kinds
    BY DEF v
  <2>6. g.requested > g.limit
    BY <1>1, <2>4, <2>5, SizesAreAligned
  <2>7. n \in 0 .. g.limit /\ n % p.alignment = 0
    BY <1>2, <2>4, AlignDownAligns
  <2> HIDE DEF n
  <2>8. n \in Nat /\ n <= g.limit
    BY <2>4, <2>7
  <2>9. ASSUME n >= p.regions[g.region].min
        PROVE  LET again == Automatic(p, Shrunk(d, g.region, n))
               IN  again.diagnostic.region # g.region
                   /\ (g.region \in {Heap, StackRegion} => again.status = "ok")
    <3>1. /\ n <= Collision(Sized(p, d), j).limit
          /\ n >= p.regions[Collision(Sized(p, d), j).region].min
      BY <2>3, <2>8, <2>9
    <3> QED
      BY <1>7, <2>2, <2>3, <2>7, <2>8, <3>1, AdviceSettles
  <2> QED
    BY <2>6, <2>9 DEF n, v
<1> QED
  BY <1>5, <1>6, <1>7

\* Sizing does not depend on the mode, unless it is one the automatic builder refuses.
LEMMA SizingIgnoresMode ==
  ASSUME NEW p \in Policy, NEW d \in Metadata, ~Randomized(p.mode)
  PROVE  Automatic(SizingBase(p), d) = Automatic(p, d)
<1> DEFINE b == SizingBase(p)
<1>1. /\ b = [p EXCEPT !.mode = "automatic"] /\ b.mode = "automatic"
      /\ b.alignment = p.alignment /\ b.gap = p.gap /\ b.totalLimit = p.totalLimit
      /\ b.regions = p.regions /\ b.heapRequest = p.heapRequest /\ b.stackRequest = p.stackRequest
  BY DEF SizingBase, Policy
<1>2. ~Randomized(b.mode)
  BY <1>1 DEF Randomized
<1>3. Sized(b, d) = Sized(p, d)
  <2> DEFINE h == Requested(d.heap, p.heapRequest)
             s == Requested(d.stack, p.stackRequest)
             z == [k \in Kinds |-> SizedTo(p, k, AlignedSize(p, d, k))]
             y == [k \in Kinds |-> SizedTo(b, k, AlignedSize(b, d, k))]
  <2>1. \A k : RawSize(b, d, k) = RawSize(p, d, k)
    BY <1>1 DEF RawSize
  <2>2. \A k : AlignedSize(b, d, k) = AlignedSize(p, d, k)
    BY <1>1, <2>1 DEF AlignedSize
  <2>3. y = z
    BY <1>1, <2>2 DEF SizedTo
  <2>4. Sized(p, d) = [p EXCEPT !.mode = "automatic", !.heapRequest = h, !.stackRequest = s, !.regions = z]
    BY DEF Sized
  <2>5. Sized(b, d) = [b EXCEPT !.mode = "automatic", !.heapRequest = h, !.stackRequest = s, !.regions = y]
    BY <1>1 DEF Sized
  <2> HIDE DEF b, y, z, h, s
  <2>6. [b EXCEPT !.mode = "automatic", !.heapRequest = h, !.stackRequest = s, !.regions = z]
          = [p EXCEPT !.mode = "automatic", !.heapRequest = h, !.stackRequest = s, !.regions = z]
    BY <1>1 DEF Policy
  <2> QED
    BY <2>3, <2>4, <2>5, <2>6
<1> HIDE DEF b
<1>4. \A k : RawSize(b, d, k) = RawSize(p, d, k)
  BY <1>1 DEF RawSize
<1>5. \A k : AlignedSize(b, d, k) = AlignedSize(p, d, k)
  BY <1>1, <1>4 DEF AlignedSize
<1>6. \A k : SizesUpTo(b, d, k) = SizesUpTo(p, d, k)
  BY <1>3 DEF SizesUpTo
<1>7. \A k : /\ RegionTooLarge(b, d, k) <=> RegionTooLarge(p, d, k)
             /\ RegionOverflows(b, d, k) <=> RegionOverflows(p, d, k)
  BY <1>1, <1>5 DEF RegionTooLarge, RegionOverflows
<1>8. RegionFaults(b, d) = RegionFaults(p, d)
  BY <1>6, <1>7 DEF RegionFaults
<1>9. \A k : RegionFault(b, d, k) = RegionFault(p, d, k)
  BY <1>1, <1>5, <1>7 DEF RegionFault
<1>10. Automatic(b, d) = Automatic(p, d)
  BY <1>1, <1>2, <1>3, <1>4, <1>5, <1>6, <1>8, <1>9 DEF Automatic
<1> QED
  BY <1>10 DEF b

-----------------------------------------------------------------------------
(* The calls. *)

LayoutInv ==
  /\ base \in BasePolicies /\ program \in Programs /\ freshSeed \in Word
  /\ BuiltLayoutsKeepTheirPromise

LEMMA InitInv == LayoutInit => LayoutInv
BY BuilderAssumption DEF LayoutInit, LayoutInv, BuiltLayoutsKeepTheirPromise, BuiltLayoutFitsProgram,
                         FreshLayoutIsReproducible, Built, Verdict

LEMMA NextInv == LayoutInv /\ [LayoutNext]_layoutVars => LayoutInv'
<1> SUFFICES ASSUME LayoutInv, [LayoutNext]_layoutVars PROVE LayoutInv'
  OBVIOUS
<1>1. base \in Policy /\ program \in Metadata /\ freshSeed \in Word
  BY BuilderAssumption DEF LayoutInv
<1>2. CASE BuildAutomatic
  <2>1. /\ outcome'.mode = "automatic" /\ outcome'.verdict = Automatic(base, program)
        /\ outcome'.verdict.status = "ok" => outcome'.policy = Sized(base, program)
        /\ UNCHANGED <<base, program, freshSeed>>
    BY <1>2 DEF BuildAutomatic
  <2>2. BuiltLayoutFitsProgram'
    <3> SUFFICES ASSUME Built'
                 PROVE  LET q == outcome'.policy IN
                        /\ \A k \in Kinds : SizeIn(q, k) >= RawSize(base, program, k)
                        /\ \A j, k \in Kinds : j < k => q.regions[j].limit + q.gap <= q.regions[k].base
                        /\ \A k \in 1 .. 4 : q.regions[k].base = base.regions[k].base
                        /\ q.regions[StackRegion].limit = base.regions[StackRegion].limit
      BY <2>1 DEF BuiltLayoutFitsProgram, SizeIn
    <3>1. Automatic(base, program).status = "ok" /\ outcome'.policy = Sized(base, program)
      BY <2>1 DEF Built
    <3> QED
      BY <1>1, <3>1, AutomaticFits, NeighboursSuffice
  <2>3. FreshLayoutIsReproducible'
    BY <2>1 DEF FreshLayoutIsReproducible
  <2> QED
    BY <2>1, <2>2, <2>3 DEF LayoutInv, BuiltLayoutsKeepTheirPromise
<1>3. ASSUME NEW mode \in {"seeded", "fresh"}, NEW seed \in Word,
             outcome' = RandomizedOutcome(base, program, mode, seed),
             UNCHANGED <<base, program>>
      PROVE  BuiltLayoutsKeepTheirPromise'
  <2>1. outcome'.mode = mode
    BY <1>3 DEF RandomizedOutcome
  <2>2. BuiltLayoutFitsProgram'
    <3> SUFFICES ASSUME Built'
                 PROVE  LET q == outcome'.policy IN
                        /\ \A k \in Kinds : SizeIn(q, k) >= RawSize(base, program, k)
                        /\ \A j, k \in Kinds : j < k => q.regions[j].limit + q.gap <= q.regions[k].base
                        /\ \A k \in Kinds : InRandomRange(q, q.regions[k])
      BY <1>3, <2>1 DEF BuiltLayoutFitsProgram, SizeIn
    <3> QED
      BY <1>1, <1>3, RandomizedFits DEF Built
  <2>3. FreshLayoutIsReproducible'
    <3> SUFFICES ASSUME Built', mode = "fresh"
                 PROVE  LET again == RandomizedOutcome(base, program, "seeded", outcome'.policy.seed) IN
                        /\ again.verdict.status = "ok"
                        /\ again.policy.regions = outcome'.policy.regions
      BY <1>3, <2>1 DEF FreshLayoutIsReproducible
    <3>1. outcome'.policy.seed = seed
      BY <1>1, <1>3, RandomizedFits DEF Built
    <3> QED
      BY <1>1, <1>3, <3>1, SameSeedSamePlace DEF Built
  <2> QED
    BY <2>2, <2>3 DEF BuiltLayoutsKeepTheirPromise
<1>4. CASE BuildSeeded
  <2>1. (IF base.hasSeed THEN base.seed ELSE 0) \in Word
    BY <1>1, LayoutAssumption DEF Policy, Word
  <2> QED
    BY <1>3, <1>4, <2>1 DEF BuildSeeded, LayoutInv
<1>5. CASE BuildFresh
  <2>1. GeneratedSeed \in Word
    BY <1>1, BuilderAssumption DEF GeneratedSeed
  <2> QED
    BY <1>1, <1>3, <1>5, <2>1 DEF BuildFresh, FreshOutcome, LayoutInv
<1>6. CASE UNCHANGED layoutVars
  BY <1>6 DEF layoutVars, LayoutInv, BuiltLayoutsKeepTheirPromise, BuiltLayoutFitsProgram,
              FreshLayoutIsReproducible, Built, SizeIn
<1> QED
  BY <1>2, <1>4, <1>5, <1>6 DEF LayoutNext

\* Whatever policies callers start from, whatever programs and seeds there are and however the
\* seeds are mixed: a layout that was built has room for its program, keeps its gaps, its fixed
\* bases or its random range, and a fresh one is built again from the seed it recorded
\* (vm_layout_build_automatic_policy, vm_layout_build_randomized_policy).
THEOREM LayoutsKeepTheirPromise == LayoutSpec => []BuiltLayoutsKeepTheirPromise
<1>1. LayoutInv => BuiltLayoutsKeepTheirPromise
  BY DEF LayoutInv
<1> QED
  BY <1>1, InitInv, NextInv, PTL DEF LayoutSpec

-----------------------------------------------------------------------------
(* Refusals. *)

Honest == base \in BasePolicies /\ program \in Programs /\ RefusalsAreHonest

\* A verdict of the sizing, in whatever mode it was asked for, quotes a limit that helps.
LEMMA SizingVerdictHonest ==
  ASSUME base \in BasePolicies, program \in Programs, UNCHANGED <<base, program>>,
         outcome'.verdict = Automatic(SizingBase(base), program)
  PROVE  QuotedLimitIsHonest'
<1>1. base \in Policy /\ program \in Metadata /\ MaximaFit(base)
  BY BuilderAssumption DEF MaximaFit
<1> DEFINE b == SizingBase(base)
           v == Automatic(b, program)
           g == v.diagnostic
           n == AlignDown(g.limit, base.alignment)
<1>2. /\ b \in Policy /\ b.regions = base.regions /\ b.alignment = base.alignment
      /\ ~Randomized(b.mode)
  BY <1>1, SizingBaseIsPolicy DEF SizingBase, Policy, Randomized
<1>3. MaximaFit(b)
  BY <1>1, <1>2 DEF MaximaFit
<1> HIDE DEF b
<1>4. ASSUME v.status = "resource-limit-exceeded", g.region \in Kinds
      PROVE  /\ g.requested > g.limit
             /\ n >= base.regions[g.region].min =>
                  LET again == Automatic(b, Shrunk(program, g.region, n))
                  IN  /\ again.diagnostic.region = g.region => again.diagnostic.limit < g.limit
                      /\ (g.region \in {Heap, StackRegion}
                            /\ g.limit < base.regions[g.region].max) => again.status = "ok"
  BY <1>1, <1>2, <1>3, <1>4, QuotesAreHonest
<1>5. SizingBase(base') = b /\ base' = base /\ program' = program /\ outcome'.verdict = v
  BY DEF b
<1> HIDE DEF v
<1> QED
  BY <1>4, <1>5 DEF QuotedLimitIsHonest

LEMMA InitHonest == LayoutInit => Honest
BY DEF LayoutInit, Honest, RefusalsAreHonest, InvalidOnlyForBadArguments, QuotedLimitIsHonest, Verdict

LEMMA NextHonest == Honest /\ LayoutInv /\ [LayoutNext]_layoutVars => Honest'
<1> SUFFICES ASSUME Honest, LayoutInv, [LayoutNext]_layoutVars PROVE Honest'
  OBVIOUS
<1>1. base \in Policy /\ program \in Metadata /\ freshSeed \in Word
  BY BuilderAssumption DEF LayoutInv
<1>2. base \in BasePolicies /\ program \in Programs
  BY DEF LayoutInv
<1>3. CASE BuildAutomatic
  <2>1. /\ outcome'.mode = "automatic" /\ outcome'.verdict = Automatic(base, program)
        /\ UNCHANGED <<base, program>>
    BY <1>3 DEF BuildAutomatic
  <2>2. InvalidOnlyForBadArguments'
    BY <1>1, <2>1, SizingRefusesForReason DEF InvalidOnlyForBadArguments
  <2>3. QuotedLimitIsHonest'
    <3>1. CASE Randomized(base.mode)
      <4>1. Automatic(base, program).status = "invalid-argument"
        BY <3>1 DEF Automatic, Verdict
      <4> QED
        BY <2>1, <4>1 DEF QuotedLimitIsHonest
    <3>2. CASE ~Randomized(base.mode)
      BY <1>1, <1>2, <2>1, <3>2, SizingIgnoresMode, SizingVerdictHonest
    <3> QED
      BY <3>1, <3>2
  <2> QED
    BY <1>2, <2>1, <2>2, <2>3 DEF Honest, RefusalsAreHonest
<1>4. ASSUME NEW mode \in {"seeded", "fresh"}, NEW seed \in Word,
             outcome' = RandomizedOutcome(base, program, mode, seed), UNCHANGED <<base, program>>
      PROVE  Honest'
  <2> DEFINE b == SizingBase(base)
             sizing == Automatic(b, program)
             q == Seeded(base, program, mode, seed)
  <2>1. /\ outcome'.mode = mode
        /\ outcome'.verdict = IF sizing.status = "ok" THEN Placement(q) ELSE sizing
    BY <1>4 DEF RandomizedOutcome
  <2>2. b \in Policy /\ b.alignment = base.alignment /\ ~Randomized(b.mode)
    BY <1>1, SizingBaseIsPolicy DEF SizingBase, Policy, Randomized
  <2>3. CASE sizing.status = "ok"
    <3>1. Placement(q).status # "resource-limit-exceeded"
      BY DEF Placement, Verdict
    <3>2. Placement(q).status = "invalid-argument"
            => base.randomMin >= base.randomLimit \/ base.gap % base.alignment # 0
      BY <1>1, <2>3, PlacementRefusesForReason
    <3>3. outcome'.verdict = Placement(q)
      BY <2>1, <2>3
    <3> HIDE DEF q
    <3>4. InvalidOnlyForBadArguments'
      BY <1>4, <2>1, <3>2, <3>3 DEF InvalidOnlyForBadArguments
    <3>5. QuotedLimitIsHonest'
      BY <3>1, <3>3 DEF QuotedLimitIsHonest
    <3> QED
      BY <1>2, <1>4, <3>4, <3>5 DEF Honest, RefusalsAreHonest
  <2>4. CASE sizing.status # "ok"
    <3>1. outcome'.verdict = sizing
      BY <2>1, <2>4
    <3>2. sizing.status = "invalid-argument" => base.alignment = 0
      BY <1>1, <2>2, SizingRefusesForReason
    <3>3. InvalidOnlyForBadArguments'
      BY <1>4, <2>1, <3>1, <3>2 DEF InvalidOnlyForBadArguments
    <3>4. QuotedLimitIsHonest'
      BY <1>2, <1>4, <3>1, SizingVerdictHonest
    <3> QED
      BY <1>2, <1>4, <3>3, <3>4 DEF Honest, RefusalsAreHonest
  <2> QED
    BY <2>3, <2>4
<1>5. CASE BuildSeeded
  <2>1. (IF base.hasSeed THEN base.seed ELSE 0) \in Word
    BY <1>1, LayoutAssumption DEF Policy, Word
  <2> QED
    BY <1>4, <1>5, <2>1 DEF BuildSeeded
<1>6. CASE BuildFresh
  <2>1. GeneratedSeed \in Word
    BY <1>1, BuilderAssumption DEF GeneratedSeed
  <2> QED
    BY <1>4, <1>6, <2>1 DEF BuildFresh, FreshOutcome
<1>7. CASE UNCHANGED layoutVars
  BY <1>7 DEF layoutVars, Honest, RefusalsAreHonest, InvalidOnlyForBadArguments, QuotedLimitIsHonest
<1> QED
  BY <1>3, <1>5, <1>6, <1>7 DEF LayoutNext

\* Whatever policies callers start from (with greatest sizes within the address space), whatever
\* programs, seeds and mixing there are: a layout is refused as an invalid argument only when an
\* argument is invalid, never by the check that ends both builders; and the limit a resource
\* diagnostic quotes is one the request exceeds and that helps when it is followed
\* (vm_layout_apply_region_size, vm_layout_check_automatic_region_order).
THEOREM RefusalsHonest == LayoutSpec => []RefusalsAreHonest
<1>1. Honest => RefusalsAreHonest
  BY DEF Honest
<1> QED
  BY <1>1, InitInv, NextInv, InitHonest, NextHonest, PTL DEF LayoutSpec

=============================================================================
