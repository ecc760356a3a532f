--------------------------- MODULE SourceRun_proofs ---------------------------
(***************************************************************************)
(* What the policies and the change rows of SourceRun promise.             *)
(***************************************************************************)
EXTENDS SourceRun, Recursion, FiniteSetTheorems

-----------------------------------------------------------------------------
(* Good machine states *)

Fields == {"mem", "esp", "ebp", "frames", "nextFrame", "entered", "proc", "depth", "count", "pending",
           "halted", "op", "delta", "made", "status"}
Procs == {"entry", "helper", "target"}

\* The regions are those of the layout.
Placed(mem) ==
  /\ DOMAIN mem = {"regions", "changes", "overflowed"} /\ DOMAIN mem.regions = Kinds
  /\ \A k \in Kinds :
       /\ DOMAIN mem.regions[k] = {"base", "size", "permissions", "bytes"}
       /\ mem.regions[k].base = run.layout.regions[k].base
       /\ mem.regions[k].size = SizeIn(run.layout, k)
       /\ mem.regions[k].permissions = Memory!Granted(k)
       /\ DOMAIN mem.regions[k].bytes = 0 .. SizeIn(run.layout, k) - 1

Statuses == {"ok", "ok-unaligned", "invalid-address", "region-boundary-crossing",
             "unsupported-code-memory-access", "permission-denied"}
Access == [kind : {"read", "write"}, address : Int, width : Nat \ {0}, status : Statuses]
\* Who may make accesses in this step: the set-up of the entry frame in the first one only.
Makers == {"none", "address", "esp", "local", "implicit"} \cup {by \in {"frame"} : EntersEntryFrame(vm)}
MadeAccess == [access : Access, by : Makers]
Frame == [id : Nat, proc : Procs, base : Int, saved : Int, locals : {run.procs[q].locals : q \in Procs}]

\* The access lies in a region that permits it, and went well.
Sound(a) ==
  /\ Memory!Succeeded(a.status)
  /\ \E k \in Kinds : /\ run.layout.regions[k].base <= a.address
                      /\ a.address + a.width <= run.layout.regions[k].limit
                      /\ a.kind \in Memory!Granted(k)

\* The delta holds the first of the accesses made.
Mirrored(x) ==
  /\ x.made \in Seq(MadeAccess) /\ x.delta \in Seq(Access)
  /\ \A k \in 1 .. Len(x.delta) : k <= Len(x.made) /\ x.delta[k] = x.made[k].access
  /\ \A k \in 1 .. Len(x.made) : k <= MaxAccesses => k <= Len(x.delta)

Good(x) ==
  /\ DOMAIN x = Fields /\ Placed(x.mem) /\ Mirrored(x)
  /\ x.esp \in Int /\ x.ebp \in Int /\ x.nextFrame \in Nat /\ x.proc \in Procs
  /\ x.frames \in Seq(Frame) /\ \A k \in 1 .. Len(x.frames) : x.frames[k].locals = run.procs[x.frames[k].proc].locals
  /\ x.status = "ok" => \A k \in 1 .. Len(x.made) : Sound(x.made[k].access)

\* What is left of it when the next instruction starts.
Ready(x) ==
  /\ DOMAIN x = Fields /\ Placed(x.mem)
  /\ x.esp \in Int /\ x.ebp \in Int /\ x.nextFrame \in Nat /\ x.proc \in Procs
  /\ x.frames \in Seq(Frame) /\ \A k \in 1 .. Len(x.frames) : x.frames[k].locals = run.procs[x.frames[k].proc].locals

\* Addresses are words.
RunTyped ==
  /\ run.layout \in Policy /\ Separated(run.layout)
  /\ \A k \in Kinds : run.layout.regions[k].base <= run.layout.regions[k].limit

-----------------------------------------------------------------------------
(* Accesses *)

\* What an access leaves alone.
SameCpu(x, y) ==
  /\ y.esp = x.esp /\ y.ebp = x.ebp /\ y.nextFrame = x.nextFrame /\ y.proc = x.proc /\ y.frames = x.frames
  /\ y.depth = x.depth /\ y.op = x.op

\* The accesses made stay, and what failed stays failed.
Grows(x, y) ==
  /\ y.status = "ok" => x.status = "ok"
  /\ Len(x.made) <= Len(y.made) /\ \A k \in 1 .. Len(x.made) : y.made[k] = x.made[k]

\* One more access was made, successfully.
MadeOne(x, y, kind, a, n, by) ==
  /\ Len(y.made) = Len(x.made) + 1
  /\ LET m == y.made[Len(x.made) + 1] IN
     m.access.kind = kind /\ m.access.address = a /\ m.access.width = n /\ m.by = by

LEMMA Places ==
  ASSUME RunTyped
  PROVE  \A k \in Kinds : run.layout.regions[k].base \in 0 .. UMax /\ run.layout.regions[k].limit \in 0 .. UMax
<1>1. run.layout.regions \in [Kinds -> RegionPolicy]
  BY DEF RunTyped, Policy
<1> QED
  BY <1>1 DEF RegionPolicy, Word

LEMMA ValidIsSound ==
  ASSUME RunTyped, NEW STATE mem, Placed(mem), NEW STATE a, a \in Int, NEW STATE n, n \in Nat \ {0}, NEW STATE kind,
         Memory!Succeeded(Memory!Validate(mem, kind, a, n, TRUE)), NEW STATE s, Memory!Succeeded(s)
  PROVE  Sound([kind |-> kind, address |-> a, width |-> n, status |-> s])
<1> DEFINE found == Memory!Containing(mem, a, n)
           k == Memory!First(found)
<1>0. Kinds = 1 .. 5 /\ Memory!Kinds = 1 .. 5
  BY DEF Kinds, Memory!Kinds
<1>1. found # {} /\ Memory!Permitted(mem.regions[k], kind)
  BY DEF Memory!Succeeded, Memory!Validate
<1>2. k \in found
  <2>1. found \subseteq Nat
    BY <1>0 DEF Memory!Containing
  <2> HIDE DEF found
  <2>2. \E j \in found : \A i \in found : j <= i
    BY <1>1, <2>1, LeastElement
  <2> QED
    BY <2>2 DEF Memory!First
<1> HIDE DEF k
<1>3. k \in Kinds /\ Memory!Holds(mem.regions[k], a, n)
  BY <1>0, <1>2 DEF Memory!Containing
<1>4. run.layout.regions[k].base \in Nat /\ run.layout.regions[k].limit \in Nat
  BY <1>3, Places, LayoutAssumption
<1>5. mem.regions[k].base = run.layout.regions[k].base /\ mem.regions[k].permissions = Memory!Granted(k)
      /\ mem.regions[k].size = run.layout.regions[k].limit - run.layout.regions[k].base
  BY <1>3 DEF Placed, SizeIn
<1> QED
  BY <1>1, <1>3, <1>4, <1>5 DEF Sound, Memory!Holds, Memory!End, Memory!Permitted

\* Neither the bytes of a region nor the recorder decide where regions lie.
LEMMA PuttingKeepsPlaces ==
  ASSUME NEW STATE mem, Placed(mem), NEW STATE k, NEW STATE a, NEW STATE s
  PROVE  Placed(Memory!Putting(mem, k, a, s))
<1> DEFINE b == [i \in DOMAIN mem.regions[k].bytes |->
                   LET j == i - (a - mem.regions[k].base) + 1
                   IN  IF j \in DOMAIN s THEN s[j] ELSE mem.regions[k].bytes[i]]
           r == [mem.regions EXCEPT ![k].bytes = b]
           y == [mem EXCEPT !.regions = r]
<1>1. Memory!Putting(mem, k, a, s) = y
  BY DEF Memory!Putting
<1>2. DOMAIN r = Kinds /\ \A j \in Kinds : /\ DOMAIN r[j] = {"base", "size", "permissions", "bytes"}
        /\ r[j].base = mem.regions[j].base /\ r[j].size = mem.regions[j].size
        /\ r[j].permissions = mem.regions[j].permissions
        /\ DOMAIN r[j].bytes = DOMAIN mem.regions[j].bytes
  BY DEF Placed
<1> HIDE DEF r
<1>3. DOMAIN y = {"regions", "changes", "overflowed"} /\ y.regions = r
  BY DEF Placed
<1> HIDE DEF y
<1> QED
  BY <1>1, <1>2, <1>3 DEF Placed

LEMMA WrittenKeepsPlaces ==
  ASSUME NEW STATE mem, Placed(mem), NEW STATE a, NEW STATE n, NEW STATE v
  PROVE  Placed(Memory!Written(mem, a, n, v, TRUE))
<1> DEFINE k == Memory!First(Memory!Containing(mem, a, n))
           z == Memory!Putting(mem, k, a, Memory!Encode(v, n))
           cs == Memory!ChangedBytes(mem.regions[k], k, a, Memory!Encode(v, n))
           y == Memory!Recording(z, cs)
<1>1. Memory!Written(mem, a, n, v, TRUE) \in {mem, y}
  BY DEF Memory!Written
<1>2. Placed(z)
  BY PuttingKeepsPlaces
<1> HIDE DEF z, cs
<1>3. Placed(y)
  <2>1. DOMAIN y = {"regions", "changes", "overflowed"} /\ y.regions = z.regions
    BY <1>2 DEF Placed, Memory!Recording
  <2> HIDE DEF y
  <2> QED
    BY <1>2, <2>1 DEF Placed
<1> HIDE DEF y
<1> QED
  BY <1>1, <1>3

LEMMA RecordedOne ==
  ASSUME RunTyped, NEW STATE x, Good(x), x.status = "ok", NEW STATE a, a \in Int, NEW STATE n, n \in Nat \ {0},
         NEW STATE kind, kind \in {"read", "write"}, NEW STATE by, by \in Makers
  PROVE  LET y == Recorded(x, kind, a, n, by) IN
         Good(y) /\ SameCpu(x, y) /\ Grows(x, y) /\ (y.status = "ok" => MadeOne(x, y, kind, a, n, by))
<1> DEFINE s == Memory!Validate(x.mem, kind, a, n, TRUE)
           access == [kind |-> kind, address |-> a, width |-> n, status |-> s]
           m == [access |-> access, by |-> by]
           y == Recorded(x, kind, a, n, by)
<1>1. s \in Statuses
  BY DEF Memory!Validate, Statuses
<1>2. access \in Access /\ m \in MadeAccess
  BY <1>1 DEF Access, MadeAccess
<1>3. Memory!Succeeded(s) => Sound(access)
  BY ValidIsSound DEF Good
<1> HIDE DEF s
<1>4. /\ DOMAIN y = Fields
      /\ y.delta = (IF Len(x.delta) < MaxAccesses THEN Append(x.delta, access) ELSE x.delta)
      /\ y.made = Append(x.made, m)
      /\ y.status = (IF Memory!Succeeded(s) THEN "ok" ELSE "memory-error")
      /\ y.mem = x.mem /\ SameCpu(x, y)
  BY DEF Good, Fields, Recorded, SameCpu, s
<1>5. m.access = access /\ m.by = by /\ access.kind = kind /\ access.address = a /\ access.width = n
  OBVIOUS
<1> HIDE DEF y, m, access
<1>6. x.made \in Seq(MadeAccess) /\ x.delta \in Seq(Access) /\ Len(x.made) \in Nat /\ Len(x.delta) \in Nat
  BY DEF Good, Mirrored
<1>7. /\ y.made \in Seq(MadeAccess) /\ Len(y.made) = Len(x.made) + 1 /\ y.made[Len(x.made) + 1] = m
      /\ \A k \in 1 .. Len(x.made) : y.made[k] = x.made[k]
  BY <1>2, <1>4, <1>6
<1>8. Mirrored(y)
  <2>1. MaxAccesses \in Nat
    BY SourceRunAssumption
  <2>2. /\ \A k \in 1 .. Len(x.delta) : k <= Len(x.made) /\ x.delta[k] = x.made[k].access
        /\ \A k \in 1 .. Len(x.made) : k <= MaxAccesses => k <= Len(x.delta)
    BY DEF Good, Mirrored
  <2>3. CASE Len(x.delta) < MaxAccesses
    <3>1. Len(x.delta) = Len(x.made)
      <4>1. Len(x.delta) <= Len(x.made)
        BY <1>6, <2>2
      <4>2. ASSUME Len(x.delta) < Len(x.made) PROVE FALSE
        <5>1. Len(x.delta) + 1 \in 1 .. Len(x.made) /\ Len(x.delta) + 1 <= MaxAccesses
          BY <1>6, <2>1, <2>3, <4>2
        <5> QED
          BY <1>6, <2>2, <5>1
      <4> QED
        BY <1>6, <4>1, <4>2
    <3>2. /\ y.delta \in Seq(Access) /\ Len(y.delta) = Len(x.delta) + 1 /\ y.delta[Len(x.delta) + 1] = access
          /\ \A k \in 1 .. Len(x.delta) : y.delta[k] = x.delta[k]
      BY <1>2, <1>4, <1>6, <2>3
    <3>3. \A k \in 1 .. Len(y.delta) : k <= Len(y.made) /\ y.delta[k] = y.made[k].access
      <4> SUFFICES ASSUME NEW k \in 1 .. Len(y.delta)
                   PROVE  k <= Len(y.made) /\ y.delta[k] = y.made[k].access
        OBVIOUS
      <4>1. CASE k \in 1 .. Len(x.delta)
        BY <1>6, <1>7, <2>2, <3>1, <3>2, <4>1
      <4>2. CASE k = Len(x.delta) + 1
        BY <1>5, <1>6, <1>7, <3>1, <3>2, <4>2
      <4> QED
        BY <1>6, <3>2, <4>1, <4>2
    <3>4. Len(y.made) = Len(y.delta)
      BY <1>7, <3>1, <3>2
    <3> QED
      BY <1>7, <3>2, <3>3, <3>4 DEF Mirrored
  <2>4. CASE Len(x.delta) >= MaxAccesses
    <3>1. y.delta = x.delta
      BY <1>4, <1>6, <2>1, <2>4
    <3>2. \A k \in 1 .. Len(y.delta) : k <= Len(y.made) /\ y.delta[k] = y.made[k].access
      <4> SUFFICES ASSUME NEW k \in 1 .. Len(x.delta)
                   PROVE  k <= Len(y.made) /\ x.delta[k] = y.made[k].access
        BY <3>1
      <4>1. k \in 1 .. Len(x.made)
        BY <1>6, <2>2
      <4> QED
        BY <1>6, <1>7, <2>2, <4>1
    <3>3. \A k \in 1 .. Len(y.made) : k <= MaxAccesses => k <= Len(y.delta)
      BY <1>6, <1>7, <2>1, <2>4, <3>1
    <3> QED
      BY <1>6, <1>7, <3>1, <3>2, <3>3 DEF Mirrored
  <2> QED
    BY <1>6, <2>1, <2>3, <2>4
<1>9. y.status = "ok" => \A k \in 1 .. Len(y.made) : Sound(y.made[k].access)
  BY <1>3, <1>4, <1>5, <1>6, <1>7 DEF Good
<1>10. Good(y)
  BY <1>4, <1>8, <1>9 DEF Good, SameCpu
<1> QED
  BY <1>4, <1>5, <1>6, <1>7, <1>10 DEF Grows, MadeOne, y

LEMMA ReadAtOne ==
  ASSUME RunTyped, NEW STATE x, Good(x), NEW STATE a, a \in Int, NEW STATE n, n \in Nat \ {0},
         NEW STATE by, by \in Makers
  PROVE  LET y == ReadAt(x, a, n, by) IN
         Good(y) /\ SameCpu(x, y) /\ Grows(x, y) /\ (y.status = "ok" => MadeOne(x, y, "read", a, n, by))
<1> DEFINE z == Recorded(x, "read", a, n, by)
           y == ReadAt(x, a, n, by)
<1>1. CASE x.status # "ok"
  <2>1. y = x
    BY <1>1 DEF ReadAt, Then, Seen, The
  <2> HIDE DEF y
  <2> QED
    BY <1>1, <2>1 DEF SameCpu, Grows, y
<1>2. CASE x.status = "ok"
  <2>1. y = z
    <3> HIDE DEF z
    <3> QED
      BY <1>2 DEF ReadAt, Then, Seen, The, z
  <2>2. Good(z) /\ SameCpu(x, z) /\ Grows(x, z) /\ (z.status = "ok" => MadeOne(x, z, "read", a, n, by))
    BY <1>2, RecordedOne
  <2> HIDE DEF z, y
  <2> QED
    BY <2>1, <2>2 DEF y
<1> QED
  BY <1>1, <1>2

LEMMA WriteAtOne ==
  ASSUME RunTyped, NEW STATE x, Good(x), NEW STATE a, a \in Int, NEW STATE n, n \in Nat \ {0},
         NEW STATE v, NEW STATE by, by \in Makers
  PROVE  LET y == WriteAt(x, a, n, v, by) IN
         Good(y) /\ SameCpu(x, y) /\ Grows(x, y) /\ (y.status = "ok" => MadeOne(x, y, "write", a, n, by))
<1> DEFINE z == Recorded(x, "write", a, n, by)
           w == Memory!Written(z.mem, a, n, v, TRUE)
           y == WriteAt(x, a, n, v, by)
<1>1. CASE x.status # "ok"
  <2>1. y = x
    BY <1>1 DEF WriteAt, Then, Seen, The
  <2> HIDE DEF y
  <2> QED
    BY <1>1, <2>1 DEF SameCpu, Grows, y
<1>2. CASE x.status = "ok"
  <2>2. Good(z) /\ SameCpu(x, z) /\ Grows(x, z) /\ (z.status = "ok" => MadeOne(x, z, "write", a, n, by))
    BY <1>2, RecordedOne
  <2>1. y = [z EXCEPT !.mem = w]
    <3> HIDE DEF z
    <3> QED
      BY <1>2 DEF WriteAt, Then, Seen, The, z
  <2> HIDE DEF z
  <2>3. Placed(w)
    BY <2>2, WrittenKeepsPlaces DEF Good
  <2> HIDE DEF w, y
  <2>4. DOMAIN y = Fields /\ y.mem = w /\ \A f \in Fields \ {"mem"} : y[f] = z[f]
    BY <2>1, <2>2 DEF Good, Fields
  <2>5. Good(y) /\ SameCpu(z, y) /\ y.status = z.status /\ y.made = z.made
    BY <2>2, <2>3, <2>4 DEF Good, Mirrored, SameCpu, Fields
  <2> QED
    BY <2>2, <2>5 DEF y, SameCpu, Grows, MadeOne
<1> QED
  BY <1>1, <1>2

-----------------------------------------------------------------------------
(* Operands *)

\* Where LOCALs lie is known.
LocalsTyped ==
  \A q \in Procs : run.procs[q].locals \in Seq([offset : Int, size : Nat]) /\ run.procs[q].size \in Nat

LEMMA FrameIsTheLast ==
  ASSUME NEW STATE x, Good(x)
  PROVE  \A f \in FrameHere(x) :
           /\ Len(x.frames) \in 1 .. Len(x.frames) /\ f = x.frames[Len(x.frames)] /\ f \in Frame
           /\ f.proc = x.proc /\ f.locals = run.procs[x.proc].locals
<1> SUFFICES ASSUME NEW f \in FrameHere(x)
             PROVE  /\ Len(x.frames) \in 1 .. Len(x.frames) /\ f = x.frames[Len(x.frames)] /\ f \in Frame
                    /\ f.proc = x.proc /\ f.locals = run.procs[x.proc].locals
  OBVIOUS
<1>1. x.frames # <<>> /\ f = x.frames[Len(x.frames)] /\ f.proc = x.proc
  BY DEF FrameHere, Last
<1>2. x.frames \in Seq(Frame) /\ \A k \in 1 .. Len(x.frames) : x.frames[k].locals = run.procs[x.frames[k].proc].locals
  BY DEF Good
<1>3. Len(x.frames) \in 1 .. Len(x.frames) /\ x.frames[Len(x.frames)] \in Frame
  BY <1>1, <1>2
<1> QED
  BY <1>1, <1>2, <1>3

LEMMA AddressesAreNumbers ==
  ASSUME RunTyped, NEW STATE x, Good(x), NEW STATE o, o \in Operand
  PROVE  Resolve(x, o) \subseteq Int
<1>1. \A f \in FrameHere(x) : f.base \in Int
  BY FrameIsTheLast DEF Frame
<1>2. UMax + 1 \in Nat \ {0}
  BY LayoutAssumption
<1>3. o.address \in Int /\ o.disp \in Int /\ x.esp \in Int
  BY DEF Operand, Good
<1>4. (x.esp + o.disp) % (UMax + 1) \in Int
  BY <1>2, <1>3, DivModBasics
<1> QED
  BY <1>1, <1>3, <1>4 DEF Resolve

\* An operand in memory makes an access where it is; another makes none.
MadeAt(x, y, kind, o, n) ==
  IF InMemory(o) THEN \E a \in Resolve(x, o) : MadeOne(x, y, kind, a, n, o.kind)
                 ELSE Len(y.made) = Len(x.made)

LEMMA ReadMakes ==
  ASSUME RunTyped, NEW STATE x, Good(x), NEW STATE o, o \in Operand, NEW STATE n, n \in Nat \ {0}
  PROVE  LET y == Read(x, o, n) IN
         Good(y) /\ SameCpu(x, y) /\ Grows(x, y) /\ (y.status = "ok" => MadeAt(x, y, "read", o, n))
<1> DEFINE a == The(Resolve(x, o))
           z == ReadAt(x, a, n, o.kind)
           u == Fail(x, "local-operand-no-active-frame")
           y == Read(x, o, n)
<1>1. y = IF x.status # "ok" \/ ~InMemory(o) THEN x ELSE IF Resolve(x, o) = {} THEN u ELSE z
  <2> HIDE DEF z
  <2> QED
    BY DEF Read, AtOperand, Then, Seen, The, z
<1> HIDE DEF y
<1>2. CASE y = x /\ (x.status = "ok" => ~InMemory(o))
  BY <1>2 DEF SameCpu, Grows, MadeAt, y
<1>3. CASE y = u
  <2>1. DOMAIN u = Fields /\ u.status # "ok" /\ \A f \in Fields \ {"status"} : u[f] = x[f]
    BY DEF Good, Fail, Fields
  <2> HIDE DEF u
  <2>2. Good(u) /\ SameCpu(x, u) /\ Grows(x, u)
    BY <2>1 DEF Good, Mirrored, SameCpu, Grows, Fields
  <2> QED
    BY <1>3, <2>1, <2>2 DEF y
<1>4. CASE y = z /\ InMemory(o) /\ Resolve(x, o) # {}
  <2>1. a \in Resolve(x, o) /\ a \in Int /\ o.kind \in Makers
    <3>1. a \in Resolve(x, o)
      BY <1>4 DEF The
    <3>2. Resolve(x, o) \subseteq Int
      BY AddressesAreNumbers
    <3>3. o.kind \in Makers
      BY DEF Operand, Makers
    <3> QED
      BY <3>1, <3>2, <3>3
  <2> HIDE DEF a
  <2>2. Good(z) /\ SameCpu(x, z) /\ Grows(x, z) /\ (z.status = "ok" => MadeOne(x, z, "read", a, n, o.kind))
    BY <2>1, ReadAtOne
  <2> HIDE DEF z
  <2> QED
    BY <1>4, <2>1, <2>2 DEF y, MadeAt
<1> QED
  BY <1>1, <1>2, <1>3, <1>4

LEMMA WriteMakes ==
  ASSUME RunTyped, NEW STATE x, Good(x), NEW STATE o, o \in Operand, NEW STATE n, n \in Nat \ {0}, NEW STATE v
  PROVE  LET y == Write(x, o, n, v) IN
         Good(y) /\ SameCpu(x, y) /\ Grows(x, y) /\ (y.status = "ok" => MadeAt(x, y, "write", o, n))
<1> DEFINE a == The(Resolve(x, o))
           z == WriteAt(x, a, n, v, o.kind)
           u == Fail(x, "local-operand-no-active-frame")
           y == Write(x, o, n, v)
<1>1. y = IF x.status # "ok" \/ ~InMemory(o) THEN x ELSE IF Resolve(x, o) = {} THEN u ELSE z
  <2> HIDE DEF z
  <2> QED
    BY DEF Write, AtOperand, Then, Seen, The, z
<1> HIDE DEF y
<1>2. CASE y = x /\ (x.status = "ok" => ~InMemory(o))
  BY <1>2 DEF SameCpu, Grows, MadeAt, y
<1>3. CASE y = u
  <2>1. DOMAIN u = Fields /\ u.status # "ok" /\ \A f \in Fields \ {"status"} : u[f] = x[f]
    BY DEF Good, Fail, Fields
  <2> HIDE DEF u
  <2>2. Good(u) /\ SameCpu(x, u) /\ Grows(x, u)
    BY <2>1 DEF Good, Mirrored, SameCpu, Grows, Fields
  <2> QED
    BY <1>3, <2>1, <2>2 DEF y
<1>4. CASE y = z /\ InMemory(o) /\ Resolve(x, o) # {}
  <2>1. a \in Resolve(x, o) /\ a \in Int /\ o.kind \in Makers
    <3>1. a \in Resolve(x, o)
      BY <1>4 DEF The
    <3>2. Resolve(x, o) \subseteq Int
      BY AddressesAreNumbers
    <3>3. o.kind \in Makers
      BY DEF Operand, Makers
    <3> QED
      BY <3>1, <3>2, <3>3
  <2> HIDE DEF a
  <2>2. Good(z) /\ SameCpu(x, z) /\ Grows(x, z) /\ (z.status = "ok" => MadeOne(x, z, "write", a, n, o.kind))
    BY <2>1, WriteAtOne
  <2> HIDE DEF z
  <2> QED
    BY <1>4, <2>1, <2>2 DEF y, MadeAt
<1> QED
  BY <1>1, <1>2, <1>3, <1>4

-----------------------------------------------------------------------------
(* The stack *)

LEMMA Lengths ==
  ASSUME NEW STATE x, Good(x)
  PROVE  Len(x.made) \in Nat /\ Len(x.delta) \in Nat /\ Len(x.frames) \in Nat
<1>1. x.made \in Seq(MadeAccess) /\ x.delta \in Seq(Access) /\ x.frames \in Seq(Frame)
  BY DEF Good, Mirrored
<1> QED
  BY <1>1

LEMMA GrowsOn ==
  ASSUME NEW STATE x, NEW STATE y, NEW STATE z, Good(x), Good(y), Good(z), Grows(x, y), Grows(y, z)
  PROVE  Grows(x, z)
<1>1. Len(x.made) \in Nat /\ Len(y.made) \in Nat /\ Len(z.made) \in Nat
  BY Lengths
<1>2. Len(x.made) <= Len(y.made) /\ Len(y.made) <= Len(z.made)
  BY DEF Grows
<1>3. ASSUME NEW k \in 1 .. Len(x.made) PROVE z.made[k] = x.made[k]
  <2>1. k \in 1 .. Len(y.made)
    BY <1>1, <1>2
  <2> QED
    BY <2>1 DEF Grows
<1> QED
  BY <1>1, <1>2, <1>3 DEF Grows

\* What a push leaves alone.
SameFrames(x, y) ==
  /\ y.ebp = x.ebp /\ y.nextFrame = x.nextFrame /\ y.proc = x.proc /\ y.frames = x.frames
  /\ y.depth = x.depth /\ y.op = x.op

LEMMA SlotIsPositive == Slot \in Nat \ {0} /\ UMax \in Nat \ {0}
BY SourceRunAssumption, LayoutAssumption

LEMMA WordsBelow ==
  ASSUME NEW STATE a, a \in Int, NEW STATE n, n \in Int
  PROVE  Below(a, n) \in 0 .. UMax /\ (a - n \in 0 .. UMax => Below(a, n) = a - n)
<1> DEFINE d == a - n
<1>1. d \in Int /\ UMax + 1 \in Int /\ UMax + 1 > 0 /\ UMax \in Nat
  BY SlotIsPositive
<1> HIDE DEF d
<1>2. d % (UMax + 1) \in 0 .. UMax
  <2>1. d % (UMax + 1) \in 0 .. (UMax + 1) - 1
    BY <1>1, DivModBasics
  <2> QED
    BY <1>1, <2>1
<1>3. ASSUME d \in 0 .. UMax PROVE d % (UMax + 1) = d
  <2>1. d \in 0 .. (UMax + 1) - 1 /\ d = (UMax + 1) * 0 + d
    BY <1>1, <1>3
  <2> QED
    BY <1>1, <2>1, DivModUnique
<1> QED
  BY <1>2, <1>3 DEF Below, d

LEMMA PushMakes ==
  ASSUME RunTyped, NEW STATE x, Good(x), NEW STATE v, NEW STATE by, by \in Makers
  PROVE  LET y == Push(x, v, by) IN
         /\ Good(y) /\ SameFrames(x, y) /\ Grows(x, y)
         /\ y.status = "ok" => y.esp = Below(x.esp, Slot) /\ MadeOne(x, y, "write", Below(x.esp, Slot), Slot, by)
<1> DEFINE a == Below(x.esp, Slot)
           z == WriteAt(x, a, Slot, v, by)
           e == Below(z.esp, Slot)
           y == Push(x, v, by)
<1>1. y = IF x.status # "ok" THEN x ELSE IF z.status # "ok" THEN z ELSE [z EXCEPT !.esp = e]
  <2> HIDE DEF z
  <2> QED
    BY DEF Push, Then, Seen, The, z
<1> HIDE DEF y
<1>2. CASE x.status # "ok"
  BY <1>1, <1>2 DEF SameFrames, Grows, y
<1>3. CASE x.status = "ok"
  <2>1. a \in Int /\ x.esp \in Int
    BY WordsBelow, SlotIsPositive DEF Good
  <2>2. Good(z) /\ SameCpu(x, z) /\ Grows(x, z) /\ (z.status = "ok" => MadeOne(x, z, "write", a, Slot, by))
    <3> HIDE DEF a, z
    <3> QED
      BY <2>1, SlotIsPositive, WriteAtOne DEF z
  <2>3. e = a /\ SameFrames(x, z)
    BY <2>2 DEF SameCpu, SameFrames
  <2> HIDE DEF a, z, e
  <2>4. CASE z.status # "ok"
    BY <1>1, <1>3, <2>2, <2>3, <2>4 DEF y
  <2>5. CASE z.status = "ok"
    <3>1. y = [z EXCEPT !.esp = e]
      BY <1>1, <1>3, <2>5
    <3>2. DOMAIN y = Fields /\ y.esp = e /\ \A f \in Fields \ {"esp"} : y[f] = z[f]
      BY <2>2, <3>1 DEF Good, Fields
    <3>3. Good(y) /\ SameFrames(z, y) /\ y.status = z.status /\ y.made = z.made
      BY <2>1, <2>2, <2>3, <3>2 DEF Good, Mirrored, SameFrames, Fields
    <3> QED
      BY <2>2, <2>3, <2>5, <3>2, <3>3 DEF y, a, SameFrames, Grows, MadeOne
  <2> QED
    BY <2>4, <2>5
<1> QED
  BY <1>2, <1>3

-----------------------------------------------------------------------------
(* LOCAL frames *)

\* The accesses behind those of x are writes of single bytes below the frame base.
Zeroing(x, y, k, by) ==
  /\ Len(y.made) = Len(x.made) + k
  /\ \A j \in 1 .. k : LET m == y.made[Len(x.made) + j] IN
       m.access.kind = "write" /\ m.access.address = Below(x.ebp, j) /\ m.access.width = 1 /\ m.by = by

LEMMA Behind ==
  ASSUME NEW STATE a, a \in Int, NEW STATE n, n \in Int, NEW STATE j, j \in Int, a < j, j <= a + n
  PROVE  j - a \in 1 .. n /\ j = a + (j - a)
OBVIOUS

LEMMA OneMore ==
  ASSUME NEW STATE p, p \in Int, NEW STATE q, q \in Int
  PROVE  p + (q + 1) = (p + q) + 1
OBVIOUS

LEMMA ZeroedMakes ==
  ASSUME RunTyped, NEW STATE x, Good(x), NEW STATE n, n \in Nat, NEW STATE by, by \in Makers
  PROVE  LET y == Zeroed(x, n, by) IN
         Good(y) /\ SameCpu(x, y) /\ Grows(x, y) /\ (y.status = "ok" => Zeroing(x, y, n, by))
<1> DEFINE Next1(y, k) == WriteAt(y, Below(x.ebp, k), 1, 0, by)
           Solves(f, k) == f = [m \in 0 .. k |-> IF m = 0 THEN x ELSE Next1(f[m - 1], m)]
           zero == CHOOSE f : Solves(f, n)
           y == Zeroed(x, n, by)
<1>1. y = IF x.status # "ok" THEN x ELSE zero[n]
  BY DEF Zeroed, Then, Seen, The
<1>2. CASE x.status # "ok"
  <2> HIDE DEF y, zero
  <2> QED
    BY <1>1, <1>2 DEF SameCpu, Grows, y
<1>3. CASE x.status = "ok"
  <2>1. Solves(zero, n)
    <3> DEFINE S == {k \in 0 .. n : \E f : Solves(f, k)}
    <3> HIDE DEF Next1
    <3>1. 0 \in S
      <4>1. Solves([m \in 0 .. 0 |-> x], 0)
        OBVIOUS
      <4>2. \E f : Solves(f, 0)
        BY <4>1
      <4> HIDE DEF Solves
      <4> QED
        BY <4>2
    <3>2. ASSUME NEW k \in 0 .. n - 1, k \in S
          PROVE  k + 1 \in S
      <4>1. PICK f : Solves(f, k)
        BY <3>2
      <4> DEFINE g == [m \in 0 .. k + 1 |-> IF m = k + 1 THEN Next1(f[k], k + 1) ELSE f[m]]
      <4>2. Solves(g, k + 1)
        BY <4>1
      <4>3. \E e : Solves(e, k + 1)
        BY <4>2
      <4> HIDE DEF Solves
      <4> QED
        BY <4>3
    <3>3. n \in S
      <4> HIDE DEF S
      <4>1. \A k \in 0 .. n : k \in S
        BY <3>1, <3>2, Induction
      <4> QED
        BY <4>1
    <3> HIDE DEF Solves
    <3> QED
      BY <3>3
  <2> HIDE DEF zero
  <2>2. zero[0] = x /\ \A k \in 1 .. n : zero[k] = Next1(zero[k - 1], k)
    <3> HIDE DEF Next1
    <3> QED
      BY <2>1
  <2> DEFINE P(z, k) == Good(z) /\ SameCpu(x, z) /\ Grows(x, z) /\ (z.status = "ok" => Zeroing(x, z, k, by))
             S == {k \in 0 .. n : P(zero[k], k)}
  <2>3. 0 \in S
    <3>1. P(x, 0)
      BY DEF SameCpu, Grows, Zeroing, Good, Mirrored
    <3> HIDE DEF P
    <3> QED
      BY <2>2, <3>1
  <2>4. ASSUME NEW k \in 0 .. n - 1, k \in S
        PROVE  k + 1 \in S
    <3> DEFINE z == zero[k]
               w == zero[k + 1]
               a == Below(x.ebp, k + 1)
    <3>1. P(z, k) /\ w = WriteAt(z, a, 1, 0, by)
      BY <2>2, <2>4
    <3> HIDE DEF z, w
    <3>2. a \in Int
      BY WordsBelow DEF Good
    <3> HIDE DEF a
    <3>3. Good(w) /\ SameCpu(z, w) /\ Grows(z, w) /\ (w.status = "ok" => MadeOne(z, w, "write", a, 1, by))
      BY <3>1, <3>2, WriteAtOne
    <3>4. SameCpu(x, w) /\ Grows(x, w)
      BY <3>1, <3>3, GrowsOn DEF SameCpu
    <3>5. ASSUME w.status = "ok" PROVE Zeroing(x, w, k + 1, by)
      <4>1. Zeroing(x, z, k, by) /\ MadeOne(z, w, "write", a, 1, by)
        BY <3>1, <3>3, <3>5 DEF Grows
      <4>2. Len(x.made) \in Nat /\ Len(z.made) \in Nat /\ Len(w.made) \in Nat
        BY <3>1, <3>3, Lengths
      <4>3. Len(z.made) = Len(x.made) + k /\ Len(w.made) = Len(x.made) + (k + 1)
        <5>1. Len(z.made) = Len(x.made) + k
          BY <4>1 DEF Zeroing
        <5>2. Len(w.made) = Len(z.made) + 1
          BY <4>1 DEF MadeOne
        <5>3. k \in Int /\ Len(x.made) \in Int
          BY <4>2
        <5>4. Len(x.made) + (k + 1) = (Len(x.made) + k) + 1
          BY <5>3, OneMore
        <5> QED
          BY <5>1, <5>2, <5>4
      <4>4. \A j \in 1 .. k : w.made[Len(x.made) + j] = z.made[Len(x.made) + j]
        BY <3>3, <4>2, <4>3 DEF Grows
      <4>5. \A j \in 1 .. k + 1 : LET m == w.made[Len(x.made) + j] IN
              m.access.kind = "write" /\ m.access.address = Below(x.ebp, j) /\ m.access.width = 1 /\ m.by = by
        <5> SUFFICES ASSUME NEW j \in 1 .. k + 1
                     PROVE  LET m == w.made[Len(x.made) + j] IN
                            m.access.kind = "write" /\ m.access.address = Below(x.ebp, j) /\ m.access.width = 1 /\ m.by = by
          OBVIOUS
        <5>1. CASE j = k + 1
          BY <4>1, <4>2, <4>3, <5>1 DEF MadeOne, a
        <5>2. CASE j \in 1 .. k
          BY <4>1, <4>4, <5>2 DEF Zeroing
        <5> QED
          BY <5>1, <5>2
      <4> QED
        BY <4>3, <4>5 DEF Zeroing
    <3>6. P(w, k + 1)
      BY <3>3, <3>4, <3>5
    <3> HIDE DEF P
    <3> QED
      BY <3>6 DEF w
  <2>5. n \in S
    <3> HIDE DEF S
    <3>1. \A k \in 0 .. n : k \in S
      BY <2>3, <2>4, Induction
    <3> QED
      BY <3>1
  <2>6. P(zero[n], n)
    BY <2>5
  <2> HIDE DEF y
  <2> QED
    BY <1>1, <1>3, <2>6 DEF y
<1> QED
  BY <1>2, <1>3

\* Regions lie one behind the other.
LEMMA InOrder ==
  ASSUME RunTyped
  PROVE  \A i, j \in Kinds : i < j => run.layout.regions[i].limit <= run.layout.regions[j].base
<1> DEFINE b(j) == run.layout.regions[j].base
           l(j) == run.layout.regions[j].limit
<1>1. Kinds = 1 .. 5 /\ \A j \in 1 .. 5 : b(j) \in Int /\ l(j) \in Int /\ b(j) <= l(j)
  <2>1. \A j \in Kinds : b(j) <= l(j)
    BY DEF RunTyped
  <2> QED
    BY <2>1, Places, LayoutAssumption DEF Kinds
<1>2. \A j \in 1 .. 4 : l(j) <= b(j + 1)
  <2>1. run.layout.gap \in Nat
    <3>1. run.layout.gap \in Word
      BY DEF RunTyped, Policy
    <3> QED
      BY <3>1, SlotIsPositive DEF Word
  <2>2. \A j \in 1 .. 4 : l(j) + run.layout.gap <= b(j + 1)
    BY DEF RunTyped, Separated
  <2> QED
    BY <1>1, <2>1, <2>2
<1>3. \A i, j \in 1 .. 5 : i < j => l(i) <= b(j)
  BY <1>1, <1>2
<1> QED
  BY <1>1, <1>3

\* Each address lies in one region at most.
LEMMA HolderIs ==
  ASSUME RunTyped, NEW STATE k, k \in Kinds, NEW STATE a, a \in Int,
         run.layout.regions[k].base <= a, a < run.layout.regions[k].limit
  PROVE  Holder(a) = {k}
<1> DEFINE b(j) == run.layout.regions[j].base
           l(j) == run.layout.regions[j].limit
<1>1. \A j \in Kinds : b(j) \in Int /\ l(j) \in Int
  BY Places, LayoutAssumption
<1>2. Kinds = 1 .. 5
  BY DEF Kinds
<1>3. \A i, j \in Kinds : i < j => l(i) <= b(j)
  BY InOrder
<1>4. ASSUME NEW j \in Kinds, b(j) <= a, a < l(j)
      PROVE  j = k
  BY <1>1, <1>2, <1>3, <1>4
<1> QED
  BY <1>4 DEF Holder

\* The bytes below ESP that may be reserved lie on the stack.
LEMMA ReservedIsStack ==
  ASSUME RunTyped, NEW STATE x, x.esp \in Int, NEW STATE n, n \in Nat, CanReserve(x, n),
         NEW STATE d, d \in 1 .. n, NEW STATE w, w \in 1 .. d
  PROVE  Below(x.esp, d) = x.esp - d /\ OnStack(x.esp - d, w)
<1> DEFINE e == x.esp
           b == run.layout.regions[StackRegion].base
           l == run.layout.regions[StackRegion].limit
           a == e - d
<1>1. StackRegion \in Kinds /\ b \in 0 .. UMax /\ l \in 0 .. UMax /\ UMax \in Nat
  BY Places, LayoutAssumption DEF Kinds, StackRegion
<1>2. e \in Int /\ e <= l /\ b <= e - n
  BY DEF CanReserve, Stack
<1>3. n \in Nat /\ d \in 1 .. n /\ w \in 1 .. d
  OBVIOUS
<1> HIDE DEF b, l, e
<1>4. a \in Int /\ b <= a /\ a < l /\ a + w - 1 < l /\ a \in 0 .. UMax
  BY <1>1, <1>2, <1>3
<1>5. Below(e, d) = a
  BY <1>2, <1>3, <1>4, WordsBelow
<1> HIDE DEF a
<1>6. Holder(a) = {StackRegion}
  BY <1>1, <1>4, HolderIs DEF b, l
<1> QED
  BY <1>4, <1>5, <1>6 DEF OnStack, a, l, e

LEMMA ForgettingKeepsPlaces ==
  ASSUME NEW STATE mem, Placed(mem)
  PROVE  Placed(Forgetting(mem))
<1> DEFINE y == Forgetting(mem)
<1>1. DOMAIN y = {"regions", "changes", "overflowed"} /\ y.regions = mem.regions
  BY DEF Placed, Forgetting
<1> HIDE DEF y
<1>2. Placed(y)
  BY <1>1 DEF Placed
<1> QED
  BY <1>2 DEF y

\* No operand made the access.
Unnamed == {"implicit", "frame"}

\* The accesses of y behind the first k are writes to the stack no operand names, of single bytes
\* but for the first n.
OnlyStack(y, k, n) ==
  \A j \in k + 1 .. Len(y.made) : LET a == y.made[j].access IN
     OnStack(a.address, a.width) /\ (j > n => a.width = 1) /\ y.made[j].by \in Unnamed

LEMMA FrameMakes ==
  ASSUME RunTyped, LocalsTyped, NEW STATE x, Good(x), NEW STATE proc, proc \in Procs,
         NEW STATE by, by \in Makers, by \in Unnamed
  PROVE  LET y == SetupFrame(x, proc, by) IN
         /\ Good(y) /\ Grows(x, y) /\ y.proc = x.proc /\ y.depth = x.depth /\ y.op = x.op
         /\ y.status = "ok" => /\ Len(y.made) >= Len(x.made) + 1 /\ OnlyStack(y, Len(x.made), Len(x.made) + 1)
<1> DEFINE n == run.procs[proc].size
           p == Push(x, x.ebp, by)
           r == [p EXCEPT !.ebp = p.esp, !.esp = p.esp - n]
           r2 == Reserved(x, n, by)
           z == Zeroed(r2, n, by)
           fr == [id |-> x.nextFrame, proc |-> proc, base |-> Below(x.esp, Slot), saved |-> x.ebp,
                  locals |-> run.procs[proc].locals]
           w == [z EXCEPT !.frames = Append(z.frames, fr), !.nextFrame = z.nextFrame + 1, !.mem = Forgetting(z.mem)]
           bad1 == Fail(x, "invalid-frame-state")
           bad2 == Fail(x, "stack-overflow")
           y == SetupFrame(x, proc, by)
<1>1. y = IF x.status # "ok" THEN x
          ELSE IF Len(x.frames) >= FrameCapacity THEN bad1
          ELSE IF ~CanReserve(x, n + Slot) THEN bad2
          ELSE IF z.status # "ok" THEN z ELSE w
  <2> HIDE DEF z
  <2> QED
    BY DEF SetupFrame, Then, Seen, The, z
<1> HIDE DEF y
<1>2. CASE x.status # "ok"
  BY <1>1, <1>2 DEF Grows, y
<1>3. CASE y \in {bad1, bad2}
  <2>1. DOMAIN y = Fields /\ y.status # "ok" /\ \A f \in Fields \ {"status"} : y[f] = x[f]
    BY <1>3 DEF Good, Fail, Fields
  <2>2. Good(y) /\ Grows(x, y)
    BY <2>1 DEF Good, Mirrored, Grows, Fields
  <2> QED
    BY <2>1, <2>2 DEF y, Fields
<1>4. CASE x.status = "ok" /\ CanReserve(x, n + Slot) /\ y = IF z.status # "ok" THEN z ELSE w
  <2>1. n \in Nat /\ x.ebp \in Int /\ x.esp \in Int /\ Slot \in Nat \ {0} /\ Below(x.esp, Slot) \in Int
    BY WordsBelow, SlotIsPositive DEF LocalsTyped, Good
  <2>2. /\ Good(p) /\ SameFrames(x, p) /\ Grows(x, p)
        /\ p.status = "ok" => p.esp = Below(x.esp, Slot) /\ MadeOne(x, p, "write", Below(x.esp, Slot), Slot, by)
    BY PushMakes
  <2>0. r2 = IF p.status # "ok" THEN p ELSE r
    <3> HIDE DEF p
    <3> QED
      BY DEF Reserved, Then, Seen, The, p
  <2> HIDE DEF p, r2
  <2>3. p.esp \in Int
    BY <2>2 DEF Good
  <2>4. DOMAIN r = Fields /\ r.ebp = p.esp /\ r.esp = p.esp - n /\ \A f \in Fields \ {"ebp", "esp"} : r[f] = p[f]
    BY <2>2 DEF Good, Fields
  <2> HIDE DEF r, n
  <2>5. Good(r) /\ Grows(p, r) /\ r.made = p.made /\ r.status = p.status
    <3>1. r.mem = p.mem /\ r.made = p.made /\ r.delta = p.delta /\ r.nextFrame = p.nextFrame /\ r.proc = p.proc
          /\ r.frames = p.frames /\ r.status = p.status
      BY <2>4 DEF Fields
    <3>2. p.esp - n \in Int
      BY <2>1, <2>3
    <3> QED
      BY <2>2, <2>3, <2>4, <3>1, <3>2 DEF Good, Mirrored, Grows
  <2>6. Good(r2) /\ Grows(p, r2) /\ r2.made = p.made /\ r2.status = p.status
        /\ r2.nextFrame = x.nextFrame /\ r2.proc = x.proc /\ r2.frames = x.frames /\ r2.depth = x.depth /\ r2.op = x.op
        /\ (r2.status = "ok" => r2.ebp = Below(x.esp, Slot))
    BY <2>0, <2>2, <2>4, <2>5 DEF Grows, SameFrames, Fields
  <2>7. Good(z) /\ SameCpu(r2, z) /\ Grows(r2, z) /\ (z.status = "ok" => Zeroing(r2, z, n, by))
    BY <2>1, <2>6, ZeroedMakes
  <2> HIDE DEF z
  <2>8. Grows(x, z)
    BY <2>2, <2>6, <2>7, GrowsOn
  <2>9. fr \in Frame /\ fr.proc = proc /\ fr.locals = run.procs[proc].locals
    BY <2>1 DEF Frame, Good
  <2> HIDE DEF fr
  <2>10. /\ DOMAIN w = Fields /\ w.frames = Append(z.frames, fr) /\ w.nextFrame = z.nextFrame + 1
         /\ w.mem = Forgetting(z.mem) /\ \A f \in Fields \ {"frames", "nextFrame", "mem"} : w[f] = z[f]
    BY <2>7 DEF Good, Fields
  <2> HIDE DEF w
  <2>11. Good(w) /\ Grows(z, w) /\ w.made = z.made /\ w.status = z.status
    <3>1. Placed(w.mem)
      BY <2>7, <2>10, ForgettingKeepsPlaces DEF Good
    <3>2. w.frames \in Seq(Frame) /\ \A k \in 1 .. Len(w.frames) : w.frames[k].locals = run.procs[w.frames[k].proc].locals
      <4>1. z.frames \in Seq(Frame) /\ \A k \in 1 .. Len(z.frames) : z.frames[k].locals = run.procs[z.frames[k].proc].locals
        BY <2>7 DEF Good
      <4> QED
        BY <2>9, <2>10, <4>1
    <3>3. w.nextFrame \in Nat
      BY <2>7, <2>10 DEF Good
    <3>4. w.made = z.made /\ w.delta = z.delta /\ w.esp = z.esp /\ w.ebp = z.ebp /\ w.proc = z.proc
          /\ w.status = z.status
      BY <2>10 DEF Fields
    <3>5. Mirrored(w)
      BY <2>7, <3>4 DEF Good, Mirrored
    <3>6. Good(w)
      BY <2>7, <2>10, <3>1, <3>2, <3>3, <3>4, <3>5 DEF Good
    <3>7. Grows(z, w)
      BY <2>7, <3>4, Lengths DEF Grows
    <3> QED
      BY <3>4, <3>6, <3>7
  <2>12. y \in {z, w} /\ y.made = z.made /\ y.status = z.status /\ Good(y) /\ Grows(x, y)
         /\ y.proc = x.proc /\ y.depth = x.depth /\ y.op = x.op
    <3>1. Grows(x, w)
      BY <2>7, <2>8, <2>11, GrowsOn
    <3>2. z.proc = x.proc /\ z.depth = x.depth /\ z.op = x.op
      BY <2>6, <2>7 DEF SameCpu
    <3> QED
      BY <1>4, <2>7, <2>8, <2>10, <2>11, <3>1, <3>2 DEF Fields
  <2>13. ASSUME z.status = "ok"
         PROVE  Len(z.made) >= Len(x.made) + 1 /\ OnlyStack(z, Len(x.made), Len(x.made) + 1)
    <3>1. p.status = "ok" /\ r2.ebp = Below(x.esp, Slot) /\ MadeOne(x, p, "write", Below(x.esp, Slot), Slot, by)
          /\ Zeroing(r2, z, n, by)
      BY <2>2, <2>6, <2>7, <2>13 DEF Grows
    <3>2. Len(x.made) \in Nat /\ Len(p.made) \in Nat /\ Len(z.made) \in Nat /\ n \in Nat
      BY <2>1, <2>2, <2>7, Lengths
    <3>3. Len(p.made) = Len(x.made) + 1 /\ Len(z.made) = Len(p.made) + n
      BY <2>6, <3>1 DEF MadeOne, Zeroing
    <3>4. Below(x.esp, Slot) = x.esp - Slot /\ OnStack(x.esp - Slot, Slot)
      <4>1. n + Slot \in Nat /\ Slot \in 1 .. n + Slot /\ Slot \in 1 .. Slot
        BY <2>1
      <4> QED
        BY <1>4, <2>1, <4>1, ReservedIsStack
    <3>5. ASSUME NEW j \in 1 .. n
          PROVE  OnStack(Below(r2.ebp, j), 1)
      <4>1. n + Slot \in Nat /\ j + Slot \in 1 .. n + Slot /\ 1 \in 1 .. j + Slot
            /\ x.esp - (j + Slot) = (x.esp - Slot) - j
        BY <2>1
      <4>2. Below(x.esp, j + Slot) = x.esp - (j + Slot) /\ OnStack(x.esp - (j + Slot), 1)
        BY <1>4, <2>1, <4>1, ReservedIsStack
      <4>3. Below(x.esp - Slot, j) = Below(x.esp, j + Slot)
        BY <4>1 DEF Below
      <4> QED
        BY <3>1, <3>4, <4>2, <4>3
    <3>6. ASSUME NEW j \in Len(x.made) + 1 .. Len(z.made)
          PROVE  LET a == z.made[j].access IN
                 OnStack(a.address, a.width) /\ (j > Len(x.made) + 1 => a.width = 1) /\ z.made[j].by \in Unnamed
      <4>1. CASE j = Len(x.made) + 1
        <5>1. j \in 1 .. Len(r2.made) /\ z.made[j] = p.made[j]
          BY <2>6, <2>7, <3>2, <3>3, <4>1 DEF Grows
        <5>2. z.made[j].access.address = x.esp - Slot /\ z.made[j].access.width = Slot /\ z.made[j].by = by
          BY <3>1, <3>4, <4>1, <5>1 DEF MadeOne
        <5>3. ~(j > Len(x.made) + 1)
          BY <3>2, <4>1
        <5> QED
          BY <3>4, <5>2, <5>3
      <4>2. CASE j > Len(x.made) + 1
        <5> DEFINE i == j - Len(p.made)
        <5>1. i \in 1 .. n /\ j = Len(r2.made) + i
          <6>1. j \in Int /\ Len(x.made) + 1 < j /\ j <= Len(z.made)
            BY <3>2, <4>2
          <6>2. r2.made = p.made
            BY <2>6
          <6>3. j <= Len(p.made) + n
            BY <3>3, <6>1
          <6>4. Len(p.made) < j
            BY <3>3, <6>1
          <6>5. i \in 1 .. n /\ j = Len(p.made) + i
            <7>1. Len(p.made) \in Int /\ n \in Int
              BY <3>2
            <7> QED
              BY <6>1, <6>3, <6>4, <7>1, Behind
          <6> QED
            BY <6>2, <6>5
        <5> HIDE DEF i
        <5>2. z.made[j].access.address = Below(r2.ebp, i) /\ z.made[j].access.width = 1 /\ z.made[j].by = by
          BY <3>1, <5>1 DEF Zeroing
        <5> QED
          BY <3>5, <5>1, <5>2
      <4> QED
        BY <3>2, <4>1, <4>2
    <3> QED
      BY <3>2, <3>3, <3>6 DEF OnlyStack
  <2> QED
    BY <2>12, <2>13 DEF OnlyStack, y
<1> QED
  BY <1>1, <1>2, <1>3, <1>4

-----------------------------------------------------------------------------
(* Procedures *)

\* Registers, frames and a failure do not undo accesses.
LEMMA StaysGood ==
  ASSUME NEW STATE x, Good(x), NEW STATE y, DOMAIN y = Fields, Placed(y.mem), y.made = x.made, y.delta = x.delta,
         y.status = x.status \/ y.status # "ok", y.esp \in Int, y.ebp \in Int, y.nextFrame \in Nat, y.proc \in Procs,
         y.frames \in Seq(Frame), \A k \in 1 .. Len(y.frames) : y.frames[k].locals = run.procs[y.frames[k].proc].locals
  PROVE  Good(y) /\ Grows(x, y)
<1>1. Good(y)
  BY DEF Good, Mirrored
<1>2. Grows(x, y)
  BY Lengths DEF Grows
<1> QED
  BY <1>1, <1>2

LEMMA FailureIsGood ==
  ASSUME NEW STATE x, Good(x), NEW STATE s, s # "ok"
  PROVE  LET y == Fail(x, s) IN Good(y) /\ Grows(x, y) /\ y.status # "ok" /\ y.op = x.op
<1> DEFINE y == Fail(x, s)
<1>1. DOMAIN y = Fields /\ y.status = s /\ \A f \in Fields \ {"status"} : y[f] = x[f]
  BY DEF Good, Fail, Fields
<1> HIDE DEF y
<1>2. y.mem = x.mem /\ y.made = x.made /\ y.delta = x.delta /\ y.esp = x.esp /\ y.ebp = x.ebp
      /\ y.nextFrame = x.nextFrame /\ y.proc = x.proc /\ y.frames = x.frames /\ y.op = x.op
  BY <1>1 DEF Fields
<1>3. Good(y) /\ Grows(x, y)
  <2>1. Placed(x.mem) /\ x.esp \in Int /\ x.ebp \in Int /\ x.nextFrame \in Nat /\ x.proc \in Procs
        /\ x.frames \in Seq(Frame) /\ \A k \in 1 .. Len(x.frames) : x.frames[k].locals = run.procs[x.frames[k].proc].locals
    BY DEF Good
  <2> QED
    BY <1>1, <1>2, <2>1, StaysGood
<1> QED
  BY <1>1, <1>2, <1>3 DEF y

LEMMA EnterMakes ==
  ASSUME RunTyped, LocalsTyped, NEW STATE x, Good(x), NEW STATE proc, proc \in Procs
  PROVE  LET y == Enter(x, proc) IN
         /\ Good(y) /\ Grows(x, y) /\ y.op = x.op
         /\ y.status = "ok" =>
              /\ MadeOne(x, Push(x, Token, "implicit"), "write", Below(x.esp, Slot), Slot, "implicit")
              /\ Len(y.made) >= Len(x.made) + 1 /\ y.made[Len(x.made) + 1] = Push(x, Token, "implicit").made[Len(x.made) + 1]
              /\ ~HasLocals(run.procs[proc]) => Len(y.made) = Len(x.made) + 1 /\ y.frames = x.frames
              /\ HasLocals(run.procs[proc]) => OnlyStack(y, Len(x.made) + 1, Len(x.made) + 2)
<1> DEFINE p == Push(x, Token, "implicit")
           z == IF HasLocals(run.procs[proc]) THEN SetupFrame(p, proc, "implicit") ELSE p
           w == [z EXCEPT !.proc = proc, !.depth = @ + 1]
           y == Enter(x, proc)
<1>1. y = IF z.status # "ok" THEN z ELSE w
  <2>1. y = Then(z, LAMBDA u : [u EXCEPT !.proc = proc, !.depth = @ + 1])
    BY DEF Enter
  <2> HIDE DEF z, y
  <2> QED
    BY <2>1 DEF Then, Seen, The
<1>2. /\ Good(p) /\ SameFrames(x, p) /\ Grows(x, p)
      /\ p.status = "ok" => p.esp = Below(x.esp, Slot) /\ MadeOne(x, p, "write", Below(x.esp, Slot), Slot, "implicit")
  BY PushMakes DEF Makers
<1> HIDE DEF y, p
<1>3. /\ Good(z) /\ Grows(p, z) /\ z.op = x.op
      /\ z.status = "ok" /\ HasLocals(run.procs[proc]) => OnlyStack(z, Len(p.made), Len(p.made) + 1)
  <2>1. CASE ~HasLocals(run.procs[proc])
    BY <1>2, <2>1, Lengths DEF SameFrames, Grows
  <2>2. CASE HasLocals(run.procs[proc])
    <3>1. "implicit" \in Makers /\ "implicit" \in Unnamed
      BY DEF Makers, Unnamed
    <3> QED
      BY <1>2, <2>2, <3>1, FrameMakes DEF SameFrames
  <2> QED
    BY <2>1, <2>2
<1>4. ~HasLocals(run.procs[proc]) => z = p
  OBVIOUS
<1> HIDE DEF z
<1>5. DOMAIN w = Fields /\ w.proc = proc /\ \A f \in Fields \ {"proc", "depth"} : w[f] = z[f]
  BY <1>3 DEF Good, Fields
<1> HIDE DEF w
<1>6. w.mem = z.mem /\ w.made = z.made /\ w.delta = z.delta /\ w.esp = z.esp /\ w.ebp = z.ebp
      /\ w.nextFrame = z.nextFrame /\ w.frames = z.frames /\ w.op = z.op /\ w.status = z.status
  BY <1>5 DEF Fields
<1>7. Good(w) /\ Grows(z, w)
  <2>1. Placed(z.mem) /\ z.esp \in Int /\ z.ebp \in Int /\ z.nextFrame \in Nat
        /\ z.frames \in Seq(Frame) /\ \A k \in 1 .. Len(z.frames) : z.frames[k].locals = run.procs[z.frames[k].proc].locals
    BY <1>3 DEF Good
  <2> QED
    BY <1>3, <1>5, <1>6, <2>1, StaysGood
<1>8. Good(y) /\ y.made = z.made /\ y.op = x.op /\ y.status = z.status /\ y.frames = z.frames
  BY <1>1, <1>3, <1>6, <1>7
<1>9. Grows(x, z)
  BY <1>2, <1>3, GrowsOn
<1>10. Grows(x, y)
  BY <1>8, <1>9, Lengths DEF Grows
<1>11. ASSUME y.status = "ok"
       PROVE  /\ MadeOne(x, p, "write", Below(x.esp, Slot), Slot, "implicit")
              /\ Len(y.made) >= Len(x.made) + 1 /\ y.made[Len(x.made) + 1] = p.made[Len(x.made) + 1]
              /\ ~HasLocals(run.procs[proc]) => Len(y.made) = Len(x.made) + 1 /\ y.frames = x.frames
              /\ HasLocals(run.procs[proc]) => OnlyStack(y, Len(x.made) + 1, Len(x.made) + 2)
  <2>1. MadeOne(x, p, "write", Below(x.esp, Slot), Slot, "implicit")
    BY <1>2, <1>3, <1>8, <1>11 DEF Grows
  <2>2. Len(x.made) \in Nat /\ Len(p.made) = Len(x.made) + 1 /\ Len(z.made) \in Nat
    BY <1>3, <2>1, Lengths DEF MadeOne
  <2>3. Len(p.made) <= Len(z.made) /\ z.made[Len(p.made)] = p.made[Len(p.made)]
    BY <1>3, <2>2 DEF Grows
  <2>4. ~HasLocals(run.procs[proc]) => Len(y.made) = Len(x.made) + 1 /\ y.frames = x.frames
    BY <1>2, <1>4, <1>8, <2>2 DEF SameFrames
  <2>5. HasLocals(run.procs[proc]) => OnlyStack(y, Len(x.made) + 1, Len(x.made) + 2)
    <3>1. Len(p.made) + 1 = Len(x.made) + 2
      BY <2>2
    <3>2. HasLocals(run.procs[proc]) => OnlyStack(z, Len(x.made) + 1, Len(x.made) + 2)
      BY <1>3, <1>8, <1>11, <2>2, <3>1
    <3> QED
      BY <1>8, <3>2 DEF OnlyStack
  <2> QED
    BY <1>8, <2>1, <2>2, <2>3, <2>4, <2>5
<1> QED
  BY <1>8, <1>10, <1>11 DEF y, p

\* The access lies on the stack.
Stacked(m) == OnStack(m.access.address, m.access.width)

LEMMA PushedOnStack ==
  ASSUME RunTyped, NEW STATE x, Good(x), NEW STATE n, n \in Nat, n >= Slot, CanReserve(x, n)
  PROVE  OnStack(Below(x.esp, Slot), Slot)
<1>1. x.esp \in Int /\ Slot \in Nat \ {0}
  BY SlotIsPositive DEF Good
<1>2. Slot \in 1 .. n /\ Slot \in 1 .. Slot
  BY <1>1
<1> QED
  BY <1>1, <1>2, ReservedIsStack

LEMMA FootprintIsANumber ==
  ASSUME LocalsTyped, NEW STATE proc, proc \in Procs
  PROVE  Footprint(proc) \in Nat /\ Footprint(proc) >= Slot
BY SlotIsPositive DEF Footprint, LocalsTyped

LEMMA CallMakes ==
  ASSUME RunTyped, LocalsTyped, NEW STATE x, Good(x)
  PROVE  LET y == Call(x) IN
         /\ Good(y) /\ Grows(x, y) /\ y.op = x.op
         /\ y.status = "ok" /\ x.made = <<>> =>
              /\ Len(y.made) >= 1
              /\ LET m == y.made[1] IN
                 /\ m.access.kind = "write" /\ m.access.address = Below(x.esp, Slot) /\ m.access.width = Slot
                 /\ m.by = "implicit"
              /\ (Len(y.made) > 1 \/ y.frames # x.frames) => Stacked(y.made[1])
              /\ OnlyStack(y, 1, 2)
<1> DEFINE y == Call(x)
           z == Enter(x, "helper")
<1>0. "helper" \in Procs
  BY DEF Procs
<1>1. CASE y # z
  <2>1. y = Fail(x, "call-depth-exceeded") \/ y = Fail(x, "invalid-frame-state") \/ y = Fail(x, "stack-overflow")
    BY <1>1 DEF Call
  <2>2. y.status # "ok" /\ Good(y) /\ Grows(x, y) /\ y.op = x.op
    <3> HIDE DEF y
    <3> QED
      BY <2>1, FailureIsGood
  <2> QED
    BY <2>2
<1>2. CASE y = z
  <2>1. Good(z) /\ Grows(x, z) /\ z.op = x.op
    BY <1>0, EnterMakes
  <2>2. ASSUME z.status = "ok", x.made = <<>>
        PROVE  /\ Len(z.made) >= 1
               /\ LET m == z.made[1] IN
                  /\ m.access.kind = "write" /\ m.access.address = Below(x.esp, Slot) /\ m.access.width = Slot
                  /\ m.by = "implicit"
               /\ (Len(z.made) > 1 \/ z.frames # x.frames) => Stacked(z.made[1])
               /\ OnlyStack(z, 1, 2)
    <3> DEFINE p == Push(x, Token, "implicit")
    <3>1. Len(x.made) = 0 /\ Len(x.made) + 1 = 1 /\ Len(x.made) + 2 = 2
      BY <2>2
    <3>2. /\ MadeOne(x, p, "write", Below(x.esp, Slot), Slot, "implicit")
          /\ Len(z.made) >= 1 /\ z.made[1] = p.made[1]
          /\ ~HasLocals(run.procs["helper"]) => Len(z.made) = 1 /\ z.frames = x.frames
          /\ HasLocals(run.procs["helper"]) => OnlyStack(z, 1, 2)
      BY <1>0, <2>2, <3>1, EnterMakes
    <3> HIDE DEF p
    <3>3. LET m == z.made[1] IN
          /\ m.access.kind = "write" /\ m.access.address = Below(x.esp, Slot) /\ m.access.width = Slot
          /\ m.by = "implicit"
      BY <3>1, <3>2 DEF MadeOne
    <3>4. CASE ~HasLocals(run.procs["helper"])
      <4>1. Len(z.made) = 1 /\ z.frames = x.frames
        BY <3>2, <3>4
      <4> HIDE DEF z
      <4>2. OnlyStack(z, 1, 2)
        BY <4>1 DEF OnlyStack
      <4> QED
        BY <3>3, <4>1, <4>2
    <3>5. CASE HasLocals(run.procs["helper"])
      <4>1. CanReserve(x, Footprint("helper"))
        <5>1. z.status # "stack-overflow"
          BY <2>2
        <5>2. y.status # "stack-overflow"
          BY <1>2, <5>1
        <5>3. ~CanReserve(x, Footprint("helper")) => y.status # "ok"
          <6>1. Fail(x, "call-depth-exceeded").status # "ok" /\ Fail(x, "invalid-frame-state").status # "ok"
                /\ Fail(x, "stack-overflow").status # "ok"
            BY FailureIsGood
          <6> QED
            BY <3>5, <6>1 DEF Call
        <5> QED
          BY <1>2, <2>2, <5>3
      <4>2. OnStack(Below(x.esp, Slot), Slot)
        BY <1>0, <4>1, FootprintIsANumber, PushedOnStack
      <4> QED
        BY <3>2, <3>3, <3>5, <4>2 DEF Stacked
    <3> QED
      BY <3>4, <3>5
  <2> QED
    BY <1>2, <2>1, <2>2
<1> QED
  BY <1>1, <1>2

LEMMA InvokeMakes ==
  ASSUME RunTyped, LocalsTyped, NEW STATE x, Good(x), NEW STATE i
  PROVE  LET y == Invoke(x, i) IN
         /\ Good(y) /\ Grows(x, y) /\ y.op = x.op
         /\ y.status = "ok" /\ x.made = <<>> =>
              /\ Len(y.made) >= 2 /\ Stacked(y.made[1]) /\ OnlyStack(y, 2, 3)
              /\ y.made[1].by = "implicit" /\ y.made[2].by = "implicit"
<1> DEFINE p == Push(x, i.value, "implicit")
           z == Enter(p, "target")
           w == [z EXCEPT !.pending = FALSE]
           y == Invoke(x, i)
           n == Slot + Footprint("target")
<1>0. "target" \in Procs /\ "implicit" \in Makers
  BY DEF Procs, Makers
<1>1. y = IF NoFrameFor(x, "target") THEN Fail(x, "invalid-frame-state")
          ELSE IF x.depth = 1 THEN Fail(x, "call-depth-exceeded")
          ELSE IF ~CanReserve(x, n) THEN Fail(x, "stack-overflow")
          ELSE IF z.status # "ok" THEN z ELSE w
  <2>1. CASE NoFrameFor(x, "target") \/ x.depth = 1 \/ ~CanReserve(x, n)
    BY <2>1 DEF Invoke
  <2>2. CASE ~(NoFrameFor(x, "target") \/ x.depth = 1 \/ ~CanReserve(x, n))
    <3>1. y = Then(z, LAMBDA u : [u EXCEPT !.pending = FALSE])
      BY <2>2 DEF Invoke
    <3>2. y = IF z.status # "ok" THEN z ELSE w
      <4> HIDE DEF z, y
      <4> QED
        BY <3>1 DEF Then, Seen, The
    <3> HIDE DEF z, y, w
    <3> QED
      BY <2>2, <3>2
  <2> HIDE DEF z, y, w
  <2> QED
    BY <2>1, <2>2
<1> HIDE DEF y
<1>2. CASE y = Fail(x, "call-depth-exceeded") \/ y = Fail(x, "invalid-frame-state") \/ y = Fail(x, "stack-overflow")
  BY <1>2, FailureIsGood DEF y
<1>3. CASE CanReserve(x, n) /\ y = IF z.status # "ok" THEN z ELSE w
  <2>1. /\ Good(p) /\ SameFrames(x, p) /\ Grows(x, p)
        /\ p.status = "ok" => p.esp = Below(x.esp, Slot) /\ MadeOne(x, p, "write", Below(x.esp, Slot), Slot, "implicit")
    BY <1>0, PushMakes
  <2> HIDE DEF p
  <2>2. Good(z) /\ Grows(p, z) /\ z.op = p.op
    BY <1>0, <2>1, EnterMakes
  <2>3. z.status = "ok" =>
              /\ MadeOne(p, Push(p, Token, "implicit"), "write", Below(p.esp, Slot), Slot, "implicit")
              /\ Len(z.made) >= Len(p.made) + 1
              /\ z.made[Len(p.made) + 1] = Push(p, Token, "implicit").made[Len(p.made) + 1]
              /\ ~HasLocals(run.procs["target"]) => Len(z.made) = Len(p.made) + 1
              /\ HasLocals(run.procs["target"]) => OnlyStack(z, Len(p.made) + 1, Len(p.made) + 2)
    BY <1>0, <2>1, EnterMakes
  <2> HIDE DEF z
  <2>4. DOMAIN w = Fields /\ \A f \in Fields \ {"pending"} : w[f] = z[f]
    BY <2>2 DEF Good, Fields
  <2> HIDE DEF w
  <2>5. w.mem = z.mem /\ w.made = z.made /\ w.delta = z.delta /\ w.esp = z.esp /\ w.ebp = z.ebp /\ w.proc = z.proc
        /\ w.nextFrame = z.nextFrame /\ w.frames = z.frames /\ w.op = z.op /\ w.status = z.status
    BY <2>4 DEF Fields
  <2>6. Good(w) /\ Grows(z, w)
    <3>1. Placed(z.mem) /\ z.esp \in Int /\ z.ebp \in Int /\ z.nextFrame \in Nat /\ z.proc \in Procs
          /\ z.frames \in Seq(Frame) /\ \A k \in 1 .. Len(z.frames) : z.frames[k].locals = run.procs[z.frames[k].proc].locals
      BY <2>2 DEF Good
    <3> QED
      BY <2>2, <2>4, <2>5, <3>1, StaysGood
  <2>7. Good(y) /\ y.made = z.made /\ y.op = x.op /\ y.status = z.status
    BY <1>3, <2>1, <2>2, <2>5, <2>6 DEF SameFrames
  <2>8. Grows(x, z)
    BY <2>1, <2>2, GrowsOn
  <2>9. Grows(x, y)
    BY <2>7, <2>8, Lengths DEF Grows
  <2>10. ASSUME y.status = "ok", x.made = <<>>
         PROVE  /\ Len(y.made) >= 2 /\ Stacked(y.made[1]) /\ OnlyStack(y, 2, 3)
                /\ y.made[1].by = "implicit" /\ y.made[2].by = "implicit"
    <3>1. p.status = "ok" /\ Len(x.made) = 0
      BY <2>2, <2>7, <2>10 DEF Grows
    <3>2. /\ Len(p.made) = 1 /\ p.made[1].access.address = Below(x.esp, Slot) /\ p.made[1].access.width = Slot
          /\ p.made[1].by = "implicit"
      BY <2>1, <3>1 DEF MadeOne
    <3>3. z.made[1] = p.made[1] /\ Len(z.made) \in Nat
      BY <2>2, <3>2, Lengths DEF Grows
    <3>4. OnStack(Below(x.esp, Slot), Slot)
      <4>1. n \in Nat /\ n >= Slot
        BY <1>0, FootprintIsANumber, SlotIsPositive
      <4> HIDE DEF n
      <4> QED
        BY <1>3, <4>1, PushedOnStack
    <3>5. OnlyStack(z, 2, 3)
      <4>1. Len(p.made) + 1 = 2 /\ Len(p.made) + 2 = 3
        BY <3>2
      <4>2. CASE HasLocals(run.procs["target"])
        BY <2>3, <2>7, <2>10, <4>1, <4>2
      <4>3. CASE ~HasLocals(run.procs["target"])
        BY <2>3, <2>7, <2>10, <4>1, <4>3 DEF OnlyStack
      <4> QED
        BY <4>2, <4>3
    <3>6. OnlyStack(y, 2, 3)
      BY <2>7, <3>5 DEF OnlyStack
    <3>7. Len(z.made) >= 2 /\ z.made[2].by = "implicit"
      <4>1. Len(p.made) + 1 = 2
        BY <3>2
      <4> DEFINE q == Push(p, Token, "implicit")
      <4>2. MadeOne(p, q, "write", Below(p.esp, Slot), Slot, "implicit") /\ Len(z.made) >= 2 /\ z.made[2] = q.made[2]
        BY <2>3, <2>7, <2>10, <4>1
      <4> HIDE DEF q
      <4> QED
        BY <4>1, <4>2 DEF MadeOne
    <3> QED
      BY <2>7, <3>2, <3>3, <3>4, <3>6, <3>7 DEF Stacked
  <2> QED
    BY <2>7, <2>9, <2>10 DEF y
<1> QED
  BY <1>1, <1>2, <1>3

LEMMA ReleaseMakes ==
  ASSUME RunTyped, NEW STATE x, Good(x)
  PROVE  LET y == ReleaseFrame(x) IN
         /\ Good(y) /\ Grows(x, y) /\ y.op = x.op /\ y.depth = x.depth
         /\ y.status = "ok" => x.frames # <<>> /\ Len(y.made) = Len(x.made) + 1 /\ y.made[Len(x.made) + 1].by = "implicit"
<1> DEFINE f == Last(x.frames)
           z == ReadAt(x, f.base, Slot, "implicit")
           w == [z EXCEPT !.esp = f.base + Slot, !.ebp = f.saved, !.frames = Front(z.frames), !.mem = Forgetting(z.mem)]
           bad1 == Fail(x, "invalid-frame-state")
           bad2 == Fail(z, "invalid-frame-state")
           y == ReleaseFrame(x)
<1>1. \/ y = bad1
      \/ FrameHere(x) # {} /\ y = bad2
      \/ FrameHere(x) # {} /\ z.status = "ok" /\ y = w
  <2>1. CASE FrameHere(x) = {} \/ x.ebp # f.base
    BY <2>1 DEF ReleaseFrame
  <2>2. CASE ~(FrameHere(x) = {} \/ x.ebp # f.base)
    <3>1. y = Seen(z, LAMBDA u :
         IF u.status # "ok" \/ ValueAt(x, f.base) # f.saved THEN Fail(u, "invalid-frame-state")
         ELSE [u EXCEPT !.esp = f.base + Slot, !.ebp = f.saved, !.frames = Front(@), !.mem = Forgetting(@)])
      BY <2>2 DEF ReleaseFrame
    <3>2. y = IF z.status # "ok" \/ ValueAt(x, f.base) # f.saved THEN bad2 ELSE w
      <4> HIDE DEF z, y, f
      <4> QED
        BY <3>1 DEF Seen, The
    <3> HIDE DEF z, y, w, bad2, f
    <3> QED
      BY <2>2, <3>2
  <2> HIDE DEF z, y, w, bad1, bad2
  <2> QED
    BY <2>1, <2>2
<1> HIDE DEF y
<1>2. CASE y = bad1
  <2>1. bad1.depth = x.depth
    BY DEF Good, Fields, Fail
  <2> HIDE DEF bad1
  <2>2. Good(bad1) /\ Grows(x, bad1) /\ bad1.op = x.op /\ bad1.status # "ok"
    BY FailureIsGood DEF bad1
  <2> QED
    BY <1>2, <2>1, <2>2 DEF y
<1>3. CASE FrameHere(x) # {} /\ y \in {bad2, w} /\ (y = bad2 \/ z.status = "ok")
  <2>1. f \in FrameHere(x) /\ f \in Frame /\ x.frames # <<>>
    <3>1. f \in FrameHere(x) /\ x.frames # <<>>
      BY <1>3 DEF FrameHere
    <3> QED
      BY <3>1, FrameIsTheLast
  <2>2. f.base \in Int /\ f.saved \in Int /\ f.base + Slot \in Int
    BY <2>1, SlotIsPositive DEF Frame
  <2> HIDE DEF f
  <2>3. Good(z) /\ SameCpu(x, z) /\ Grows(x, z) /\ (z.status = "ok" => MadeOne(x, z, "read", f.base, Slot, "implicit"))
    BY <2>2, SlotIsPositive, ReadAtOne DEF Makers
  <2> HIDE DEF z
  <2>4. CASE y = bad2
    <3>1. bad2.depth = z.depth
      BY <2>3 DEF Good, Fields, Fail
    <3> HIDE DEF bad2
    <3>2. Good(bad2) /\ Grows(z, bad2) /\ bad2.op = z.op /\ bad2.status # "ok"
      BY <2>3, FailureIsGood DEF bad2
    <3>3. Grows(x, bad2)
      BY <2>3, <3>2, GrowsOn
    <3> QED
      BY <2>3, <2>4, <3>1, <3>2, <3>3 DEF y, SameCpu
  <2>5. CASE y = w /\ z.status = "ok"
    <3>1. /\ DOMAIN w = Fields /\ w.esp = f.base + Slot /\ w.ebp = f.saved /\ w.frames = Front(z.frames)
          /\ w.mem = Forgetting(z.mem) /\ \A e \in Fields \ {"esp", "ebp", "frames", "mem"} : w[e] = z[e]
      BY <2>3 DEF Good, Fields
    <3> HIDE DEF w
    <3>2. w.made = z.made /\ w.delta = z.delta /\ w.nextFrame = z.nextFrame /\ w.proc = z.proc
          /\ w.op = z.op /\ w.depth = z.depth /\ w.status = z.status
      BY <3>1 DEF Fields
    <3>3. Placed(w.mem)
      BY <2>3, <3>1, ForgettingKeepsPlaces DEF Good
    <3>4. w.frames \in Seq(Frame) /\ \A k \in 1 .. Len(w.frames) : w.frames[k].locals = run.procs[w.frames[k].proc].locals
      <4>1. z.frames \in Seq(Frame) /\ \A k \in 1 .. Len(z.frames) : z.frames[k].locals = run.procs[z.frames[k].proc].locals
        BY <2>3 DEF Good
      <4>2. z.frames # <<>>
        BY <2>1, <2>3 DEF SameCpu
      <4>3. Len(z.frames) \in Nat /\ Len(z.frames) >= 1
        BY <4>1, <4>2
      <4>4. w.frames = SubSeq(z.frames, 1, Len(z.frames) - 1)
        BY <3>1 DEF Front
      <4>5. /\ w.frames \in Seq(Frame) /\ Len(w.frames) = Len(z.frames) - 1
            /\ \A k \in 1 .. Len(z.frames) - 1 : w.frames[k] = z.frames[k]
        BY <4>1, <4>3, <4>4
      <4>6. ASSUME NEW k \in 1 .. Len(w.frames)
            PROVE  w.frames[k].locals = run.procs[w.frames[k].proc].locals
        <5>1. k \in 1 .. Len(z.frames) - 1 /\ k \in 1 .. Len(z.frames)
          BY <4>3, <4>5
        <5>2. w.frames[k] = z.frames[k]
          BY <4>5, <5>1
        <5> QED
          BY <4>1, <5>1, <5>2
      <4> QED
        BY <4>5, <4>6
    <3>5. z.nextFrame \in Nat /\ z.proc \in Procs
      BY <2>3 DEF Good
    <3>6. Good(w) /\ Grows(z, w)
      BY <2>2, <2>3, <3>1, <3>2, <3>3, <3>4, <3>5, StaysGood
    <3>7. Grows(x, w)
      BY <2>3, <3>6, GrowsOn
    <3> QED
      BY <2>1, <2>3, <2>5, <3>2, <3>6, <3>7 DEF y, SameCpu, MadeOne
  <2> QED
    BY <1>3, <2>4, <2>5
<1> QED
  BY <1>1, <1>2, <1>3

\* A procedure without a frame returns through what ESP points to.
LEMMA RetMakes ==
  ASSUME RunTyped, NEW STATE x, Good(x), x.status = "ok", NEW STATE i, i.value \in Int
  PROVE  LET y == Ret(x, i) IN
         /\ Good(y) /\ Grows(x, y) /\ y.op = x.op
         /\ y.status = "ok" /\ x.made = <<>> =>
              /\ Len(y.made) <= 2 /\ \A k \in 1 .. Len(y.made) : y.made[k].by = "implicit"
              /\ x.frames = <<>> =>
                   /\ y.frames = <<>> /\ Len(y.made) <= 1
                   /\ Len(y.made) = 1 => LET m == y.made[1] IN
                        m.access.kind = "read" /\ m.access.address = x.esp /\ m.access.width = Slot /\ m.by = "implicit"
<1> DEFINE u == ReleaseHere(x)
           e == u.esp + Slot + i.value
           z == ReadAt(u, u.esp, Slot, "implicit")
           h == [u EXCEPT !.halted = TRUE]
           w == [z EXCEPT !.esp = e, !.proc = "entry", !.depth = 0]
           bad1 == Fail(z, "invalid-return-address")
           bad2 == Fail(z, "ret-stack-cleanup-out-of-range")
           y == Ret(x, i)
<1>1. \/ u.status # "ok" /\ y = u
      \/ u.status = "ok" /\ y = h
      \/ z.status # "ok" /\ y = z
      \/ y = bad1 \/ y = bad2
      \/ u.status = "ok" /\ z.status = "ok" /\ y = w
  <2>1. y = Then(u, LAMBDA q : IF q.depth = 0 THEN [q EXCEPT !.halted = TRUE] ELSE
              Then(ReadAt(q, q.esp, Slot, "implicit"), LAMBDA r :
                IF ValueAt(r, r.esp) # Token THEN Fail(r, "invalid-return-address")
                ELSE IF ~(Stack.base <= q.esp + Slot + i.value /\ q.esp + Slot + i.value <= Stack.limit)
                     THEN Fail(r, "ret-stack-cleanup-out-of-range")
                ELSE [r EXCEPT !.esp = q.esp + Slot + i.value, !.proc = "entry", !.depth = 0]))
    BY DEF Ret
  <2> HIDE DEF u, y
  <2>2. y = IF u.status # "ok" THEN u ELSE IF u.depth = 0 THEN h
            ELSE IF z.status # "ok" THEN z
            ELSE IF ValueAt(z, z.esp) # Token THEN bad1
            ELSE IF ~(Stack.base <= e /\ e <= Stack.limit) THEN bad2 ELSE w
    <3> HIDE DEF z
    <3> QED
      BY <2>1 DEF Then, Seen, The, z
  <2> HIDE DEF z, h, w, bad1, bad2, e
  <2> QED
    BY <2>2
<1> HIDE DEF y
<1>2. /\ Good(u) /\ Grows(x, u) /\ u.op = x.op
      /\ u.status = "ok" =>
           /\ Len(u.made) \in {Len(x.made), Len(x.made) + 1}
           /\ x.made = <<>> => \A k \in 1 .. Len(u.made) : u.made[k].by = "implicit"
           /\ x.frames = <<>> => u = x
  <2>1. CASE ~HasLocals(run.procs[x.proc])
    <3>1. u = x
      BY <2>1 DEF ReleaseHere
    <3> HIDE DEF u
    <3> QED
      BY <3>1, Lengths DEF Grows
  <2>2. CASE HasLocals(run.procs[x.proc])
    <3>1. u = ReleaseFrame(x)
      BY <2>2 DEF ReleaseHere
    <3> HIDE DEF u
    <3>2. /\ Good(u) /\ Grows(x, u) /\ u.op = x.op
          /\ u.status = "ok" => x.frames # <<>> /\ Len(u.made) = Len(x.made) + 1 /\ u.made[Len(x.made) + 1].by = "implicit"
      BY <3>1, ReleaseMakes
    <3>3. ASSUME u.status = "ok", x.made = <<>>, NEW k \in 1 .. Len(u.made) PROVE u.made[k].by = "implicit"
      <4>0. Len(x.made) = 0
        BY <3>3
      <4>1. Len(u.made) = 1
        <5>1. Len(u.made) = Len(x.made) + 1
          BY <3>2, <3>3
        <5> QED
          BY <4>0, <5>1
      <4>2. k = Len(x.made) + 1
        BY <3>3, <4>0, <4>1
      <4> QED
        BY <3>2, <3>3, <4>2
    <3>4. ASSUME u.status = "ok" PROVE Len(u.made) = Len(x.made) + 1 /\ x.frames # <<>>
      BY <3>2, <3>4
    <3>5. u.status = "ok" => Len(u.made) \in {Len(x.made), Len(x.made) + 1} /\ (x.frames = <<>> => u = x)
      BY <3>4
    <3> QED
      BY <3>2, <3>3, <3>5
  <2> QED
    BY <2>1, <2>2
<1> HIDE DEF u
<1>3. u.esp \in Int /\ e \in Int
  BY <1>2, SlotIsPositive DEF Good
<1>4. Good(z) /\ SameCpu(u, z) /\ Grows(u, z) /\ (z.status = "ok" => MadeOne(u, z, "read", u.esp, Slot, "implicit"))
  BY <1>2, <1>3, SlotIsPositive, ReadAtOne DEF Makers
<1> HIDE DEF z, e
<1>5. Grows(x, z)
  BY <1>2, <1>4, GrowsOn
<1>6. CASE u.status # "ok" /\ y = u
  BY <1>2, <1>6 DEF y
<1>7. CASE z.status # "ok" /\ y = z
  BY <1>2, <1>4, <1>5, <1>7 DEF y, SameCpu
<1>8. CASE y = bad1 \/ y = bad2
  <2>1. Good(y) /\ Grows(z, y) /\ y.op = z.op /\ y.status # "ok"
    BY <1>4, <1>8, FailureIsGood
  <2>2. Grows(x, y)
    BY <1>4, <1>5, <2>1, GrowsOn
  <2> QED
    BY <1>2, <1>4, <2>1, <2>2 DEF y, SameCpu
<1>9. CASE u.status = "ok" /\ y = h
  <2>1. DOMAIN h = Fields /\ \A f \in Fields \ {"halted"} : h[f] = u[f]
    BY <1>2 DEF Good, Fields
  <2> HIDE DEF h
  <2>2. h.mem = u.mem /\ h.made = u.made /\ h.delta = u.delta /\ h.esp = u.esp /\ h.ebp = u.ebp /\ h.proc = u.proc
        /\ h.nextFrame = u.nextFrame /\ h.frames = u.frames /\ h.op = u.op /\ h.status = u.status
    BY <2>1 DEF Fields
  <2>3. Good(h) /\ Grows(u, h)
    <3>1. Placed(u.mem) /\ u.esp \in Int /\ u.ebp \in Int /\ u.nextFrame \in Nat /\ u.proc \in Procs
          /\ u.frames \in Seq(Frame) /\ \A k \in 1 .. Len(u.frames) : u.frames[k].locals = run.procs[u.frames[k].proc].locals
      BY <1>2 DEF Good
    <3> QED
      BY <1>2, <2>1, <2>2, <3>1, StaysGood
  <2>4. Grows(x, h)
    BY <1>2, <2>3, GrowsOn
  <2>5. x.made = <<>> => Len(h.made) <= 2 /\ (x.frames = <<>> => h.frames = <<>> /\ Len(h.made) = 0)
    <3> SUFFICES ASSUME x.made = <<>>
                 PROVE  Len(h.made) <= 2 /\ (x.frames = <<>> => h.frames = <<>> /\ Len(h.made) = 0)
      OBVIOUS
    <3>1. Len(x.made) = 0
      OBVIOUS
    <3>2. Len(u.made) \in {0, 1}
      BY <1>2, <1>9, <3>1
    <3>3. ASSUME x.frames = <<>> PROVE h.frames = <<>> /\ Len(h.made) = 0
      <4>1. u = x
        BY <1>2, <1>9, <3>3
      <4> QED
        BY <2>2, <3>1, <3>3, <4>1
    <3>4. Len(h.made) <= 2
      <4>1. \A n \in {0, 1} : n <= 2
        OBVIOUS
      <4>2. Len(u.made) <= 2
        BY <3>2, <4>1
      <4> QED
        BY <2>2, <4>2
    <3> QED
      BY <3>3, <3>4
  <2>6. x.made = <<>> => \A k \in 1 .. Len(h.made) : h.made[k].by = "implicit"
    BY <1>2, <1>9, <2>2
  <2> QED
    BY <1>2, <1>9, <2>2, <2>3, <2>4, <2>5, <2>6 DEF y
<1>10. CASE u.status = "ok" /\ z.status = "ok" /\ y = w
  <2>1. DOMAIN w = Fields /\ w.esp = e /\ w.proc = "entry" /\ \A f \in Fields \ {"esp", "proc", "depth"} : w[f] = z[f]
    BY <1>4 DEF Good, Fields
  <2> HIDE DEF w
  <2>2. w.mem = z.mem /\ w.made = z.made /\ w.delta = z.delta /\ w.ebp = z.ebp
        /\ w.nextFrame = z.nextFrame /\ w.frames = z.frames /\ w.op = z.op /\ w.status = z.status
    BY <2>1 DEF Fields
  <2>3. Good(w) /\ Grows(z, w)
    <3>1. Placed(z.mem) /\ z.ebp \in Int /\ z.nextFrame \in Nat /\ "entry" \in Procs
          /\ z.frames \in Seq(Frame) /\ \A k \in 1 .. Len(z.frames) : z.frames[k].locals = run.procs[z.frames[k].proc].locals
      BY <1>4 DEF Good, Procs
    <3> QED
      BY <1>3, <1>4, <2>1, <2>2, <3>1, StaysGood
  <2>4. Grows(x, w)
    BY <1>4, <1>5, <2>3, GrowsOn
  <2>5. ASSUME x.made = <<>>
        PROVE  /\ Len(w.made) <= 2
               /\ x.frames = <<>> =>
                    /\ w.frames = <<>> /\ Len(w.made) <= 1
                    /\ LET m == w.made[1] IN
                       m.access.kind = "read" /\ m.access.address = x.esp /\ m.access.width = Slot /\ m.by = "implicit"
    <3>1. Len(x.made) = 0
      BY <2>5
    <3>2. Len(u.made) \in {0, 1}
      BY <1>2, <1>10, <3>1
    <3>3. Len(z.made) = Len(u.made) + 1
      BY <1>4, <1>10 DEF MadeOne
    <3>4. ASSUME x.frames = <<>>
          PROVE  /\ w.frames = <<>> /\ Len(w.made) <= 1
                 /\ LET m == w.made[1] IN
                    m.access.kind = "read" /\ m.access.address = x.esp /\ m.access.width = Slot /\ m.by = "implicit"
      <4>1. u = x
        BY <1>2, <1>10, <3>4
      <4>2. z.frames = <<>>
        BY <1>4, <3>4, <4>1 DEF SameCpu
      <4>3. MadeOne(x, z, "read", x.esp, Slot, "implicit")
        BY <1>4, <1>10, <4>1
      <4>4. LET m == z.made[1] IN
            m.access.kind = "read" /\ m.access.address = x.esp /\ m.access.width = Slot /\ m.by = "implicit"
        <5>1. Len(x.made) + 1 = 1
          BY <3>1
        <5> QED
          BY <4>3, <5>1 DEF MadeOne
      <4>5. Len(w.made) = 1
        BY <2>2, <3>1, <3>3, <4>1
      <4> QED
        BY <2>2, <4>2, <4>4, <4>5
    <3>5. Len(w.made) <= 2
      <4>1. \A n \in {0, 1} : n + 1 <= 2
        OBVIOUS
      <4>2. Len(u.made) + 1 <= 2
        BY <3>2, <4>1
      <4> QED
        BY <2>2, <3>3, <4>2
    <3> QED
      BY <3>4, <3>5
  <2>6. ASSUME x.made = <<>>, NEW k \in 1 .. Len(w.made) PROVE w.made[k].by = "implicit"
    <3>1. MadeOne(u, z, "read", u.esp, Slot, "implicit") /\ Grows(u, z) /\ w.made = z.made
      BY <1>4, <1>10, <2>2
    <3>2. Len(u.made) \in Nat /\ Len(w.made) = Len(u.made) + 1
      BY <1>2, <3>1, Lengths DEF MadeOne
    <3>3. CASE k = Len(u.made) + 1
      BY <3>1, <3>3 DEF MadeOne
    <3>4. CASE k \in 1 .. Len(u.made)
      BY <1>2, <1>10, <2>6, <3>1, <3>4 DEF Grows
    <3> QED
      BY <3>2, <3>3, <3>4
  <2> QED
    BY <1>2, <1>4, <1>10, <2>2, <2>3, <2>4, <2>5, <2>6 DEF y, SameCpu
<1> QED
  BY <1>1, <1>6, <1>7, <1>8, <1>9, <1>10

-----------------------------------------------------------------------------
(* Instructions *)

LEMMA RemainderShifts ==
  ASSUME NEW a \in Int, NEW b \in Int, NEW n \in Nat \ {0}
  PROVE  ((a % n) + b) % n = (a + b) % n
<1> DEFINE q == a \div n
           r == a % n
           p == (r + b) \div n
           s == (r + b) % n
<1>1. q \in Int /\ r \in Int /\ a = n * q + r
  BY DivModBasics
<1>2. p \in Int /\ s \in 0 .. n - 1 /\ r + b = n * p + s
  <2>1. r + b \in Int
    BY <1>1
  <2> QED
    BY <2>1, DivModBasics
<1> HIDE DEF q, r, p, s
<1>3. a + b = n * (q + p) + s
  <2>1. n * (q + p) = n * q + n * p
    BY <1>1, <1>2
  <2>2. n * q \in Int /\ n * p \in Int /\ s \in Int
    BY <1>1, <1>2
  <2> DEFINE u == n * q
             v == n * p
  <2>3. a = u + r /\ r + b = v + s /\ u \in Int /\ v \in Int
    BY <1>1, <1>2, <2>2
  <2> HIDE DEF u, v
  <2>4. a + b = (u + v) + s
    BY <1>1, <1>2, <2>2, <2>3
  <2> QED
    BY <2>1, <2>4 DEF u, v
<1>4. (a + b) % n = s
  <2>1. a + b \in Int /\ q + p \in Int
    BY <1>1, <1>2
  <2> DEFINE c == a + b
             d == q + p
  <2>2. c \in Int /\ d \in Int /\ c = n * d + s /\ n > 0 /\ n \in Int
    BY <1>3, <2>1
  <2> HIDE DEF c, d
  <2>3. c % n = s
    BY <1>2, <2>2, DivModUnique
  <2> QED
    BY <2>3 DEF c
<1> QED
  BY <1>4 DEF s, r

\* What an operand means depends on ESP and the frames only.
LEMMA ResolvesAlike ==
  ASSUME NEW STATE x, NEW STATE y, y.esp = x.esp, y.frames = x.frames, y.proc = x.proc, NEW STATE o
  PROVE  Resolve(y, o) = Resolve(x, o)
BY DEF Resolve, FrameHere, Declared

\* The instruction announced the access.
Foretold(x, i, m) ==
  \E k \in DOMAIN PlannedAccesses(i) : LET p == PlannedAccesses(i)[k] IN
    /\ m.access.kind = p.kind /\ m.access.width = p.width /\ m.access.address \in Resolve(x, p.operand)
    /\ m.by = "local" <=> p.operand.kind = "local"

LEMMA PopMakes ==
  ASSUME RunTyped, NEW STATE x, Good(x), NEW STATE i, i \in Instruction
  PROVE  LET y == Pop(x, i)
             o == IF i.dst.kind = "esp" THEN [i.dst EXCEPT !.disp = @ + Slot] ELSE i.dst IN
         /\ Good(y) /\ Grows(x, y) /\ y.op = x.op /\ y.frames = x.frames
         /\ y.status = "ok" /\ x.made = <<>> =>
              /\ Len(y.made) = IF InMemory(i.dst) THEN 2 ELSE 1
              /\ LET m == y.made[1] IN
                 m.access.kind = "read" /\ m.access.address = x.esp /\ m.access.width = Slot /\ m.by = "implicit"
              /\ InMemory(i.dst) => LET m == y.made[2] IN
                 /\ m.access.kind = "write" /\ m.access.address \in Resolve(x, o) /\ m.access.width = Slot
                 /\ m.by = i.dst.kind
<1> DEFINE o == IF i.dst.kind = "esp" THEN [i.dst EXCEPT !.disp = @ + Slot] ELSE i.dst
           r == ReadAt(x, x.esp, Slot, "implicit")
           u == [r EXCEPT !.esp = Above(r.esp, Slot)]
           z == Write(u, i.dst, Slot, ValueAt(r, x.esp))
           w == [z EXCEPT !.esp = x.esp]
           y == Pop(x, i)
<1>0. i.dst \in Operand /\ x.esp \in Int /\ "implicit" \in Makers /\ Slot \in Nat \ {0}
  BY SlotIsPositive DEF Instruction, Good, Makers
<1>1. y = IF r.status # "ok" THEN r ELSE IF z.status = "ok" THEN z ELSE w
  <2>1. y = Then(r, LAMBDA q : Seen(Write([q EXCEPT !.esp = Above(@, Slot)], i.dst, Slot, ValueAt(q, x.esp)), LAMBDA v :
               IF v.status = "ok" THEN v ELSE [v EXCEPT !.esp = x.esp]))
    BY DEF Pop
  <2> HIDE DEF r, z, y
  <2> QED
    BY <2>1 DEF Then, Seen, The, z
<1> HIDE DEF y
<1>2. Good(r) /\ SameCpu(x, r) /\ Grows(x, r) /\ (r.status = "ok" => MadeOne(x, r, "read", x.esp, Slot, "implicit"))
  BY <1>0, ReadAtOne
<1> HIDE DEF r
<1>3. CASE r.status # "ok"
  BY <1>1, <1>2, <1>3 DEF y, SameCpu
<1>4. CASE r.status = "ok"
  <2>1. DOMAIN u = Fields /\ u.esp = Above(x.esp, Slot) /\ \A f \in Fields \ {"esp"} : u[f] = r[f]
    BY <1>2 DEF Good, Fields, SameCpu
  <2> HIDE DEF u
  <2>2. u.mem = r.mem /\ u.made = r.made /\ u.delta = r.delta /\ u.ebp = r.ebp /\ u.proc = r.proc
        /\ u.nextFrame = r.nextFrame /\ u.frames = r.frames /\ u.op = r.op /\ u.status = r.status
    BY <2>1 DEF Fields
  <2>3. UMax + 1 \in Nat \ {0} /\ Above(x.esp, Slot) \in Int
    <3>1. UMax + 1 \in Nat \ {0} /\ x.esp + Slot \in Int
      BY <1>0, LayoutAssumption
    <3>2. (x.esp + Slot) % (UMax + 1) \in Int
      BY <3>1, DivModBasics
    <3> QED
      BY <3>1, <3>2 DEF Above
  <2>4. Good(u) /\ Grows(r, u)
    <3>1. Placed(r.mem) /\ r.ebp \in Int /\ r.nextFrame \in Nat /\ r.proc \in Procs
          /\ r.frames \in Seq(Frame) /\ \A k \in 1 .. Len(r.frames) : r.frames[k].locals = run.procs[r.frames[k].proc].locals
      BY <1>2 DEF Good
    <3> QED
      BY <1>2, <2>1, <2>2, <2>3, <3>1, StaysGood
  <2>5. Good(z) /\ SameCpu(u, z) /\ Grows(u, z) /\ (z.status = "ok" => MadeAt(u, z, "write", i.dst, Slot))
    BY <1>0, <2>4, WriteMakes
  <2> HIDE DEF z
  <2>6. DOMAIN w = Fields /\ w.esp = x.esp /\ \A f \in Fields \ {"esp"} : w[f] = z[f]
    BY <2>5 DEF Good, Fields
  <2> HIDE DEF w
  <2>7. w.mem = z.mem /\ w.made = z.made /\ w.delta = z.delta /\ w.ebp = z.ebp /\ w.proc = z.proc
        /\ w.nextFrame = z.nextFrame /\ w.frames = z.frames /\ w.op = z.op /\ w.status = z.status
    BY <2>6 DEF Fields
  <2>8. Good(w) /\ Grows(z, w)
    <3>1. Placed(z.mem) /\ z.ebp \in Int /\ z.nextFrame \in Nat /\ z.proc \in Procs
          /\ z.frames \in Seq(Frame) /\ \A k \in 1 .. Len(z.frames) : z.frames[k].locals = run.procs[z.frames[k].proc].locals
      BY <2>5 DEF Good
    <3> QED
      BY <1>0, <2>5, <2>6, <2>7, <3>1, StaysGood
  <2>9. Grows(x, z) /\ Grows(x, w)
    <3>1. Grows(x, u)
      BY <1>2, <2>4, GrowsOn
    <3>2. Grows(x, z)
      BY <2>4, <2>5, <3>1, GrowsOn
    <3> QED
      BY <2>5, <2>8, <3>2, GrowsOn
  <2>10. Good(y) /\ Grows(x, y) /\ y.op = x.op /\ y.frames = x.frames /\ y.made = z.made /\ y.status = z.status
    BY <1>1, <1>2, <1>4, <2>2, <2>5, <2>7, <2>8, <2>9 DEF SameCpu
  <2>11. Resolve(u, i.dst) = Resolve(x, o)
    <3>1. u.frames = x.frames /\ u.proc = x.proc
      BY <1>2, <2>2 DEF SameCpu
    <3>2. CASE i.dst.kind # "esp"
      <4>1. o = i.dst
        BY <3>2
      <4> QED
        BY <3>1, <3>2, <4>1 DEF Resolve, FrameHere, Declared
    <3>3. CASE i.dst.kind = "esp"
      <4> DEFINE d == i.dst.disp
      <4>1. o.kind = "esp" /\ o.disp = d + Slot /\ d \in Int
        BY <1>0, <3>3 DEF Operand
      <4> HIDE DEF o
      <4>2. Resolve(u, i.dst) = {(u.esp + d) % (UMax + 1)} /\ Resolve(x, o) = {(x.esp + (d + Slot)) % (UMax + 1)}
        BY <3>3, <4>1 DEF Resolve
      <4> HIDE DEF d
      <4>3. (u.esp + d) % (UMax + 1) = (x.esp + (d + Slot)) % (UMax + 1)
        <5>1. u.esp = (x.esp + Slot) % (UMax + 1)
          BY <2>1 DEF Above
        <5>2. x.esp + Slot \in Int /\ (x.esp + Slot) + d = x.esp + (d + Slot)
          BY <1>0, <4>1
        <5>3. (((x.esp + Slot) % (UMax + 1)) + d) % (UMax + 1) = ((x.esp + Slot) + d) % (UMax + 1)
          BY <2>3, <4>1, <5>2, RemainderShifts
        <5> QED
          BY <5>1, <5>2, <5>3
      <4> QED
        BY <4>2, <4>3
    <3> QED
      BY <3>2, <3>3
  <2>12. ASSUME y.status = "ok", x.made = <<>>
         PROVE  /\ Len(z.made) = IF InMemory(i.dst) THEN 2 ELSE 1
                /\ LET m == z.made[1] IN
                   m.access.kind = "read" /\ m.access.address = x.esp /\ m.access.width = Slot /\ m.by = "implicit"
                /\ InMemory(i.dst) => LET m == z.made[2] IN
                   /\ m.access.kind = "write" /\ m.access.address \in Resolve(x, o) /\ m.access.width = Slot
                   /\ m.by = i.dst.kind
    <3>1. Len(x.made) = 0 /\ Len(x.made) + 1 = 1
      BY <2>12
    <3>2. /\ Len(u.made) = 1
          /\ LET m == u.made[1] IN
             m.access.kind = "read" /\ m.access.address = x.esp /\ m.access.width = Slot /\ m.by = "implicit"
      <4>1. MadeOne(x, r, "read", x.esp, Slot, "implicit")
        BY <1>2, <1>4
      <4> QED
        BY <2>2, <3>1, <4>1 DEF MadeOne
    <3>3. z.made[1] = u.made[1]
      BY <2>5, <3>2 DEF Grows
    <3>4. MadeAt(u, z, "write", i.dst, Slot)
      BY <2>5, <2>10, <2>12
    <3>5. Len(u.made) + 1 = 2
      BY <3>2
    <3>6. CASE InMemory(i.dst)
      <4>1. PICK a \in Resolve(u, i.dst) : MadeOne(u, z, "write", a, Slot, i.dst.kind)
        BY <3>4, <3>6 DEF MadeAt
      <4>2. /\ Len(z.made) = 2
            /\ LET m == z.made[2] IN
               m.access.kind = "write" /\ m.access.address = a /\ m.access.width = Slot /\ m.by = i.dst.kind
        BY <3>5, <4>1 DEF MadeOne
      <4> QED
        BY <2>11, <3>2, <3>3, <3>6, <4>2
    <3>7. CASE ~InMemory(i.dst)
      BY <3>2, <3>3, <3>4, <3>7 DEF MadeAt
    <3> QED
      BY <3>6, <3>7
  <2> HIDE DEF o
  <2> QED
    BY <2>10, <2>12 DEF y, o
<1> QED
  BY <1>3, <1>4

\* The instruction announced every access made, and there are b of them at most.
Announced(x, i, y, b) == Len(y.made) <= b /\ \A k \in 1 .. Len(y.made) : Foretold(x, i, y.made[k])

LEMMA NothingMade ==
  ASSUME NEW STATE x, NEW STATE i, NEW STATE b, b \in Nat, NEW STATE y, y.made = <<>>
  PROVE  Announced(x, i, y, b)
BY DEF Announced

\* One planned access more.
LEMMA OneAnnounced ==
  ASSUME NEW STATE x, NEW STATE i, NEW STATE y, NEW STATE z, Good(y), Good(z), Grows(y, z),
         NEW STATE b, b \in Nat, Announced(x, i, y, b),
         NEW STATE kind, NEW STATE a, NEW STATE n, NEW STATE by, MadeOne(y, z, kind, a, n, by),
         NEW STATE k, k \in DOMAIN PlannedAccesses(i),
         LET p == PlannedAccesses(i)[k] IN
           p.kind = kind /\ p.width = n /\ a \in Resolve(x, p.operand) /\ (by = "local" <=> p.operand.kind = "local")
  PROVE  Announced(x, i, z, b + 1)
<1>1. Len(y.made) \in Nat /\ Len(z.made) \in Nat /\ Len(z.made) = Len(y.made) + 1 /\ Len(y.made) <= b
  BY Lengths DEF MadeOne, Announced
<1>2. Len(z.made) <= b + 1
  BY <1>1
<1>3. ASSUME NEW j \in 1 .. Len(z.made) PROVE Foretold(x, i, z.made[j])
  <2>1. CASE j \in 1 .. Len(y.made)
    BY <2>1 DEF Grows, Announced
  <2>2. CASE j = Len(y.made) + 1
    BY <2>2 DEF MadeOne, Foretold
  <2> QED
    BY <1>1, <2>1, <2>2
<1> QED
  BY <1>2, <1>3 DEF Announced

LEMMA OperandAnnounced ==
  ASSUME NEW STATE x, NEW STATE i, NEW STATE y, NEW STATE z, Good(y), Good(z), Grows(y, z), SameCpu(x, y),
         NEW STATE b, b \in Nat, Announced(x, i, y, b),
         NEW STATE kind, NEW STATE o, NEW STATE n, MadeAt(y, z, kind, o, n),
         NEW STATE k, k \in DOMAIN PlannedAccesses(i), PlannedAccesses(i)[k] = Plan(kind, o, n)
  PROVE  Announced(x, i, z, b + 1)
<1>1. CASE InMemory(o)
  <2>1. PICK a \in Resolve(y, o) : MadeOne(y, z, kind, a, n, o.kind)
    BY <1>1 DEF MadeAt
  <2>2. a \in Resolve(x, o)
    BY <2>1, ResolvesAlike DEF SameCpu
  <2>3. LET p == PlannedAccesses(i)[k] IN
        p.kind = kind /\ p.width = n /\ a \in Resolve(x, p.operand) /\ (o.kind = "local" <=> p.operand.kind = "local")
    BY <2>2 DEF Plan
  <2> QED
    BY <2>1, <2>3, OneAnnounced
<1>2. CASE ~InMemory(o)
  <2>1. Len(z.made) = Len(y.made) /\ Len(y.made) \in Nat
    BY <1>2, Lengths DEF MadeAt
  <2>2. \A j \in 1 .. Len(z.made) : Foretold(x, i, z.made[j])
    BY <2>1 DEF Grows, Announced
  <2>3. Len(z.made) <= b + 1
    <3>1. Len(y.made) <= b
      BY DEF Announced
    <3> QED
      BY <2>1, <3>1
  <2> QED
    BY <2>2, <2>3 DEF Announced
<1> QED
  BY <1>1, <1>2

LEMMA TopIsEsp ==
  ASSUME RunTyped, NEW STATE x, NEW STATE a, a \in Access, Sound(a), a.address = x.esp
  PROVE  x.esp \in Resolve(x, TopOfStack(0))
<1>1. PICK k \in Kinds : run.layout.regions[k].base <= a.address /\ a.address + a.width <= run.layout.regions[k].limit
  BY DEF Sound
<1>2. run.layout.regions[k].base \in 0 .. UMax /\ run.layout.regions[k].limit \in 0 .. UMax /\ UMax \in Nat
  BY Places, SlotIsPositive
<1>3. a.address \in Int /\ a.width \in Nat \ {0}
  BY DEF Access
<1>4. x.esp \in 0 .. UMax
  BY <1>1, <1>2, <1>3
<1>5. x.esp + 0 = x.esp /\ x.esp - 0 = x.esp
  BY <1>2, <1>4
<1>6. x.esp % (UMax + 1) = x.esp
  <2>1. x.esp \in Int
    BY <1>2, <1>4
  <2> QED
    BY <1>4, <1>5, <2>1, WordsBelow DEF Below
<1> QED
  BY <1>5, <1>6 DEF Resolve, TopOfStack

LEMMA ReadsAndWrites ==
  ASSUME RunTyped, NEW STATE x, Good(x), NEW STATE i, i \in Instruction,
         i.op \in {"mov", "update", "compare", "xchg"}
  PROVE  LET y == Execute(x, i) IN
         /\ Good(y) /\ Grows(x, y) /\ SameCpu(x, y)
         /\ y.status = "ok" /\ x.made = <<>> => Announced(x, i, y, 3)
<1> DEFINE n == i.width
           y == Execute(x, i)
<1>0. i.dst \in Operand /\ i.src \in Operand /\ n \in Nat \ {0}
  BY SourceRunAssumption DEF Instruction
<1>2. CASE i.op = "mov" \/ i.op = "xchg"
  <2> DEFINE o == IF i.op = "mov" THEN i.src ELSE i.dst
             r == Read(x, o, n)
             w == Write(r, i.dst, n, i.value)
  <2>1. y = w
    BY <1>2 DEF Execute
  <2>2. o \in Operand
    BY <1>0
  <2>3. DOMAIN PlannedAccesses(i) = 1 .. 2 /\ PlannedAccesses(i)[1] = Plan("read", o, n)
        /\ PlannedAccesses(i)[2] = Plan("write", i.dst, n)
    BY <1>2 DEF PlannedAccesses
  <2> HIDE DEF o, n, y
  <2>4. Good(r) /\ SameCpu(x, r) /\ Grows(x, r) /\ (r.status = "ok" => MadeAt(x, r, "read", o, n))
    BY <1>0, <2>2, ReadMakes
  <2> HIDE DEF r
  <2>5. Good(w) /\ SameCpu(r, w) /\ Grows(r, w) /\ (w.status = "ok" => MadeAt(r, w, "write", i.dst, n))
    BY <1>0, <2>4, WriteMakes
  <2> HIDE DEF w
  <2>6. Grows(x, w) /\ SameCpu(x, w) /\ SameCpu(x, x)
    BY <2>4, <2>5, GrowsOn DEF SameCpu
  <2>7. ASSUME w.status = "ok", x.made = <<>> PROVE Announced(x, i, w, 3)
    <3>1. r.status = "ok"
      BY <2>5, <2>7 DEF Grows
    <3>2. Announced(x, i, x, 1)
      BY <2>7, NothingMade
    <3>3. Announced(x, i, r, 1 + 1)
      BY <2>3, <2>4, <2>6, <3>1, <3>2, OperandAnnounced
    <3>4. Announced(x, i, r, 2)
      BY <3>3
    <3>5. Announced(x, i, w, 2 + 1)
      BY <2>3, <2>4, <2>5, <2>7, <3>4, OperandAnnounced
    <3> QED
      BY <3>5
  <2> QED
    BY <2>1, <2>5, <2>6, <2>7 DEF y
<1>3. CASE i.op = "compare" \/ i.op = "update"
  <2> DEFINE r == Read(x, i.dst, n)
             s == Read(r, i.src, n)
             w == Write(s, i.dst, n, i.value)
  <2>1. y = IF i.op = "update" THEN w ELSE s
    BY <1>3 DEF Execute
  <2>2. /\ PlannedAccesses(i)[1] = Plan("read", i.dst, n) /\ PlannedAccesses(i)[2] = Plan("read", i.src, n)
        /\ 1 \in DOMAIN PlannedAccesses(i) /\ 2 \in DOMAIN PlannedAccesses(i)
        /\ i.op = "update" => 3 \in DOMAIN PlannedAccesses(i) /\ PlannedAccesses(i)[3] = Plan("write", i.dst, n)
    BY <1>3 DEF PlannedAccesses
  <2> HIDE DEF n, y
  <2>3. Good(r) /\ SameCpu(x, r) /\ Grows(x, r) /\ (r.status = "ok" => MadeAt(x, r, "read", i.dst, n))
    BY <1>0, ReadMakes
  <2> HIDE DEF r
  <2>4. Good(s) /\ SameCpu(r, s) /\ Grows(r, s) /\ (s.status = "ok" => MadeAt(r, s, "read", i.src, n))
    BY <1>0, <2>3, ReadMakes
  <2> HIDE DEF s
  <2>5. Good(w) /\ SameCpu(s, w) /\ Grows(s, w) /\ (w.status = "ok" => MadeAt(s, w, "write", i.dst, n))
    BY <1>0, <2>4, WriteMakes
  <2> HIDE DEF w
  <2>6. Grows(x, s) /\ SameCpu(x, s) /\ SameCpu(x, x)
    BY <2>3, <2>4, GrowsOn DEF SameCpu
  <2>7. Grows(x, w) /\ SameCpu(x, w)
    BY <2>4, <2>5, <2>6, GrowsOn DEF SameCpu
  <2>8. ASSUME s.status = "ok", x.made = <<>> PROVE Announced(x, i, s, 2)
    <3>1. r.status = "ok"
      BY <2>4, <2>8 DEF Grows
    <3>2. Announced(x, i, x, 0)
      BY <2>8, NothingMade
    <3>3. Announced(x, i, r, 0 + 1)
      BY <2>2, <2>3, <2>6, <3>1, <3>2, OperandAnnounced
    <3>4. Announced(x, i, r, 1)
      BY <3>3
    <3>5. Announced(x, i, s, 1 + 1)
      BY <2>2, <2>3, <2>4, <2>8, <3>4, OperandAnnounced
    <3> QED
      BY <3>5
  <2>9. CASE i.op = "update"
    <3>1. ASSUME w.status = "ok", x.made = <<>> PROVE Announced(x, i, w, 3)
      <4>1. s.status = "ok"
        BY <2>5, <3>1 DEF Grows
      <4>2. Announced(x, i, s, 2)
        BY <2>8, <3>1, <4>1
      <4>3. Announced(x, i, w, 2 + 1)
        BY <2>2, <2>4, <2>5, <2>6, <2>9, <3>1, <4>2, OperandAnnounced
      <4> QED
        BY <4>3
    <3> QED
      BY <2>1, <2>5, <2>7, <2>9, <3>1 DEF y
  <2>10. CASE i.op = "compare"
    <3>1. ASSUME s.status = "ok", x.made = <<>> PROVE Announced(x, i, s, 3)
      <4>1. Announced(x, i, s, 2) /\ Len(s.made) \in Nat
        BY <2>4, <2>8, <3>1, Lengths
      <4>2. Len(s.made) <= 3
        BY <4>1 DEF Announced
      <4> QED
        BY <4>1, <4>2 DEF Announced
    <3> QED
      BY <2>1, <2>4, <2>6, <2>10, <3>1 DEF y
  <2> QED
    BY <1>3, <2>9, <2>10
<1> QED
  BY <1>2, <1>3

LEMMA PushAnnounced ==
  ASSUME RunTyped, NEW STATE x, Good(x), NEW STATE i, i \in Instruction, i.op = "push"
  PROVE  LET y == Execute(x, i) IN
         /\ Good(y) /\ Grows(x, y) /\ SameFrames(x, y)
         /\ y.status = "ok" /\ x.made = <<>> => Announced(x, i, y, 3)
<1> DEFINE r == Read(x, i.src, Slot)
           w == Push(r, i.value, "implicit")
           y == Execute(x, i)
           a == Below(x.esp, Slot)
<1>0. i.src \in Operand /\ Slot \in Nat \ {0} /\ "implicit" \in Makers
  BY SlotIsPositive DEF Instruction, Makers
<1>1. y = w
  BY DEF Execute
<1>2. /\ 1 \in DOMAIN PlannedAccesses(i) /\ 2 \in DOMAIN PlannedAccesses(i)
      /\ PlannedAccesses(i)[1] = Plan("read", i.src, Slot)
      /\ PlannedAccesses(i)[2] = Plan("write", TopOfStack(-Slot), Slot)
  BY DEF PlannedAccesses
<1> HIDE DEF y
<1>3. Good(r) /\ SameCpu(x, r) /\ Grows(x, r) /\ (r.status = "ok" => MadeAt(x, r, "read", i.src, Slot))
  BY <1>0, ReadMakes
<1> HIDE DEF r
<1>4. /\ Good(w) /\ SameFrames(r, w) /\ Grows(r, w)
      /\ w.status = "ok" => MadeOne(r, w, "write", a, Slot, "implicit")
  BY <1>0, <1>3, PushMakes DEF SameCpu
<1> HIDE DEF w
<1>5. Grows(x, w) /\ SameFrames(x, w) /\ SameCpu(x, x)
  BY <1>3, <1>4, GrowsOn DEF SameCpu, SameFrames
<1>6. ASSUME w.status = "ok", x.made = <<>> PROVE Announced(x, i, w, 3)
  <2>1. r.status = "ok"
    BY <1>4, <1>6 DEF Grows
  <2>2. Announced(x, i, x, 1)
    BY <1>6, NothingMade
  <2>3. Announced(x, i, r, 1 + 1)
    BY <1>2, <1>3, <1>5, <2>1, <2>2, OperandAnnounced
  <2>4. Announced(x, i, r, 2)
    BY <2>3
  <2>5. a \in Resolve(x, TopOfStack(-Slot))
    <3>1. x.esp + (-Slot) = x.esp - Slot
      BY <1>0 DEF Good
    <3> QED
      BY <3>1 DEF Resolve, TopOfStack, Below
  <2> HIDE DEF a
  <2>6. LET p == PlannedAccesses(i)[2] IN
        p.kind = "write" /\ p.width = Slot /\ a \in Resolve(x, p.operand) /\ ("implicit" = "local" <=> p.operand.kind = "local")
    BY <1>2, <2>5 DEF Plan, TopOfStack
  <2>7. Announced(x, i, w, 2 + 1)
    <3>1. MadeOne(r, w, "write", a, Slot, "implicit")
      BY <1>4, <1>6
    <3> QED
      BY <1>2, <1>3, <1>4, <2>4, <2>6, <3>1, OneAnnounced
  <2> QED
    BY <2>7
<1> QED
  BY <1>1, <1>4, <1>5, <1>6 DEF y

LEMMA PopAnnounced ==
  ASSUME RunTyped, NEW STATE x, Good(x), NEW STATE i, i \in Instruction, i.op = "pop"
  PROVE  LET y == Execute(x, i) IN
         /\ Good(y) /\ Grows(x, y) /\ y.op = x.op /\ y.frames = x.frames
         /\ y.status = "ok" /\ x.made = <<>> => Announced(x, i, y, 3)
<1> DEFINE o == IF i.dst.kind = "esp" THEN [i.dst EXCEPT !.disp = @ + Slot] ELSE i.dst
           y == Pop(x, i)
<1>1. Execute(x, i) = y
  BY DEF Execute
<1>2. /\ 1 \in DOMAIN PlannedAccesses(i) /\ 2 \in DOMAIN PlannedAccesses(i)
      /\ PlannedAccesses(i)[1] = Plan("read", TopOfStack(0), Slot)
      /\ PlannedAccesses(i)[2] = Plan("write", o, Slot)
  BY DEF PlannedAccesses
<1>3. o.kind = i.dst.kind
  BY DEF Instruction, Operand
<1>4. /\ Good(y) /\ Grows(x, y) /\ y.op = x.op /\ y.frames = x.frames
      /\ y.status = "ok" /\ x.made = <<>> =>
              /\ Len(y.made) = IF InMemory(i.dst) THEN 2 ELSE 1
              /\ LET m == y.made[1] IN
                 m.access.kind = "read" /\ m.access.address = x.esp /\ m.access.width = Slot /\ m.by = "implicit"
              /\ InMemory(i.dst) => LET m == y.made[2] IN
                 /\ m.access.kind = "write" /\ m.access.address \in Resolve(x, o) /\ m.access.width = Slot
                 /\ m.by = i.dst.kind
  BY PopMakes
<1> HIDE DEF y, o
<1>5. ASSUME y.status = "ok", x.made = <<>> PROVE Announced(x, i, y, 3)
  <2>1. Len(y.made) \in {1, 2} /\ (Len(y.made) = 2 => InMemory(i.dst))
    <3>1. Len(y.made) = IF InMemory(i.dst) THEN 2 ELSE 1
      BY <1>4, <1>5
    <3>2. CASE InMemory(i.dst)
      BY <3>1, <3>2
    <3>3. CASE ~InMemory(i.dst)
      BY <3>1, <3>3
    <3> QED
      BY <3>2, <3>3
  <2>2. Foretold(x, i, y.made[1])
    <3>1. 1 \in 1 .. Len(y.made)
      BY <2>1
    <3>2. y.made[1].access \in Access /\ Sound(y.made[1].access)
      <4>1. y.made \in Seq(MadeAccess)
        BY <1>4 DEF Good, Mirrored
      <4>2. y.made[1] \in MadeAccess
        BY <3>1, <4>1
      <4> QED
        BY <1>4, <1>5, <3>1, <4>2 DEF Good, MadeAccess
    <3>3. x.esp \in Resolve(x, TopOfStack(0))
      BY <1>4, <1>5, <3>2, TopIsEsp
    <3> QED
      BY <1>2, <1>4, <1>5, <3>3 DEF Foretold, Plan, TopOfStack
  <2>3. ASSUME Len(y.made) = 2 PROVE Foretold(x, i, y.made[2])
    BY <1>2, <1>3, <1>4, <1>5, <2>1, <2>3 DEF Foretold, Plan
  <2>4. \A k \in 1 .. Len(y.made) : Foretold(x, i, y.made[k])
    <3> SUFFICES ASSUME NEW k \in 1 .. Len(y.made) PROVE Foretold(x, i, y.made[k])
      OBVIOUS
    <3>1. k = 1 \/ (k = 2 /\ Len(y.made) = 2)
      <4>1. \A n \in {1, 2} : \A j \in 1 .. n : j = 1 \/ (j = 2 /\ n = 2)
        OBVIOUS
      <4> QED
        BY <2>1, <4>1
    <3> QED
      BY <2>2, <2>3, <3>1
  <2>5. Len(y.made) <= 3
    <3>1. \A n \in {1, 2} : n <= 3
      OBVIOUS
    <3> QED
      BY <2>1, <3>1
  <2> QED
    BY <2>4, <2>5 DEF Announced
<1> QED
  BY <1>1, <1>4, <1>5

LEMMA AdjustAnnounced ==
  ASSUME RunTyped, NEW STATE x, Good(x), NEW STATE i, i \in Instruction, i.op = "adjust"
  PROVE  LET y == Execute(x, i) IN
         /\ Good(y) /\ Grows(x, y) /\ y.op = x.op /\ y.frames = x.frames
         /\ y.status = "ok" /\ x.made = <<>> => Announced(x, i, y, 3)
<1> DEFINE y == [x EXCEPT !.esp = Above(x.esp, i.value)]
<1>1. Execute(x, i) = y
  BY DEF Execute
<1>2. DOMAIN y = Fields /\ y.esp = Above(x.esp, i.value) /\ \A f \in Fields \ {"esp"} : y[f] = x[f]
  BY DEF Good, Fields
<1> HIDE DEF y
<1>3. y.mem = x.mem /\ y.made = x.made /\ y.delta = x.delta /\ y.ebp = x.ebp /\ y.proc = x.proc
      /\ y.nextFrame = x.nextFrame /\ y.frames = x.frames /\ y.op = x.op /\ y.status = x.status
  BY <1>2 DEF Fields
<1>4. y.esp \in Int
  <2>1. UMax + 1 \in Nat \ {0} /\ x.esp + i.value \in Int
    BY LayoutAssumption DEF Good, Instruction
  <2>2. (x.esp + i.value) % (UMax + 1) \in Int
    BY <2>1, DivModBasics
  <2> QED
    BY <1>2, <2>2 DEF Above
<1>5. Good(y) /\ Grows(x, y)
  <2>1. Placed(x.mem) /\ x.ebp \in Int /\ x.nextFrame \in Nat /\ x.proc \in Procs
        /\ x.frames \in Seq(Frame) /\ \A k \in 1 .. Len(x.frames) : x.frames[k].locals = run.procs[x.frames[k].proc].locals
    BY DEF Good
  <2> QED
    BY <1>2, <1>3, <1>4, <2>1, StaysGood
<1> QED
  BY <1>1, <1>3, <1>5, NothingMade

LEMMA CaptureMakes ==
  ASSUME RunTyped, NEW STATE x, Good(x), NEW STATE i, i \in Instruction, i.op = "capture"
  PROVE  LET y == Execute(x, i) IN
         /\ Good(y) /\ Grows(x, y) /\ y.op = x.op /\ y.frames = x.frames
         /\ y.status = "ok" /\ x.made = <<>> => Len(y.made) <= 3
<1> DEFINE r == Read(x, i.src, Slot)
           w == [r EXCEPT !.pending = TRUE]
           y == Execute(x, i)
<1>0. i.src \in Operand /\ Slot \in Nat \ {0}
  BY SlotIsPositive DEF Instruction
<1>1. y = IF r.status # "ok" THEN r ELSE w
  <2>1. y = Then(r, LAMBDA q : [q EXCEPT !.pending = TRUE])
    BY DEF Execute
  <2> HIDE DEF r, y
  <2> QED
    BY <2>1 DEF Then, Seen, The
<1> HIDE DEF y
<1>2. Good(r) /\ SameCpu(x, r) /\ Grows(x, r) /\ (r.status = "ok" => MadeAt(x, r, "read", i.src, Slot))
  BY <1>0, ReadMakes
<1> HIDE DEF r
<1>3. DOMAIN w = Fields /\ \A f \in Fields \ {"pending"} : w[f] = r[f]
  BY <1>2 DEF Good, Fields
<1> HIDE DEF w
<1>4. w.mem = r.mem /\ w.made = r.made /\ w.delta = r.delta /\ w.esp = r.esp /\ w.ebp = r.ebp /\ w.proc = r.proc
      /\ w.nextFrame = r.nextFrame /\ w.frames = r.frames /\ w.op = r.op /\ w.status = r.status
  BY <1>3 DEF Fields
<1>5. Good(w) /\ Grows(r, w)
  <2>1. Placed(r.mem) /\ r.esp \in Int /\ r.ebp \in Int /\ r.nextFrame \in Nat /\ r.proc \in Procs
        /\ r.frames \in Seq(Frame) /\ \A k \in 1 .. Len(r.frames) : r.frames[k].locals = run.procs[r.frames[k].proc].locals
    BY <1>2 DEF Good
  <2> QED
    BY <1>2, <1>3, <1>4, <2>1, StaysGood
<1>6. Grows(x, w)
  BY <1>2, <1>5, GrowsOn
<1>7. ASSUME r.status = "ok", x.made = <<>> PROVE Len(r.made) <= 3
  <2>1. Len(x.made) = 0
    BY <1>7
  <2>2. Len(r.made) \in {0, 1}
    BY <1>2, <1>7, <2>1 DEF MadeAt, MadeOne
  <2>3. \A n \in {0, 1} : n <= 3
    OBVIOUS
  <2> QED
    BY <2>2, <2>3
<1> QED
  BY <1>1, <1>2, <1>4, <1>5, <1>6, <1>7 DEF y, SameCpu

Simple == {"mov", "update", "compare", "xchg", "push", "pop", "adjust"}

NoneNamed(y) == \A k \in 1 .. Len(y.made) : y.made[k].by \in Unnamed

\* What an instruction may have done when it succeeded from a state without accesses.
Outcome(x, y, i) ==
  /\ i.op \in Simple => y.frames = x.frames /\ Announced(x, i, y, 3)
  /\ i.op = "capture" => y.frames = x.frames /\ Len(y.made) <= 3
  /\ i.op = "call" => /\ Len(y.made) >= 1 /\ Foretold(x, i, y.made[1]) /\ OnlyStack(y, 1, 2)
                      /\ (Len(y.made) > 1 \/ y.frames # x.frames) => Stacked(y.made[1])
  /\ i.op = "invoke" => Len(y.made) >= 1 /\ Stacked(y.made[1]) /\ OnlyStack(y, 2, 3)
  /\ i.op = "ret" => Len(y.made) <= 2 /\ (x.frames = <<>> => y.frames = <<>> /\ Announced(x, i, y, 1))
  /\ i.op \in {"call", "invoke", "ret"} => NoneNamed(y)

LEMMA ExecuteMakes ==
  ASSUME RunTyped, LocalsTyped, NEW STATE x, Good(x), x.status = "ok", NEW STATE i, i \in Instruction
  PROVE  LET y == Execute(x, i) IN
         /\ Good(y) /\ Grows(x, y) /\ y.op = x.op
         /\ y.status = "ok" /\ x.made = <<>> => Outcome(x, y, i)
<1> DEFINE y == Execute(x, i)
<1>1. CASE i.op \in {"mov", "update", "compare", "xchg"}
  BY <1>1, ReadsAndWrites DEF SameCpu, Outcome, Simple
<1>2. CASE i.op = "push"
  BY <1>2, PushAnnounced DEF SameFrames, Outcome, Simple
<1>3. CASE i.op = "pop"
  BY <1>3, PopAnnounced DEF Outcome, Simple
<1>4. CASE i.op = "adjust"
  BY <1>4, AdjustAnnounced DEF Outcome, Simple
<1>5. CASE i.op = "capture"
  BY <1>5, CaptureMakes DEF Outcome, Simple
<1>6. CASE i.op = "call"
  <2>1. y = Call(x)
    BY <1>6 DEF Execute
  <2> HIDE DEF y
  <2>2. /\ Good(y) /\ Grows(x, y) /\ y.op = x.op
        /\ y.status = "ok" /\ x.made = <<>> =>
              /\ Len(y.made) >= 1
              /\ LET m == y.made[1] IN
                 /\ m.access.kind = "write" /\ m.access.address = Below(x.esp, Slot) /\ m.access.width = Slot
                 /\ m.by = "implicit"
              /\ (Len(y.made) > 1 \/ y.frames # x.frames) => Stacked(y.made[1])
              /\ OnlyStack(y, 1, 2)
    BY <2>1, CallMakes
  <2>3. ASSUME y.status = "ok", x.made = <<>> PROVE Foretold(x, i, y.made[1])
    <3>1. 1 \in DOMAIN PlannedAccesses(i) /\ PlannedAccesses(i)[1] = Plan("write", TopOfStack(-Slot), Slot)
      BY <1>6 DEF PlannedAccesses
    <3>2. Below(x.esp, Slot) \in Resolve(x, TopOfStack(-Slot))
      <4>1. x.esp + (-Slot) = x.esp - Slot
        BY SlotIsPositive DEF Good
      <4> QED
        BY <4>1 DEF Resolve, TopOfStack, Below
    <3> QED
      BY <2>2, <2>3, <3>1, <3>2 DEF Foretold, Plan, TopOfStack
  <2>4. ASSUME y.status = "ok", x.made = <<>> PROVE NoneNamed(y)
    <3>1. Len(y.made) \in Nat
      BY <2>2, Lengths
    <3>2. ASSUME NEW k \in 1 .. Len(y.made) PROVE y.made[k].by \in Unnamed
      <4>1. k = 1 \/ k \in 1 + 1 .. Len(y.made)
        BY <3>1
      <4>2. CASE k = 1
        BY <2>2, <2>4, <4>2 DEF Unnamed
      <4>3. CASE k \in 1 + 1 .. Len(y.made)
        BY <2>2, <2>4, <4>3 DEF OnlyStack
      <4> QED
        BY <4>1, <4>2, <4>3
    <3> QED
      BY <3>2 DEF NoneNamed
  <2> QED
    BY <1>6, <2>2, <2>3, <2>4 DEF y, Outcome, Simple
<1>7. CASE i.op = "invoke"
  <2>1. y = Invoke(x, i)
    BY <1>7 DEF Execute
  <2> HIDE DEF y
  <2>2. /\ Good(y) /\ Grows(x, y) /\ y.op = x.op
        /\ y.status = "ok" /\ x.made = <<>> =>
              /\ Len(y.made) >= 2 /\ Stacked(y.made[1]) /\ OnlyStack(y, 2, 3)
              /\ y.made[1].by = "implicit" /\ y.made[2].by = "implicit"
    BY <2>1, InvokeMakes
  <2>3. ASSUME y.status = "ok", x.made = <<>> PROVE NoneNamed(y)
    <3>1. Len(y.made) \in Nat
      BY <2>2, Lengths
    <3>2. ASSUME NEW k \in 1 .. Len(y.made) PROVE y.made[k].by \in Unnamed
      <4>1. k \in {1, 2} \/ k \in 2 + 1 .. Len(y.made)
        BY <3>1
      <4>2. CASE k \in {1, 2}
        BY <2>2, <2>3, <4>2 DEF Unnamed
      <4>3. CASE k \in 2 + 1 .. Len(y.made)
        BY <2>2, <2>3, <4>3 DEF OnlyStack
      <4> QED
        BY <4>1, <4>2, <4>3
    <3> QED
      BY <3>2 DEF NoneNamed
  <2> QED
    BY <1>7, <2>2, <2>3 DEF y, Outcome, Simple
<1>8. CASE i.op = "ret"
  <2>1. y = Ret(x, i)
    BY <1>8 DEF Execute
  <2> HIDE DEF y
  <2>2. /\ Good(y) /\ Grows(x, y) /\ y.op = x.op
        /\ y.status = "ok" /\ x.made = <<>> =>
              /\ Len(y.made) <= 2 /\ \A k \in 1 .. Len(y.made) : y.made[k].by = "implicit"
              /\ x.frames = <<>> =>
                   /\ y.frames = <<>> /\ Len(y.made) <= 1
                   /\ Len(y.made) = 1 => LET m == y.made[1] IN
                        m.access.kind = "read" /\ m.access.address = x.esp /\ m.access.width = Slot /\ m.by = "implicit"
    <3>1. i.value \in Int
      BY DEF Instruction
    <3> QED
      BY <2>1, <3>1, RetMakes
  <2>3. ASSUME y.status = "ok", x.made = <<>>, x.frames = <<>> PROVE Announced(x, i, y, 1)
    <3>1. Len(y.made) <= 1 /\ Len(y.made) \in Nat
      BY <2>2, <2>3, Lengths
    <3>2. ASSUME NEW k \in 1 .. Len(y.made) PROVE Foretold(x, i, y.made[k])
      <4>1. k = 1 /\ Len(y.made) = 1
        <5>1. \A n \in Nat : n <= 1 => \A j \in 1 .. n : j = 1 /\ n = 1
          OBVIOUS
        <5> QED
          BY <3>1, <5>1
      <4>2. y.made[1].access \in Access /\ Sound(y.made[1].access)
        <5>1. y.made \in Seq(MadeAccess)
          BY <2>2 DEF Good, Mirrored
        <5>2. y.made[1] \in MadeAccess
          BY <4>1, <5>1
        <5> QED
          BY <2>2, <2>3, <4>1, <5>2 DEF Good, MadeAccess
      <4>3. x.esp \in Resolve(x, TopOfStack(0))
        BY <2>2, <2>3, <4>1, <4>2, TopIsEsp
      <4>4. 1 \in DOMAIN PlannedAccesses(i) /\ PlannedAccesses(i)[1] = Plan("read", TopOfStack(0), Slot)
        BY <1>8 DEF PlannedAccesses
      <4> QED
        BY <2>2, <2>3, <4>1, <4>3, <4>4 DEF Foretold, Plan, TopOfStack
    <3> QED
      BY <3>1, <3>2 DEF Announced
  <2>4. y.status = "ok" /\ x.made = <<>> => NoneNamed(y)
    BY <2>2 DEF NoneNamed, Unnamed
  <2> QED
    BY <1>8, <2>2, <2>3, <2>4 DEF y, Outcome, Simple
<1>9. i.op \in Operations
  BY DEF Instruction
<1> QED
  BY <1>1, <1>2, <1>3, <1>4, <1>5, <1>6, <1>7, <1>8, <1>9 DEF Operations

LEMMA OutcomeAlike ==
  ASSUME NEW STATE x, NEW STATE u, u.esp = x.esp, u.frames = x.frames, u.proc = x.proc,
         NEW STATE y, NEW STATE v, v.made = y.made, v.frames = y.frames, NEW STATE i, Outcome(x, y, i)
  PROVE  Outcome(u, v, i)
<1>1. \A o : Resolve(u, o) = Resolve(x, o)
  BY DEF Resolve, FrameHere, Declared
<1>2. \A m : Foretold(u, i, m) <=> Foretold(x, i, m)
  BY <1>1 DEF Foretold
<1>3. \A b : Announced(u, i, v, b) <=> Announced(x, i, y, b)
  BY <1>2 DEF Announced
<1>4. \A k, n : OnlyStack(v, k, n) <=> OnlyStack(y, k, n)
  BY DEF OnlyStack
<1>5. NoneNamed(v) <=> NoneNamed(y)
  BY DEF NoneNamed
<1> QED
  BY <1>2, <1>3, <1>4, <1>5 DEF Outcome

LEMMA SteppedMakes ==
  ASSUME RunTyped, LocalsTyped, Ready(vm), vm.status = "ok", NEW STATE i, i \in Instruction
  PROVE  LET z == Stepped(i) IN
         /\ Good(z) /\ z.op = i.op
         /\ z.status = "ok" => IF EntersEntryFrame(vm) THEN Len(z.made) >= 1 /\ Stacked(z.made[1])
                               ELSE Outcome(vm, z, i)
<1> DEFINE x == [vm EXCEPT !.op = i.op, !.delta = <<>>, !.made = <<>>, !.mem = Forgetting(@)]
           x1 == [x EXCEPT !.entered = TRUE]
           f == SetupFrame(x1, "entry", "frame")
           y == IF EntersEntryFrame(x) THEN f ELSE x
           e == IF y.status # "ok" THEN y ELSE Execute(y, i)
           w == [e EXCEPT !.count = @ + 1]
           z == Stepped(i)
<1>1. z = IF e.status # "ok" THEN e ELSE w
  <2>1. z = Then(Then(y, LAMBDA u : Execute(u, i)), LAMBDA u : [u EXCEPT !.count = @ + 1])
    BY DEF Stepped
  <2> HIDE DEF y, z
  <2>2. Then(y, LAMBDA u : Execute(u, i)) = e
    BY DEF Then, Seen, The
  <2>3. z = Then(e, LAMBDA u : [u EXCEPT !.count = @ + 1])
    BY <2>1, <2>2
  <2> HIDE DEF e
  <2> QED
    BY <2>3 DEF Then, Seen, The
<1> HIDE DEF z
<1>2. /\ DOMAIN x = Fields /\ x.op = i.op /\ x.delta = <<>> /\ x.made = <<>> /\ x.mem = Forgetting(vm.mem)
      /\ \A g \in Fields \ {"op", "delta", "made", "mem"} : x[g] = vm[g]
  BY DEF Ready, Fields
<1> HIDE DEF x
<1>3. x.esp = vm.esp /\ x.ebp = vm.ebp /\ x.proc = vm.proc /\ x.nextFrame = vm.nextFrame /\ x.frames = vm.frames
      /\ x.entered = vm.entered /\ x.status = vm.status
  BY <1>2 DEF Fields
<1>4. Good(x)
  <2>1. Placed(x.mem)
    BY <1>2, ForgettingKeepsPlaces DEF Ready
  <2>2. Mirrored(x)
    BY <1>2 DEF Mirrored
  <2> QED
    BY <1>2, <1>3, <2>1, <2>2 DEF Good, Ready
<1>5. EntersEntryFrame(x) <=> EntersEntryFrame(vm)
  BY <1>3 DEF EntersEntryFrame
<1>6. /\ DOMAIN x1 = Fields /\ \A g \in Fields \ {"entered"} : x1[g] = x[g]
  BY <1>2 DEF Fields
<1> HIDE DEF x1
<1>7. x1.esp = x.esp /\ x1.ebp = x.ebp /\ x1.proc = x.proc /\ x1.nextFrame = x.nextFrame /\ x1.frames = x.frames
      /\ x1.status = x.status /\ x1.op = x.op /\ x1.made = x.made /\ x1.delta = x.delta /\ x1.mem = x.mem
  BY <1>6 DEF Fields
<1>8. Good(x1)
  <2>1. Placed(x.mem) /\ x.esp \in Int /\ x.ebp \in Int /\ x.nextFrame \in Nat /\ x.proc \in Procs
        /\ x.frames \in Seq(Frame) /\ \A k \in 1 .. Len(x.frames) : x.frames[k].locals = run.procs[x.frames[k].proc].locals
    BY <1>4 DEF Good
  <2> QED
    BY <1>4, <1>6, <1>7, <2>1, StaysGood
<1>9. EntersEntryFrame(vm) =>
      /\ Good(f) /\ Grows(x1, f) /\ f.op = x1.op
      /\ f.status = "ok" => /\ Len(f.made) >= Len(x1.made) + 1 /\ OnlyStack(f, Len(x1.made), Len(x1.made) + 1)
  <2> SUFFICES ASSUME EntersEntryFrame(vm)
               PROVE  /\ Good(f) /\ Grows(x1, f) /\ f.op = x1.op
                      /\ f.status = "ok" => /\ Len(f.made) >= Len(x1.made) + 1
                                            /\ OnlyStack(f, Len(x1.made), Len(x1.made) + 1)
    OBVIOUS
  <2>1. "entry" \in Procs /\ "frame" \in Makers /\ "frame" \in Unnamed
    BY DEF Procs, Makers, Unnamed
  <2> QED
    BY <1>8, <2>1, FrameMakes
<1> HIDE DEF f
<1>11. ~EntersEntryFrame(vm) => y = x
  BY <1>5
<1>12. EntersEntryFrame(vm) => y = f
  BY <1>5
<1> HIDE DEF y
<1>10. Good(y) /\ y.op = i.op
  BY <1>2, <1>4, <1>7, <1>9, <1>11, <1>12
<1>13. Good(e) /\ e.op = i.op
  <2>1. CASE y.status # "ok"
    BY <1>10, <2>1
  <2>2. CASE y.status = "ok"
    BY <1>10, <2>2, ExecuteMakes
  <2> QED
    BY <2>1, <2>2
<1>14. ASSUME e.status = "ok"
       PROVE  y.status = "ok" /\ Grows(y, e) /\ (y.made = <<>> => Outcome(y, e, i))
  <2>1. y.status = "ok" /\ e = Execute(y, i)
    BY <1>14
  <2> QED
    BY <1>10, <1>14, <2>1, ExecuteMakes
<1> HIDE DEF e
<1>15. DOMAIN w = Fields /\ \A g \in Fields \ {"count"} : w[g] = e[g]
  BY <1>13 DEF Good, Fields
<1> HIDE DEF w
<1>16. w.mem = e.mem /\ w.made = e.made /\ w.delta = e.delta /\ w.esp = e.esp /\ w.ebp = e.ebp /\ w.proc = e.proc
      /\ w.nextFrame = e.nextFrame /\ w.frames = e.frames /\ w.op = e.op /\ w.status = e.status
  BY <1>15 DEF Fields
<1>17. Good(w)
  <2>1. Placed(e.mem) /\ e.esp \in Int /\ e.ebp \in Int /\ e.nextFrame \in Nat /\ e.proc \in Procs
        /\ e.frames \in Seq(Frame) /\ \A k \in 1 .. Len(e.frames) : e.frames[k].locals = run.procs[e.frames[k].proc].locals
    BY <1>13 DEF Good
  <2> QED
    BY <1>13, <1>15, <1>16, <2>1, StaysGood
<1>18. Good(z) /\ z.op = i.op /\ z.made = e.made /\ z.frames = e.frames /\ z.status = e.status
  BY <1>1, <1>13, <1>16, <1>17
<1>19. ASSUME z.status = "ok", EntersEntryFrame(vm)
       PROVE  Len(z.made) >= 1 /\ Stacked(z.made[1])
  <2>1. y = f /\ f.status = "ok" /\ Grows(f, e) /\ Len(x1.made) = 0 /\ Good(f)
    BY <1>2, <1>7, <1>9, <1>12, <1>14, <1>18, <1>19
  <2>2. Len(f.made) >= 1 /\ OnlyStack(f, 0, 1) /\ Len(f.made) \in Nat /\ Len(e.made) \in Nat
    <3>1. Len(x1.made) + 1 = 1
      BY <2>1
    <3> QED
      BY <1>9, <1>13, <1>19, <2>1, <3>1, Lengths
  <2>3. 1 \in 0 + 1 .. Len(f.made) /\ 1 \in 1 .. Len(f.made)
    BY <2>2
  <2>4. Stacked(f.made[1])
    BY <2>2, <2>3 DEF OnlyStack, Stacked
  <2>5. e.made[1] = f.made[1] /\ Len(e.made) >= 1
    BY <2>1, <2>2, <2>3 DEF Grows
  <2> QED
    BY <1>18, <2>4, <2>5
<1>20. ASSUME z.status = "ok", ~EntersEntryFrame(vm)
       PROVE  Outcome(vm, z, i)
  <2>1. y = x /\ Outcome(x, e, i)
    BY <1>2, <1>11, <1>14, <1>18, <1>20
  <2> QED
    BY <1>3, <1>18, <2>1, OutcomeAlike
<1> QED
  BY <1>18, <1>19, <1>20 DEF z

-----------------------------------------------------------------------------
(* The checks *)

Levels == {"capacity", "image"}

\* The program fits its layout.
RunFits ==
  /\ \A k \in {Data, Const} :
       /\ run.layout.regions[k].base + FixedSize[k] <= UMax
       /\ run.image[k] \in Nat /\ run.image[k] <= SizeIn(run.layout, k)
       /\ run.layout.mode = "fixed" => run.layout.regions[k].base = FixedBase[k]
  /\ run.settings \in [capacity : Choice, image : Choice, objects : Choice, uninit : Choice]
  /\ run.symbols \in Seq(Symbol)

LEMMA LeastOfTwo ==
  ASSUME NEW a \in Int, NEW b \in Int
  PROVE  Min({a, b}) = IF a <= b THEN a ELSE b
<1> DEFINE c == IF a <= b THEN a ELSE b
           P(x) == x \in {a, b} /\ \A y \in {a, b} : x <= y
<1>1. P(c)
  OBVIOUS
<1>2. \A x : P(x) => x = c
  OBVIOUS
<1>3. Min({a, b}) = CHOOSE x \in {a, b} : \A y \in {a, b} : x <= y
  BY DEF Min
<1>4. P(Min({a, b}))
  BY <1>1, <1>3
<1> QED
  BY <1>2, <1>4

\* Where a sound access lies.
LEMMA SoundLies ==
  ASSUME RunTyped, NEW STATE a, a \in Access, Sound(a)
  PROVE  /\ a.address \in Nat /\ a.width \in Nat \ {0} /\ Fits(a.address, a.width)
         /\ \E k \in Kinds : /\ Holder(a.address) = {k} /\ a.kind \in Memory!Granted(k)
                             /\ run.layout.regions[k].base <= a.address
                             /\ a.address + a.width <= run.layout.regions[k].limit
<1>1. PICK k \in Kinds : /\ run.layout.regions[k].base <= a.address
                         /\ a.address + a.width <= run.layout.regions[k].limit
                         /\ a.kind \in Memory!Granted(k)
  BY DEF Sound
<1>2. run.layout.regions[k].base \in 0 .. UMax /\ run.layout.regions[k].limit \in 0 .. UMax /\ UMax \in Nat
  BY Places, SlotIsPositive
<1>3. a.address \in Int /\ a.width \in Nat \ {0}
  BY DEF Access
<1>4. a.address \in Nat /\ a.address + a.width - 1 <= UMax /\ a.address < run.layout.regions[k].limit
  BY <1>1, <1>2, <1>3
<1>5. Holder(a.address) = {k}
  BY <1>1, <1>3, <1>4, HolderIs
<1> QED
  BY <1>1, <1>3, <1>4, <1>5 DEF Fits

LEMMA RangeIn ==
  ASSUME NEW a \in Int, NEW n \in Nat \ {0}, NEW b \in Int, NEW s \in Int
  PROVE  In(a .. a + n - 1, b, s) <=> b <= a /\ a + n <= b + s
<1>1. ASSUME b <= a, a + n <= b + s PROVE In(a .. a + n - 1, b, s)
  BY <1>1 DEF In
<1>2. ASSUME In(a .. a + n - 1, b, s) PROVE b <= a /\ a + n <= b + s
  <2>1. a \in a .. a + n - 1 /\ a + n - 1 \in a .. a + n - 1
    OBVIOUS
  <2>2. a \in b .. b + s - 1 /\ a + n - 1 \in b .. b + s - 1
    BY <1>2, <2>1 DEF In
  <2> QED
    BY <2>2
<1> QED
  BY <1>1, <1>2

LEMMA PointIn ==
  ASSUME NEW a \in Int, NEW b \in Int, NEW s \in Int
  PROVE  In({a}, b, s) <=> b <= a /\ a + 1 <= b + s
BY DEF In

\* The section checks tell the accesses beyond a section.
LEMMA LeavesIsBeyond ==
  ASSUME RunTyped, RunFits, NEW STATE a, a \in Access, Sound(a), NEW STATE level, level \in Levels
  PROVE  LeavesSection(level, a.address, a.width) <=> Beyond(level, a)
<1> DEFINE b(j) == run.layout.regions[j].base
           l(j) == run.layout.regions[j].limit
           at == a.address
           n == a.width
           e(j) == Extent(level, j)
<1>1. PICK k \in Kinds : Holder(at) = {k} /\ b(k) <= at /\ at + n <= l(k)
  BY SoundLies
<1>2. at \in Int /\ n \in Nat \ {0} /\ Fits(at, n)
  BY SoundLies
<1>3. \A j \in Kinds : b(j) \in 0 .. UMax /\ l(j) \in 0 .. UMax /\ b(j) \in Int /\ l(j) \in Int
  BY Places, LayoutAssumption
<1>4. \A j \in {Data, Const} : j \in Kinds /\ e(j) \in Nat /\ b(j) + e(j) <= UMax
  <2> SUFFICES ASSUME NEW j \in {Data, Const} PROVE j \in Kinds /\ e(j) \in Nat /\ b(j) + e(j) <= UMax
    OBVIOUS
  <2>1. j \in Kinds
    BY DEF Data, Const, Kinds
  <2>2. FixedSize[j] \in Nat
    BY <2>1, LayoutAssumption DEF Word
  <2>3. CASE level = "capacity"
    BY <2>1, <2>2, <2>3 DEF Extent, RunFits
  <2>4. CASE level = "image"
    <3>1. e(j) = run.image[j]
      BY <2>4 DEF Extent
    <3>2. run.image[j] \in Nat /\ run.image[j] <= l(j) - b(j)
      BY DEF RunFits, SizeIn
    <3>3. b(j) \in Int /\ l(j) \in Int /\ l(j) <= UMax /\ UMax \in Nat
      BY <1>3, <2>1, LayoutAssumption
    <3> HIDE DEF b, l, e
    <3> QED
      BY <2>1, <3>1, <3>2, <3>3
  <2> QED
    BY <2>3, <2>4 DEF Levels
<1>5. Bytes(a) = at .. at + n - 1
  BY DEF Bytes
<1>6. LeavesSection(level, at, n) <=>
        (e(k) = 0 \/ b(k) + e(k) > UMax \/ at + n - 1 >= Min({b(k) + e(k), l(k)}))
  <2>1. \A r \in {k} : r = k
    OBVIOUS
  <2> QED
    BY <1>1, <1>2 DEF LeavesSection
<1>7. \A j \in {Data, Const} : j # k => ~In(Bytes(a), b(j), Min({e(j), SizeIn(run.layout, j)}))
  <2> SUFFICES ASSUME NEW j \in {Data, Const}, j # k, In(Bytes(a), b(j), Min({e(j), SizeIn(run.layout, j)}))
               PROVE  FALSE
    OBVIOUS
  <2>1. SizeIn(run.layout, j) = l(j) - b(j) /\ l(j) - b(j) \in Int /\ e(j) \in Int /\ b(j) \in Int /\ l(j) \in Int
    BY <1>3, <1>4 DEF SizeIn
  <2> DEFINE m == Min({e(j), l(j) - b(j)})
  <2>2. m \in Int /\ m <= l(j) - b(j)
    <3> HIDE DEF e, b, l
    <3> QED
      BY <2>1, LeastOfTwo
  <2>3. b(j) <= at /\ at + n <= b(j) + m
    <3>1. In(at .. at + n - 1, b(j), m)
      BY <1>5, <2>1
    <3> HIDE DEF m, b, at, n
    <3> QED
      BY <1>2, <2>1, <2>2, <3>1, RangeIn
  <2> HIDE DEF m, at, n
  <2>4. at < l(j)
    <3>1. \A p, q, r, u \in Int, v \in Nat \ {0} : (r <= q - p /\ u + v <= p + r) => u < q
      OBVIOUS
    <3>2. at \in Int /\ n \in Nat \ {0} /\ b(j) \in Int /\ l(j) \in Int /\ m \in Int /\ m <= l(j) - b(j)
          /\ at + n <= b(j) + m
      BY <1>2, <2>1, <2>2, <2>3
    <3> HIDE DEF b, l
    <3> QED
      BY <3>1, <3>2
  <2>5. Holder(at) = {j}
    BY <1>2, <1>4, <2>3, <2>4, HolderIs
  <2> QED
    BY <1>1, <2>5
<1>8. CASE k \notin {Data, Const}
  <2>1. e(k) = 0
    BY <1>8 DEF Extent
  <2>2. Beyond(level, a)
    <3>1. \A j \in {Data, Const} : j # k
      BY <1>8
    <3> QED
      BY <1>7, <3>1 DEF Beyond
  <2> QED
    BY <1>6, <2>1, <2>2
<1>9. CASE k \in {Data, Const}
  <2> DEFINE m == Min({e(k), l(k) - b(k)})
             p == Min({b(k) + e(k), l(k)})
  <2>1. Beyond(level, a) <=> ~In(at .. at + n - 1, b(k), m)
    <3>1. SizeIn(run.layout, k) = l(k) - b(k)
      BY DEF SizeIn
    <3> QED
      BY <1>5, <1>7, <1>9, <3>1 DEF Beyond
  <2>2. e(k) \in Nat /\ b(k) \in Int /\ l(k) \in Int /\ b(k) + e(k) <= UMax
    BY <1>3, <1>4, <1>9
  <2> HIDE DEF e, b, l, at, n
  <2>3. m = IF e(k) <= l(k) - b(k) THEN e(k) ELSE l(k) - b(k)
    BY <2>2, LeastOfTwo
  <2>4. p = IF b(k) + e(k) <= l(k) THEN b(k) + e(k) ELSE l(k)
    BY <2>2, LeastOfTwo
  <2>5. m \in Int /\ p = b(k) + m /\ (e(k) = 0 => m <= 0)
    <3> HIDE DEF m, p
    <3> QED
      BY <2>2, <2>3, <2>4
  <2>6. In(at .. at + n - 1, b(k), m) <=> b(k) <= at /\ at + n <= b(k) + m
    <3> HIDE DEF m, p
    <3> QED
      BY <1>2, <2>2, <2>5, RangeIn
  <2>7. LeavesSection(level, at, n) <=> (e(k) = 0 \/ b(k) + e(k) > UMax \/ at + n - 1 >= p)
    BY <1>6
  <2>8. UMax \in Nat
    BY LayoutAssumption
  <2> HIDE DEF m, p
  <2>9. LeavesSection(level, at, n) <=> ~(b(k) <= at /\ at + n <= b(k) + m)
    BY <1>1, <1>2, <2>2, <2>5, <2>7, <2>8
  <2> QED
    BY <2>1, <2>6, <2>9 DEF at, n
<1> QED
  BY <1>8, <1>9

LEMMA StackIsBeyond ==
  ASSUME RunTyped, RunFits, NEW STATE a, a \in Access, Sound(a), OnStack(a.address, a.width),
         NEW STATE level, level \in Levels
  PROVE  LeavesSection(level, a.address, a.width) /\ Beyond(level, a)
<1>1. Fits(a.address, a.width)
  BY SoundLies
<1>2. Extent(level, StackRegion) = 0
  BY DEF Extent, StackRegion, Data, Const
<1>3. LeavesSection(level, a.address, a.width)
  BY <1>1, <1>2 DEF LeavesSection, OnStack
<1> QED
  BY <1>3, LeavesIsBeyond

LEMMA PlacesOfChecks ==
  ASSUME NEW m \in Nat
  PROVE  /\ \A k \in 1 .. m : /\ 2 * k - 1 \in 1 .. 2 * m /\ Level(2 * k - 1) = "capacity" /\ ((2 * k - 1) + 1) \div 2 = k
                              /\ 2 * k \in 1 .. 2 * m /\ Level(2 * k) = "image" /\ (2 * k + 1) \div 2 = k
         /\ \A n \in 1 .. 2 * m : (n + 1) \div 2 \in 1 .. m /\ Level(n) \in Levels
<1>1. \A k \in 1 .. m : /\ 2 * k - 1 \in 1 .. 2 * m /\ (2 * k - 1) % 2 = 1 /\ ((2 * k - 1) + 1) \div 2 = k
                        /\ 2 * k \in 1 .. 2 * m /\ (2 * k) % 2 = 0 /\ (2 * k + 1) \div 2 = k
  OBVIOUS
<1>2. \A n \in 1 .. 2 * m : (n + 1) \div 2 \in 1 .. m
  OBVIOUS
<1> QED
  BY <1>1, <1>2 DEF Level, Levels

LEMMA SmallerIsFinite ==
  ASSUME NEW n \in Nat, NEW s, s \subseteq 1 .. n
  PROVE  Cardinality(s) \in Nat /\ (Cardinality(s) > 0 <=> s # {})
<1>1. 1 \in Int /\ n \in Int
  OBVIOUS
<1>2. IsFiniteSet(1 .. n)
  BY <1>1, FS_Interval
<1>3. IsFiniteSet(s)
  BY <1>2, FS_Subset
<1>4. Cardinality(s) \in Nat /\ (Cardinality(s) = 0 <=> s = {})
  BY <1>3, FS_CardinalityType, FS_EmptySet
<1> DEFINE c == Cardinality(s)
<1>5. \A j \in Nat : j > 0 <=> j # 0
  OBVIOUS
<1> HIDE DEF c
<1>6. c \in Nat /\ (c = 0 <=> s = {})
  BY <1>4 DEF c
<1>7. c > 0 <=> s # {}
  BY <1>5, <1>6
<1> QED
  BY <1>6, <1>7 DEF c

\* What a pass over a list of accesses finds.
LEMMA VerdictTells ==
  ASSUME NEW STATE s, NEW STATE m, m \in Nat, DOMAIN s = 1 .. m, Len(s) = m
  PROVE  /\ SectionVerdict(s).warned \in Nat
         /\ SectionVerdict(s).stops <=>
              \E k \in 1 .. m, level \in Levels : PolicyFor(level) = Strict /\
                \E a \in s[k] : LeavesSection(level, a.address, a.width)
         /\ (\A level \in Levels : PolicyFor(level) # Strict) =>
              (SectionVerdict(s).warned > 0 <=>
                 \E k \in 1 .. m, level \in Levels : PolicyFor(level) # Off /\
                   \E a \in s[k] : LeavesSection(level, a.address, a.width))
<1> DEFINE faults == SectionFaults(s)
           strict == {n \in faults : PolicyFor(Level(n)) = Strict}
           before == {n \in faults : \A j \in strict : n < j}
           Out(k, level) == \E a \in s[k] : LeavesSection(level, a.address, a.width)
<1>1. SectionVerdict(s).stops = (strict # {}) /\ SectionVerdict(s).warned = Cardinality(before)
  BY DEF SectionVerdict
<1>2. faults = {n \in 1 .. 2 * m : PolicyFor(Level(n)) # Off /\ Out((n + 1) \div 2, Level(n))}
  BY DEF SectionFaults
<1>3. ASSUME NEW k \in 1 .. m, NEW level \in Levels, PolicyFor(level) # Off, Out(k, level)
      PROVE  \E n \in faults : Level(n) = level
  <2> HIDE DEF Out, faults
  <2>1. CASE level = "capacity"
    <3>1. 2 * k - 1 \in faults /\ Level(2 * k - 1) = level
      BY <1>2, <1>3, <2>1, PlacesOfChecks
    <3> QED
      BY <3>1
  <2>2. CASE level = "image"
    <3>1. 2 * k \in faults /\ Level(2 * k) = level
      BY <1>2, <1>3, <2>2, PlacesOfChecks
    <3> QED
      BY <3>1
  <2> QED
    BY <2>1, <2>2 DEF Levels
<1>4. ASSUME NEW n \in faults
      PROVE  \E k \in 1 .. m : Level(n) \in Levels /\ PolicyFor(Level(n)) # Off /\ Out(k, Level(n))
  <2> HIDE DEF Out, faults
  <2>1. n \in 1 .. 2 * m /\ PolicyFor(Level(n)) # Off /\ Out((n + 1) \div 2, Level(n))
    BY <1>2, <1>4
  <2>2. (n + 1) \div 2 \in 1 .. m /\ Level(n) \in Levels
    BY <2>1, PlacesOfChecks
  <2> QED
    BY <2>1, <2>2
<1>5. before \subseteq 1 .. 2 * m /\ 2 * m \in Nat
  BY <1>2
<1>6. Cardinality(before) \in Nat /\ (Cardinality(before) > 0 <=> before # {})
  <2> HIDE DEF before
  <2> QED
    BY <1>5, SmallerIsFinite
<1> HIDE DEF faults, Out
<1>7. strict # {} <=> \E k \in 1 .. m, level \in Levels : PolicyFor(level) = Strict /\ Out(k, level)
  <2>1. ASSUME strict # {} PROVE \E k \in 1 .. m, level \in Levels : PolicyFor(level) = Strict /\ Out(k, level)
    BY <1>4, <2>1
  <2>2. ASSUME NEW k \in 1 .. m, NEW level \in Levels, PolicyFor(level) = Strict, Out(k, level) PROVE strict # {}
    <3>1. PolicyFor(level) # Off
      BY <2>2 DEF Strict, Off
    <3> QED
      BY <1>3, <2>2, <3>1
  <2> QED
    BY <2>1, <2>2
<1>8. ASSUME \A level \in Levels : PolicyFor(level) # Strict
      PROVE  before # {} <=> \E k \in 1 .. m, level \in Levels : PolicyFor(level) # Off /\ Out(k, level)
  <2>1. before = faults
    BY <1>7, <1>8
  <2> QED
    BY <1>3, <1>4, <2>1
<1> QED
  BY <1>1, <1>6, <1>7, <1>8 DEF Out

\* The check behind the step.
LEMMA SectionCheckTells ==
  ASSUME NEW STATE d, d \in Seq(Access)
  PROVE  /\ SectionCheck(d).warned \in Nat
         /\ SectionCheck(d).stops <=>
              \E k \in 1 .. Len(d), level \in Levels :
                PolicyFor(level) = Strict /\ LeavesSection(level, d[k].address, d[k].width)
         /\ (\A level \in Levels : PolicyFor(level) # Strict) =>
              (SectionCheck(d).warned > 0 <=>
                 \E k \in 1 .. Len(d), level \in Levels :
                   PolicyFor(level) # Off /\ LeavesSection(level, d[k].address, d[k].width))
<1> DEFINE s == [k \in DOMAIN d |-> {d[k]}]
           m == Len(d)
<1>1. m \in Nat /\ DOMAIN d = 1 .. m
  OBVIOUS
<1>2. DOMAIN s = 1 .. m /\ Len(s) = m /\ \A k \in 1 .. m : s[k] = {d[k]}
  <2>1. s \in Seq(SUBSET Access)
    BY <1>1
  <2> QED
    BY <1>1, <2>1
<1>3. SectionCheck(d) = SectionVerdict(s)
  BY DEF SectionCheck
<1> HIDE DEF s, m
<1>4. /\ SectionVerdict(s).warned \in Nat
      /\ SectionVerdict(s).stops <=>
           \E k \in 1 .. m, level \in Levels : PolicyFor(level) = Strict /\
             \E a \in s[k] : LeavesSection(level, a.address, a.width)
      /\ (\A level \in Levels : PolicyFor(level) # Strict) =>
           (SectionVerdict(s).warned > 0 <=>
              \E k \in 1 .. m, level \in Levels : PolicyFor(level) # Off /\
                \E a \in s[k] : LeavesSection(level, a.address, a.width))
  BY <1>1, <1>2, VerdictTells
<1>5. \A k \in 1 .. m, level \in Levels : (\E a \in s[k] : LeavesSection(level, a.address, a.width)) <=>
        LeavesSection(level, d[k].address, d[k].width)
  BY <1>2
<1> QED
  BY <1>3, <1>4, <1>5 DEF m

\* The check in front of it.
LEMMA PreflightTells ==
  ASSUME RunFits, NEW STATE i, i.op \in Operations
  PROVE  /\ SectionPreflight(i).warned \in Nat
         /\ (\A level \in Levels : PolicyFor(level) # Strict) => SectionPreflight(i).warned = 0
         /\ SectionPreflight(i).stops <=>
              \E k \in DOMAIN PlannedAccesses(i), level \in Levels : PolicyFor(level) = Strict /\
                \E a \in Foreseen(PlannedAccesses(i)[k]) : LeavesSection(level, a.address, a.width)
<1> DEFINE s == [k \in DOMAIN PlannedAccesses(i) |-> Foreseen(PlannedAccesses(i)[k])]
<1>1. \E m \in Nat : DOMAIN PlannedAccesses(i) = 1 .. m
  <2>1. \/ DOMAIN PlannedAccesses(i) = 1 .. 0 \/ DOMAIN PlannedAccesses(i) = 1 .. 1
        \/ DOMAIN PlannedAccesses(i) = 1 .. 2 \/ DOMAIN PlannedAccesses(i) = 1 .. 3
    BY DEF PlannedAccesses, Operations
  <2> QED
    BY <2>1
<1>2. PICK m \in Nat : DOMAIN PlannedAccesses(i) = 1 .. m
  BY <1>1
<1>3. DOMAIN s = 1 .. m /\ Len(s) = m /\ \A k \in 1 .. m : s[k] = Foreseen(PlannedAccesses(i)[k])
  <2>1. s \in Seq({Foreseen(PlannedAccesses(i)[k]) : k \in 1 .. m})
    BY <1>2
  <2> QED
    BY <1>2, <2>1
<1>4. (\A level \in Levels : PolicyFor(level) # Strict) <=> Strict \notin {run.settings.capacity, run.settings.image}
  BY DEF Levels, PolicyFor
<1>5. SectionPreflight(i) = IF Strict \in {run.settings.capacity, run.settings.image} THEN SectionVerdict(s)
                            ELSE [stops |-> FALSE, warned |-> 0]
  BY DEF SectionPreflight
<1> HIDE DEF s
<1>6. /\ SectionVerdict(s).warned \in Nat
      /\ SectionVerdict(s).stops <=>
           \E k \in 1 .. m, level \in Levels : PolicyFor(level) = Strict /\
             \E a \in s[k] : LeavesSection(level, a.address, a.width)
  BY <1>3, VerdictTells
<1> QED
  BY <1>2, <1>3, <1>4, <1>5, <1>6

\* The accesses that begin in a LOCAL, and those that leave it, as the checks see them.
LEMMA LocalsAreKnown ==
  ASSUME LocalsTyped, NEW STATE x, Ready(x), NEW STATE a, a \in Access
  PROVE  /\ \A l \in Locals(x) : /\ l.frame \in Nat /\ l.base \in Int /\ l.size \in Nat
                                 /\ Leaves(l, a) <=> ~Enclose(l.base, l.size, a.address, a.width)
         /\ LocalAround(x, a.address, 1) \subseteq Begun(x, a) /\ Begun(x, a) \subseteq Locals(x)
         /\ Begun(x, a) # {} => LocalAround(x, a.address, 1) # {}
<1>1. a.address \in Int /\ a.width \in Nat \ {0}
  BY DEF Access
<1>2. \A l \in Locals(x) : l.frame \in Nat /\ l.base \in Int /\ l.size \in Nat
  <2> SUFFICES ASSUME NEW l \in Locals(x) PROVE l.frame \in Nat /\ l.base \in Int /\ l.size \in Nat
    OBVIOUS
  <2>0. PICK f \in ToSet(x.frames) :
          l \in {[frame |-> f.id, base |-> f.base + t.offset, size |-> t.size] : t \in ToSet(f.locals)}
    BY DEF Locals
  <2>1. PICK t \in ToSet(f.locals) : l = [frame |-> f.id, base |-> f.base + t.offset, size |-> t.size]
    BY <2>0
  <2>2. PICK k \in 1 .. Len(x.frames) : f = x.frames[k]
    BY <2>0 DEF ToSet, Ready
  <2>3. f \in Frame /\ f.locals = run.procs[f.proc].locals
    BY <2>2 DEF Ready
  <2>4. f.id \in Nat /\ f.base \in Int /\ f.proc \in Procs
    BY <2>3 DEF Frame
  <2>5. f.locals \in Seq([offset : Int, size : Nat])
    BY <2>3, <2>4 DEF LocalsTyped
  <2>6. t \in [offset : Int, size : Nat]
    <3> DEFINE g == f.locals
               R == [offset : Int, size : Nat]
    <3>1. g \in Seq(R) /\ t \in ToSet(g)
      BY <2>1, <2>5
    <3> HIDE DEF g, R
    <3>2. \A j \in DOMAIN g : g[j] \in R
      <4>1. DOMAIN g = 1 .. Len(g) /\ \A j \in 1 .. Len(g) : g[j] \in R
        BY <3>1
      <4> QED
        BY <4>1
    <3>3. \E j \in DOMAIN g : t = g[j]
      BY <3>1 DEF ToSet
    <3> QED
      BY <3>2, <3>3 DEF R
  <2> QED
    BY <2>1, <2>4, <2>6
<1>3. \A l \in Locals(x) : Leaves(l, a) <=> ~Enclose(l.base, l.size, a.address, a.width)
  <2> SUFFICES ASSUME NEW l \in Locals(x) PROVE Leaves(l, a) <=> ~Enclose(l.base, l.size, a.address, a.width)
    OBVIOUS
  <2>1. l.base \in Int /\ l.size \in Int
    BY <1>2
  <2> QED
    BY <1>1, <2>1, RangeIn DEF Leaves, Bytes, Enclose
<1>4. Begun(x, a) = {l \in Locals(x) : Enclose(l.base, l.size, a.address, 1)}
  <2> SUFFICES ASSUME NEW l \in Locals(x)
               PROVE  In({a.address}, l.base, l.size) <=> Enclose(l.base, l.size, a.address, 1)
    BY DEF Begun
  <2>1. l.base \in Int /\ l.size \in Int
    BY <1>2
  <2> QED
    BY <1>1, <2>1, PointIn DEF Enclose
<1>5. LocalAround(x, a.address, 1) = {l \in Begun(x, a) : \A m \in Begun(x, a) : l.frame <= m.frame}
  BY <1>4 DEF LocalAround
<1>6. ASSUME Begun(x, a) # {} PROVE LocalAround(x, a.address, 1) # {}
  <2> DEFINE ids == {l.frame : l \in Begun(x, a)}
  <2>1. ids \subseteq Nat /\ ids # {}
    BY <1>2, <1>4, <1>6
  <2>2. PICK n \in ids : \A m \in ids : n <= m
    <3> HIDE DEF ids
    <3> QED
      BY <2>1, LeastElement
  <2>3. PICK l \in Begun(x, a) : l.frame = n
    BY <2>2
  <2> QED
    BY <1>5, <2>2, <2>3
<1> QED
  BY <1>2, <1>3, <1>4, <1>5, <1>6

\* The declared objects are known as they lie.
MapKnown ==
  SymbolsMove(run.symbols, run.layout) /\ entries = Entries(Moved(run.symbols, run.layout), run.layout)

\* The map finds the ranges that lie in a variable.
LEMMA FoundInVariable ==
  ASSUME RunTyped, RunFits, MapKnown, NEW STATE a, a \in Access, Sound(a)
  PROVE  FoundByRange(entries, a.address, a.width) # 0 <=> InOneVariable(Bytes(a))
<1> DEFINE p == run.layout
           s == run.symbols
           b(j) == run.layout.regions[j].base
           l(j) == run.layout.regions[j].limit
           at == a.address
           n == a.width
           ms == Moved(s, p)
           in == {i \in DOMAIN entries : Enclose(entries[i].base, entries[i].size, at, n)}
<1>1. PICK k \in Kinds : Holder(at) = {k} /\ a.kind \in Memory!Granted(k) /\ b(k) <= at /\ at + n <= l(k)
  BY SoundLies
<1>2. at \in Int /\ n \in Nat \ {0}
  BY SoundLies
<1>3. \A j \in Kinds : b(j) \in Int /\ l(j) \in Int /\ b(j) <= l(j)
  BY Places, LayoutAssumption DEF RunTyped
<1>4. s \in Seq(Symbol) /\ DOMAIN s = 1 .. Len(s) /\ \A i \in 1 .. Len(s) : s[i] \in Symbol
  BY DEF RunFits
<1>5. \A i \in 1 .. Len(s) : /\ ms[i].region = s[i].region /\ ms[i].size = s[i].size /\ ms[i].size \in Nat
                             /\ ms[i].address \in Int /\ FinalBase(ms[i], p) = ms[i].address
  <2> SUFFICES ASSUME NEW i \in 1 .. Len(s)
               PROVE  /\ ms[i].region = s[i].region /\ ms[i].size = s[i].size /\ ms[i].size \in Nat
                      /\ ms[i].address \in Int /\ FinalBase(ms[i], p) = ms[i].address
    OBVIOUS
  <2> DEFINE r == s[i].region
             v == s[i].address
  <2>1. s[i] \in Symbol
    BY <1>4
  <2>2. r \in {Data, Const} /\ v \in Nat /\ s[i].size \in Nat
    <3>1. s[i].region \in {Data, Const} /\ s[i].address \in Word /\ s[i].size \in Word
      BY <2>1 DEF Symbol
    <3>2. Word \subseteq Nat
      BY DEF Word
    <3> QED
      BY <3>1, <3>2
  <2>3. r \in Kinds /\ r \in 1 .. 4
    BY <2>2 DEF Kinds, Data, Const
  <2>4. FixedBase[r] \in Int
    <3>1. FixedBase[r] \in Word
      BY <2>3, LayoutAssumption
    <3> QED
      BY <3>1 DEF Word
  <2>5. /\ ms[i].region = r /\ ms[i].size = s[i].size
        /\ ms[i].address = IF p.mode = "fixed" THEN v ELSE Relocated(v, r, p)
    BY <1>4, <2>1 DEF Moved, Symbol
  <2>6. CASE p.mode = "fixed"
    <3>1. b(r) = FixedBase[r]
      BY <2>2, <2>6 DEF RunFits
    <3>2. Relocated(v, r, p) = v
      BY <1>3, <2>2, <2>3, <3>1 DEF Relocated
    <3> QED
      BY <2>2, <2>5, <2>6, <3>2 DEF FinalBase
  <2>7. CASE p.mode # "fixed"
    <3>1. Relocates(v, r, p)
      BY <1>4, <2>7 DEF MapKnown, SymbolsMove
    <3>2. Relocated(v, r, p) \in Int /\ b(r) <= Relocated(v, r, p) /\ Relocated(v, r, p) < l(r)
      BY <1>3, <2>2, <2>3, <2>4, <3>1 DEF Relocates, Relocated
    <3>3. Settled(ms[i], p)
      BY <2>5, <2>7, <3>2 DEF Settled
    <3> QED
      BY <2>2, <2>5, <2>7, <3>2, <3>3 DEF FinalBase
  <2> QED
    BY <2>6, <2>7
<1>6. DOMAIN ms = 1 .. Len(s)
  BY <1>4 DEF Moved
<1> HIDE DEF ms
<1>7. /\ DOMAIN entries = {i \in 1 .. Len(s) : ms[i].size > 0}
      /\ \A i \in DOMAIN entries : entries[i].base = ms[i].address /\ entries[i].size = ms[i].size
  <2>1. entries = [i \in Stored(ms) |-> [base |-> FinalBase(ms[i], p), size |-> ms[i].size]]
    BY DEF MapKnown, Entries, ms
  <2>2. Stored(ms) = {i \in 1 .. Len(s) : ms[i].size > 0}
    BY <1>6 DEF Stored
  <2> QED
    BY <1>5, <2>1, <2>2
<1>8. InOneVariable(Bytes(a)) <=> in # {}
  <2>1. InOneVariable(Bytes(a)) <=> \E i \in 1 .. Len(s) : In(at .. at + n - 1, ms[i].address, ms[i].size)
    BY <1>6 DEF InOneVariable, Variables, ToSet, Bytes, ms
  <2>2. \A i \in 1 .. Len(s) : In(at .. at + n - 1, ms[i].address, ms[i].size) <=>
          ms[i].address <= at /\ at + n <= ms[i].address + ms[i].size
    <3> SUFFICES ASSUME NEW i \in 1 .. Len(s)
                 PROVE  In(at .. at + n - 1, ms[i].address, ms[i].size) <=>
                          ms[i].address <= at /\ at + n <= ms[i].address + ms[i].size
      OBVIOUS
    <3>1. ms[i].address \in Int /\ ms[i].size \in Int
      BY <1>5
    <3> HIDE DEF at, n
    <3> QED
      BY <1>2, <3>1, RangeIn
  <2>3. \A i \in 1 .. Len(s) : (ms[i].address <= at /\ at + n <= ms[i].address + ms[i].size) => ms[i].size > 0
    BY <1>2, <1>5
  <2>4. in = {i \in 1 .. Len(s) : ms[i].address <= at /\ at + n <= ms[i].address + ms[i].size}
    <3>1. \A i \in DOMAIN entries : Enclose(entries[i].base, entries[i].size, at, n) <=>
            ms[i].address <= at /\ at + n <= ms[i].address + ms[i].size
      BY <1>7 DEF Enclose
    <3> HIDE DEF at, n
    <3> QED
      BY <1>7, <2>3, <3>1
  <2> HIDE DEF at, n, in
  <2> QED
    BY <2>1, <2>2, <2>4
<1>9. FoundByRange(entries, at, n) # 0 <=> in # {}
  <2>1. FoundByRange(entries, at, n) = IF in = {} THEN 0 ELSE CHOOSE i \in in : \A j \in in : i <= j
    BY DEF FoundByRange
  <2>2. in \subseteq Nat /\ 0 \notin in
    BY <1>7
  <2> HIDE DEF in
  <2>3. ASSUME in # {} PROVE (CHOOSE i \in in : \A j \in in : i <= j) \in in
    <3>1. \E i \in in : \A j \in in : i <= j
      BY <2>2, <2>3, LeastElement
    <3> QED
      BY <3>1
  <2> QED
    BY <2>1, <2>2, <2>3
<1> QED
  BY <1>8, <1>9

\* An access off the stack escapes the objects when, and only when, it lies in no variable.
LEMMA EscapesIsAstray ==
  ASSUME RunTyped, RunFits, MapKnown, NEW STATE a, a \in Access, Sound(a)
  PROVE  EscapesAt(a) <=> ~InOneVariable(Bytes(a))
<1> DEFINE p == run.layout
           b(j) == run.layout.regions[j].base
           l(j) == run.layout.regions[j].limit
           at == a.address
           n == a.width
<1>1. PICK k \in Kinds : Holder(at) = {k} /\ a.kind \in Memory!Granted(k) /\ b(k) <= at /\ at + n <= l(k)
  BY SoundLies
<1>2. at \in Int /\ n \in Nat \ {0}
  BY SoundLies
<1>3. \A j \in Kinds : b(j) \in Int /\ l(j) \in Int /\ b(j) <= l(j)
  BY Places, LayoutAssumption DEF RunTyped
<1>4. RegionOf(p, at, n) # {}
  <2>1. at + n - 1 < l(k)
    BY <1>1, <1>2, <1>3
  <2> QED
    BY <1>1, <2>1 DEF RegionOf
<1>5. ~(a.kind = "write" /\ TouchesConst(p, at, n))
  <2>0. SUFFICES ASSUME a.kind = "write", TouchesConst(p, at, n) PROVE FALSE
    OBVIOUS
  <2>1. at < l(Const) /\ at + n - 1 >= b(Const) /\ Const \in Kinds
    BY <2>0 DEF TouchesConst, Const, Kinds
  <2>2. k # Const
    <3>1. Memory!Granted(Const) = {"read"}
      BY DEF Memory!Granted, Memory!Const, Memory!Code, Const, Code
    <3> QED
      BY <1>1, <2>0, <3>1
  <2>3. l(k) <= b(Const) \/ l(Const) <= b(k)
    <3>1. k < Const \/ Const < k
      BY <2>2 DEF Kinds, Const
    <3> QED
      BY <2>1, <3>1, InOrder
  <2> HIDE DEF b, l, at, n
  <2> QED
    BY <1>1, <1>2, <1>3, <2>1, <2>3
<1>6. EscapesAt(a) <=> FoundByRange(entries, at, n) = 0
  BY <1>4, <1>5 DEF EscapesAt, Classify, EscapesObjects
<1> QED
  BY <1>6, FoundInVariable

-----------------------------------------------------------------------------
(* What a step made, and what the checks behind it see *)

\* The accesses the delta has no room for are single bytes of a frame, whose set-up began with an
\* access of the stack that is in the delta.
LEMMA MadeIsNoted ==
  ASSUME NEW STATE x, Good(x), NEW STATE i, i.op \in Operations, Outcome(vm, x, i)
  PROVE  \A k \in 1 .. Len(x.made) :
           \/ k \in 1 .. Len(x.delta) /\ x.delta[k] = x.made[k].access
           \/ /\ Stacked(x.made[k]) /\ x.made[k].access.width = 1
              /\ 1 \in 1 .. Len(x.delta) /\ x.delta[1] = x.made[1].access /\ Stacked(x.made[1])
<1> SUFFICES ASSUME NEW k \in 1 .. Len(x.made), k \notin 1 .. Len(x.delta)
             PROVE  /\ Stacked(x.made[k]) /\ x.made[k].access.width = 1
                    /\ 1 \in 1 .. Len(x.delta) /\ x.delta[1] = x.made[1].access /\ Stacked(x.made[1])
  BY DEF Good, Mirrored
<1>1. Len(x.made) \in Nat /\ Len(x.delta) \in Nat /\ MaxAccesses \in Nat /\ MaxAccesses >= 3
  BY Lengths, SourceRunAssumption
<1>2. ~(k <= MaxAccesses)
  BY <1>1 DEF Good, Mirrored
<1>3. k > 3 /\ Len(x.made) > 3
  BY <1>1, <1>2
<1>4. 1 \in 1 .. Len(x.made) /\ 1 <= MaxAccesses
  BY <1>1, <1>3
<1>5. 1 <= Len(x.delta)
  BY <1>4 DEF Good, Mirrored
<1>6. 1 \in 1 .. Len(x.delta) /\ x.delta[1] = x.made[1].access
  BY <1>1, <1>5 DEF Good, Mirrored
<1>7. i.op \notin Simple /\ i.op # "capture" /\ i.op # "ret"
  <2>1. ~(Len(x.made) <= 3) /\ ~(Len(x.made) <= 2)
    BY <1>1, <1>3
  <2> QED
    BY <2>1 DEF Outcome, Announced
<1>8. CASE i.op = "call"
  <2>1. Stacked(x.made[1]) /\ OnlyStack(x, 1, 2)
    BY <1>1, <1>3, <1>8 DEF Outcome
  <2>2. k \in 1 + 1 .. Len(x.made) /\ k > 2
    BY <1>1, <1>3
  <2> QED
    BY <1>6, <2>1, <2>2 DEF OnlyStack, Stacked
<1>9. CASE i.op = "invoke"
  <2>1. Stacked(x.made[1]) /\ OnlyStack(x, 2, 3)
    BY <1>9 DEF Outcome
  <2>2. k \in 2 + 1 .. Len(x.made) /\ k > 3
    BY <1>1, <1>3
  <2> QED
    BY <1>6, <2>1, <2>2 DEF OnlyStack, Stacked
<1> QED
  BY <1>7, <1>8, <1>9 DEF Operations, Simple

LEMMA MadeIsTyped ==
  ASSUME NEW STATE x, Good(x), x.status = "ok"
  PROVE  /\ ToSet(x.made) = {x.made[k] : k \in 1 .. Len(x.made)}
         /\ \A m \in ToSet(x.made) : m \in MadeAccess /\ m.access \in Access /\ Sound(m.access)
         /\ x.delta \in Seq(Access) /\ DOMAIN x.delta = 1 .. Len(x.delta)
         /\ \A k \in 1 .. Len(x.delta) : /\ k \in 1 .. Len(x.made) /\ x.delta[k] = x.made[k].access
                                         /\ x.delta[k] \in Access /\ Sound(x.delta[k])
<1>1. x.made \in Seq(MadeAccess) /\ x.delta \in Seq(Access)
  BY DEF Good, Mirrored
<1>2. DOMAIN x.made = 1 .. Len(x.made) /\ DOMAIN x.delta = 1 .. Len(x.delta) /\ Len(x.made) \in Nat /\ Len(x.delta) \in Nat
  BY <1>1
<1>3. \A k \in 1 .. Len(x.made) : x.made[k] \in MadeAccess /\ x.made[k].access \in Access /\ Sound(x.made[k].access)
  <2>1. \A k \in 1 .. Len(x.made) : x.made[k] \in MadeAccess
    BY <1>1
  <2>2. \A m \in MadeAccess : m.access \in Access
    BY DEF MadeAccess
  <2> QED
    BY <2>1, <2>2 DEF Good
<1>4. \A k \in 1 .. Len(x.delta) : k \in 1 .. Len(x.made) /\ x.delta[k] = x.made[k].access
  BY <1>2 DEF Good, Mirrored
<1>5. ToSet(x.made) = {x.made[k] : k \in 1 .. Len(x.made)}
  BY <1>2 DEF ToSet
<1> QED
  BY <1>1, <1>2, <1>3, <1>4, <1>5

LEMMA OwnIsMade ==
  ASSUME NEW STATE x, Good(x), x.status = "ok", ~EntersEntryFrame(vm)
  PROVE  /\ Own(x) = {x.made[k].access : k \in 1 .. Len(x.made)}
         /\ \A a \in Own(x) : a \in Access /\ Sound(a)
         /\ \A k \in 1 .. Len(x.delta) : x.delta[k] \in Own(x)
<1>1. \A m \in ToSet(x.made) : m.by # "frame"
  <2>1. \A m \in MadeAccess : m.by \in Makers
    BY DEF MadeAccess
  <2>2. "frame" \notin Makers
    BY DEF Makers
  <2> QED
    BY <2>1, <2>2, MadeIsTyped
<1>2. Own(x) = {m.access : m \in ToSet(x.made)}
  BY <1>1 DEF Own
<1>3. Own(x) = {x.made[k].access : k \in 1 .. Len(x.made)}
  <2> DEFINE s == ToSet(x.made)
  <2>1. s = {x.made[k] : k \in 1 .. Len(x.made)}
    BY MadeIsTyped
  <2> HIDE DEF s
  <2>2. {m.access : m \in s} = {x.made[k].access : k \in 1 .. Len(x.made)}
    BY <2>1
  <2> QED
    BY <1>2, <2>2 DEF s
<1>4. \A a \in Own(x) : a \in Access /\ Sound(a)
  BY <1>2, MadeIsTyped
<1>5. \A k \in 1 .. Len(x.delta) : x.delta[k] \in Own(x)
  <2> TAKE k \in 1 .. Len(x.delta)
  <2>1. k \in 1 .. Len(x.made) /\ x.delta[k] = x.made[k].access
    BY MadeIsTyped
  <2> QED
    BY <1>3, <2>1
<1> QED
  BY <1>3, <1>4, <1>5

LEMMA ByteStays ==
  ASSUME NEW STATE x, NEW STATE a, a \in Access, OnStack(a.address, a.width), a.width = 1
  PROVE  ~EscapesAll(x, a)
<1>1. Bytes(a) = {a.address}
  <2>1. \A n \in Int : n .. n + 1 - 1 = {n}
    OBVIOUS
  <2>2. a.address \in Int
    BY DEF Access
  <2> QED
    BY <2>1, <2>2 DEF Bytes
<1>2. \A l \in Begun(x, a) : ~Leaves(l, a)
  BY <1>1 DEF Begun, Leaves
<1> QED
  BY <1>2 DEF EscapesAll, Astray

\* The object check behind the step.
LEMMA ObjectCheckTells ==
  ASSUME RunTyped, RunFits, LocalsTyped, MapKnown, NEW STATE x, Good(x), x.status = "ok",
         NEW STATE i, run.settings.objects # Off, i.op \notin {"call", "ret"}
  PROVE  /\ ObjectFaults(x, i) \subseteq 1 .. Len(x.delta)
         /\ \A k \in 1 .. Len(x.delta) :
              LET a == x.delta[k]
                  around == LocalAround(x, a.address, 1) IN
              /\ k \in ObjectFaults(x, i) <=> IF around # {} THEN \E l \in around : Leaves(l, a)
                                              ELSE Begun(x, a) = {} /\ Astray(a)
              /\ k \in ObjectFaults(x, i) => EscapesSome(x, a)
              /\ EscapesAll(x, a) => k \in ObjectFaults(x, i)
<1>1. Ready(x)
  BY DEF Good, Ready
<1>2. DOMAIN x.delta = 1 .. Len(x.delta)
  BY MadeIsTyped
<1>3. ObjectFaults(x, i) = {k \in 1 .. Len(x.delta) :
        LET a == x.delta[k]
            around == LocalAround(x, a.address, 1)
        IN  IF around # {} THEN \E l \in around : ~Enclose(l.base, l.size, a.address, a.width)
            ELSE ~OnStack(a.address, a.width) /\ EscapesAt(a)}
  BY <1>2 DEF ObjectFaults
<1> SUFFICES ASSUME NEW k \in 1 .. Len(x.delta)
             PROVE  LET a == x.delta[k]
                        around == LocalAround(x, a.address, 1) IN
                    /\ k \in ObjectFaults(x, i) <=> IF around # {} THEN \E l \in around : Leaves(l, a)
                                                    ELSE Begun(x, a) = {} /\ Astray(a)
                    /\ k \in ObjectFaults(x, i) => EscapesSome(x, a)
                    /\ EscapesAll(x, a) => k \in ObjectFaults(x, i)
  BY <1>3
<1> DEFINE a == x.delta[k]
           around == LocalAround(x, a.address, 1)
<1>4. a \in Access /\ Sound(a)
  BY MadeIsTyped
<1>5. k \in ObjectFaults(x, i) <=>
        IF around # {} THEN \E l \in around : ~Enclose(l.base, l.size, a.address, a.width)
        ELSE ~OnStack(a.address, a.width) /\ EscapesAt(a)
  BY <1>3
<1> HIDE DEF a
<1>6. /\ \A l \in Locals(x) : Leaves(l, a) <=> ~Enclose(l.base, l.size, a.address, a.width)
      /\ around \subseteq Begun(x, a) /\ Begun(x, a) \subseteq Locals(x)
      /\ Begun(x, a) # {} => around # {}
  BY <1>1, <1>4, LocalsAreKnown
<1> HIDE DEF around
<1>7. EscapesAt(a) <=> ~InOneVariable(Bytes(a))
  BY <1>4, EscapesIsAstray
<1>8. k \in ObjectFaults(x, i) <=> IF around # {} THEN \E l \in around : Leaves(l, a)
                                   ELSE Begun(x, a) = {} /\ Astray(a)
  BY <1>5, <1>6, <1>7 DEF Astray
<1>9. k \in ObjectFaults(x, i) => EscapesSome(x, a)
  BY <1>6, <1>8 DEF EscapesSome
<1>10. EscapesAll(x, a) => k \in ObjectFaults(x, i)
  BY <1>6, <1>8 DEF EscapesAll
<1> QED
  BY <1>8, <1>9, <1>10 DEF a, around

\* The delta shows an access beyond a section when one was made.
LEMMA SectionsSeeIt ==
  ASSUME RunTyped, RunFits, NEW STATE x, Good(x), x.status = "ok", ~EntersEntryFrame(vm),
         NEW STATE i, i.op \in Operations, Outcome(vm, x, i), NEW STATE level, level \in Levels
  PROVE  (\E k \in 1 .. Len(x.delta) : LeavesSection(level, x.delta[k].address, x.delta[k].width))
           <=> \E a \in Own(x) : Beyond(level, a)
<1>1. ASSUME NEW k \in 1 .. Len(x.delta), LeavesSection(level, x.delta[k].address, x.delta[k].width)
      PROVE  \E a \in Own(x) : Beyond(level, a)
  <2>1. x.delta[k] \in Own(x) /\ x.delta[k] \in Access /\ Sound(x.delta[k])
    BY OwnIsMade
  <2>2. Beyond(level, x.delta[k])
    BY <1>1, <2>1, LeavesIsBeyond
  <2> QED
    BY <2>1, <2>2
<1>2. ASSUME NEW k \in 1 .. Len(x.made), Beyond(level, x.made[k].access)
      PROVE  \E j \in 1 .. Len(x.delta) : LeavesSection(level, x.delta[j].address, x.delta[j].width)
  <2>1. CASE k \in 1 .. Len(x.delta) /\ x.delta[k] = x.made[k].access
    <3>1. x.delta[k] \in Access /\ Sound(x.delta[k])
      BY <2>1, MadeIsTyped
    <3>2. LeavesSection(level, x.delta[k].address, x.delta[k].width)
      BY <1>2, <2>1, <3>1, LeavesIsBeyond
    <3> QED
      BY <2>1, <3>2
  <2>2. CASE 1 \in 1 .. Len(x.delta) /\ x.delta[1] = x.made[1].access /\ Stacked(x.made[1])
    <3>1. x.delta[1] \in Access /\ Sound(x.delta[1]) /\ OnStack(x.delta[1].address, x.delta[1].width)
      BY <2>2, MadeIsTyped DEF Stacked
    <3>2. LeavesSection(level, x.delta[1].address, x.delta[1].width)
      BY <3>1, StackIsBeyond
    <3> QED
      BY <2>2, <3>2
  <2> QED
    BY <2>1, <2>2, MadeIsNoted
<1> QED
  BY <1>1, <1>2, OwnIsMade

\* The preflight checks see an access that was announced.
LEMMA ForetoldIsForeseen ==
  ASSUME RunTyped, Placed(vm.mem), NEW STATE i, NEW STATE m, m.access \in Access, Sound(m.access), Foretold(vm, i, m)
  PROVE  \E k \in DOMAIN PlannedAccesses(i) : LET p == PlannedAccesses(i)[k] IN
           /\ m.access.width = p.width /\ m.access.address \in Resolve(vm, p.operand)
           /\ m.by = "local" <=> p.operand.kind = "local"
           /\ \E a \in Foreseen(p) : /\ a.kind = m.access.kind /\ a.address = m.access.address
                                     /\ a.width = m.access.width
<1> DEFINE at == m.access.address
           n == m.access.width
<1>1. PICK k \in DOMAIN PlannedAccesses(i) : LET p == PlannedAccesses(i)[k] IN
        /\ m.access.kind = p.kind /\ n = p.width /\ at \in Resolve(vm, p.operand)
        /\ m.by = "local" <=> p.operand.kind = "local"
  BY DEF Foretold
<1> DEFINE p == PlannedAccesses(i)[k]
<1>2. PICK r \in Kinds : /\ run.layout.regions[r].base <= at /\ at + n <= run.layout.regions[r].limit
                         /\ m.access.kind \in Memory!Granted(r)
  BY DEF Sound
<1>3. at \in Int /\ n \in Nat \ {0}
  BY DEF Access
<1>4. run.layout.regions[r].base \in 0 .. UMax /\ run.layout.regions[r].limit \in 0 .. UMax /\ UMax \in Nat
  BY Places, SlotIsPositive
<1>5. /\ vm.mem.regions[r].base = run.layout.regions[r].base /\ vm.mem.regions[r].permissions = Memory!Granted(r)
      /\ vm.mem.regions[r].size = run.layout.regions[r].limit - run.layout.regions[r].base
  BY DEF Placed, SizeIn
<1> HIDE DEF at, n
<1>6. r \in Memory!Containing(vm.mem, at, n)
  <2>1. r \in Memory!Kinds
    BY DEF Kinds, Memory!Kinds
  <2>2. Memory!Holds(vm.mem.regions[r], at, n)
    BY <1>2, <1>3, <1>4, <1>5 DEF Memory!Holds, Memory!End
  <2> QED
    BY <2>1, <2>2 DEF Memory!Containing
<1>7. PassesLevel1(vm, p.kind, at, p.width)
  BY <1>1, <1>2, <1>5, <1>6 DEF PassesLevel1
<1>8. [kind |-> p.kind, address |-> at, width |-> p.width] \in Foreseen(p)
  BY <1>1, <1>7 DEF Foreseen
<1> QED
  BY <1>1, <1>8 DEF at, n

LEMMA PlannedOperands ==
  ASSUME NEW STATE i, i \in Instruction
  PROVE  \A k \in DOMAIN PlannedAccesses(i) : PlannedAccesses(i)[k].operand \in Operand
<1>1. i.src \in Operand /\ i.dst \in Operand /\ i.op \in Operations
  BY DEF Instruction
<1>2. Slot \in Int /\ -Slot \in Int
  BY SlotIsPositive
<1>3. TopOfStack(0) \in Operand /\ TopOfStack(-Slot) \in Operand
  BY <1>2 DEF TopOfStack, Operand
<1>4. [i.dst EXCEPT !.disp = @ + Slot] \in Operand
  BY <1>1, <1>2 DEF Operand
<1> QED
  BY <1>1, <1>3, <1>4 DEF PlannedAccesses, Plan, Operations

\* An access the instruction made to a LOCAL it names lies in it, once the operand does.
LEMMA NamedLocal ==
  ASSUME LocalsTyped, Ready(vm), NEW STATE o, o \in Operand, o.kind = "local", NEW STATE a, a \in Access,
         a.address \in Resolve(vm, o), ~EscapesLocal(o, a.width), NEW STATE x, Ready(x), x.frames = vm.frames
  PROVE  \E l \in Begun(x, a) : ~Leaves(l, a)
<1>1. PICK f \in FrameHere(vm) : a.address = f.base + o.disp /\ Declared(vm, o) # {}
  BY DEF Resolve
<1>2. PICK t \in Declared(vm, o) : TRUE
  BY <1>1
<1>3. f \in ToSet(vm.frames) /\ f \in Frame /\ f.locals = run.procs[vm.proc].locals
  <2>1. vm.frames # <<>> /\ f = vm.frames[Len(vm.frames)] /\ f.proc = vm.proc
    BY <1>1 DEF FrameHere, Last
  <2>2. vm.frames \in Seq(Frame) /\ \A k \in 1 .. Len(vm.frames) : vm.frames[k].locals = run.procs[vm.frames[k].proc].locals
    BY DEF Ready
  <2>3. Len(vm.frames) \in 1 .. Len(vm.frames) /\ vm.frames[Len(vm.frames)] \in Frame /\ DOMAIN vm.frames = 1 .. Len(vm.frames)
    BY <2>1, <2>2
  <2> QED
    BY <2>1, <2>2, <2>3 DEF ToSet
<1>4. t \in ToSet(f.locals) /\ ~(o.disp < t.offset) /\ ~(o.disp + a.width > t.offset + t.size)
  BY <1>2, <1>3 DEF Declared, EscapesLocal
<1> DEFINE l == [frame |-> f.id, base |-> f.base + t.offset, size |-> t.size]
<1>5. l \in Locals(x)
  BY <1>3, <1>4 DEF Locals
<1>6. t.offset \in Int /\ t.size \in Nat
  <2> DEFINE g == run.procs[vm.proc].locals
             R == [offset : Int, size : Nat]
  <2>1. g \in Seq(R) /\ t \in ToSet(g)
    BY <1>3, <1>4 DEF LocalsTyped, Ready
  <2> HIDE DEF g, R
  <2>2. DOMAIN g = 1 .. Len(g) /\ \A j \in 1 .. Len(g) : g[j] \in R
    BY <2>1
  <2>3. t \in R
    BY <2>1, <2>2 DEF ToSet
  <2> QED
    BY <2>3 DEF R
<1>7. f.base \in Int /\ o.disp \in Int /\ a.width \in Nat \ {0}
  BY <1>3 DEF Frame, Operand, Access
<1>8. l.base <= a.address /\ a.address + a.width <= l.base + l.size /\ l.base \in Int /\ l.size \in Int
  BY <1>1, <1>4, <1>6, <1>7
<1> HIDE DEF l
<1>9. a.address \in Int
  BY DEF Access
<1>10. In({a.address}, l.base, l.size) /\ In(Bytes(a), l.base, l.size)
  <2>1. a.address + 1 <= l.base + l.size
    BY <1>7, <1>8, <1>9
  <2> QED
    BY <1>7, <1>8, <1>9, <2>1, PointIn, RangeIn DEF Bytes
<1> QED
  BY <1>5, <1>10 DEF Begun, Leaves

-----------------------------------------------------------------------------
(* What stops *)

\* Nothing a section policy would stop is left to be found behind a step whose accesses were planned.
LEMMA SectionsStopInTime ==
  ASSUME RunTyped, RunFits, Ready(vm), NEW STATE i, i \in Instruction, Passes(i), Planned(i.op),
         NEW STATE x, Good(x), x.status = "ok", Outcome(vm, x, i), Stricts # {} => vm.frames = <<>>
  PROVE  ~SectionCheck(x.delta).stops
<1> SUFFICES ASSUME SectionCheck(x.delta).stops PROVE FALSE
  OBVIOUS
<1>0. i.op \in Operations
  BY DEF Instruction
<1>1. PICK k \in 1 .. Len(x.delta), level \in Levels :
        PolicyFor(level) = Strict /\ LeavesSection(level, x.delta[k].address, x.delta[k].width)
  BY MadeIsTyped, SectionCheckTells
<1>2. vm.frames = <<>>
  BY <1>1 DEF Stricts, PolicyFor, Levels
<1>3. k \in 1 .. Len(x.made) /\ x.delta[k] = x.made[k].access /\ Len(x.made) \in Nat /\ 1 \in 1 .. Len(x.made)
  <2>1. k \in 1 .. Len(x.made) /\ x.delta[k] = x.made[k].access
    BY MadeIsTyped
  <2>2. Len(x.made) \in Nat
    BY Lengths
  <2> QED
    BY <2>1, <2>2
<1>4. \E j \in 1 .. Len(x.made) : /\ Foretold(vm, i, x.made[j])
                                  /\ LeavesSection(level, x.made[j].access.address, x.made[j].access.width)
  <2>1. CASE i.op \in Simple
    <3>1. Foretold(vm, i, x.made[k])
      BY <1>3, <2>1 DEF Outcome, Announced
    <3> QED
      BY <1>1, <1>3, <3>1
  <2>2. CASE i.op = "ret"
    <3>1. Foretold(vm, i, x.made[k])
      BY <1>2, <1>3, <2>2 DEF Outcome, Announced
    <3> QED
      BY <1>1, <1>3, <3>1
  <2>3. CASE i.op = "call"
    <3>1. Foretold(vm, i, x.made[1])
      BY <2>3 DEF Outcome
    <3>2. CASE Len(x.made) > 1
      <4>1. Stacked(x.made[1])
        BY <2>3, <3>2 DEF Outcome
      <4>2. x.made[1].access \in Access /\ Sound(x.made[1].access)
        BY <1>3, MadeIsTyped
      <4>3. LeavesSection(level, x.made[1].access.address, x.made[1].access.width)
        BY <4>1, <4>2, StackIsBeyond DEF Stacked
      <4> QED
        BY <1>3, <3>1, <4>3
    <3>3. CASE ~(Len(x.made) > 1)
      <4>1. k = 1
        BY <1>3, <3>3
      <4> QED
        BY <1>1, <1>3, <3>1, <4>1
    <3> QED
      BY <3>2, <3>3
  <2> QED
    BY <1>0, <2>1, <2>2, <2>3 DEF Operations, Simple, Planned
<1>5. PICK j \in 1 .. Len(x.made) : /\ Foretold(vm, i, x.made[j])
                                    /\ LeavesSection(level, x.made[j].access.address, x.made[j].access.width)
  BY <1>4
<1>6. x.made[j].access \in Access /\ Sound(x.made[j].access)
  BY MadeIsTyped
<1>7. Placed(vm.mem)
  BY DEF Ready
<1>8. \E q \in DOMAIN PlannedAccesses(i) : \E a \in Foreseen(PlannedAccesses(i)[q]) :
        a.address = x.made[j].access.address /\ a.width = x.made[j].access.width
  BY <1>5, <1>6, <1>7, ForetoldIsForeseen
<1>9. SectionPreflight(i).stops
  BY <1>0, <1>1, <1>5, <1>8, PreflightTells
<1> QED
  BY <1>9 DEF Passes

\* What the object policy stops behind such a step ran out of a LOCAL: one the instruction does
\* not name, unless LOCALs overlap.
LEMMA ObjectsStopInTime ==
  ASSUME RunTyped, RunFits, LocalsTyped, MapKnown, Ready(vm), NEW STATE i, i \in Instruction, Passes(i), Planned(i.op),
         NEW STATE x, Good(x), x.status = "ok", Outcome(vm, x, i), run.settings.objects = Strict, ObjectFaults(x, i) # {}
  PROVE  \E m \in ToSet(x.made) : /\ m.by = "local" => ~Apart(x)
                                  /\ \E l \in Begun(x, m.access) : Leaves(l, m.access)
<1>0. i.op \in Operations /\ i.op \notin {"call", "ret"} /\ run.settings.objects # Off
  BY DEF Instruction, ObjectFaults, Strict, Off
<1>1. i.op \in Simple
  BY <1>0 DEF Operations, Simple, Planned
<1>2. PICK k \in 1 .. Len(x.delta) : k \in ObjectFaults(x, i)
  BY <1>0, ObjectCheckTells
<1> DEFINE m == x.made[k]
           a == x.delta[k]
           around == LocalAround(x, a.address, 1)
<1>3. k \in 1 .. Len(x.made) /\ a = m.access /\ m \in ToSet(x.made) /\ a \in Access /\ Sound(a)
  <2>1. k \in 1 .. Len(x.made) /\ a = m.access /\ a \in Access /\ Sound(a)
    BY MadeIsTyped
  <2>2. m \in ToSet(x.made)
    BY <2>1, MadeIsTyped
  <2> QED
    BY <2>1, <2>2
<1>4. IF around # {} THEN \E l \in around : Leaves(l, a) ELSE Begun(x, a) = {} /\ Astray(a)
  BY <1>0, <1>2, ObjectCheckTells
<1>5. Ready(x) /\ x.frames = vm.frames /\ Foretold(vm, i, m) /\ Placed(vm.mem)
  <2>1. Ready(x) /\ Placed(vm.mem)
    BY DEF Good, Ready
  <2>2. x.frames = vm.frames /\ Foretold(vm, i, m)
    BY <1>1, <1>3 DEF Outcome, Announced
  <2> QED
    BY <2>1, <2>2
<1>6. /\ around \subseteq Begun(x, a) /\ Begun(x, a) \subseteq Locals(x)
      /\ \A l \in Locals(x) : l.base \in Int /\ l.size \in Nat
  BY <1>3, <1>5, LocalsAreKnown
<1> HIDE DEF m, a, around
<1>7. PICK q \in DOMAIN PlannedAccesses(i) : LET p == PlannedAccesses(i)[q] IN
        /\ a.width = p.width /\ a.address \in Resolve(vm, p.operand)
        /\ m.by = "local" <=> p.operand.kind = "local"
        /\ \E b \in Foreseen(p) : b.kind = a.kind /\ b.address = a.address /\ b.width = a.width
  BY <1>3, <1>5, ForetoldIsForeseen
<1> DEFINE p == PlannedAccesses(i)[q]
<1>8. p.operand \in Operand
  BY PlannedOperands
<1>9. ~ObjectPreflightStops(i)
  BY DEF Passes
<1>10. m.by = "local" => \E l \in Begun(x, a) : ~Leaves(l, a)
  <2> SUFFICES ASSUME m.by = "local" PROVE \E l \in Begun(x, a) : ~Leaves(l, a)
    OBVIOUS
  <2>1. ~EscapesLocal(p.operand, p.width)
    BY <1>0, <1>7, <1>9 DEF ObjectPreflightStops
  <2> QED
    BY <1>3, <1>5, <1>7, <1>8, <2>1, NamedLocal
<1>11. CASE around # {}
  <2>1. PICK l \in around : Leaves(l, a)
    BY <1>4, <1>11
  <2>2. l \in Begun(x, a) /\ l \in Locals(x)
    BY <1>6
  <2>3. ASSUME m.by = "local" PROVE ~Apart(x)
    <3>1. PICK l0 \in Begun(x, a) : ~Leaves(l0, a)
      BY <1>10, <2>3
    <3>2. l # l0 /\ l0 \in Locals(x)
      BY <1>6, <2>1, <3>1
    <3>3. a.address \in Int /\ l.base \in Int /\ l.size \in Int /\ l0.base \in Int /\ l0.size \in Int
      BY <1>3, <1>6, <2>2, <3>2 DEF Access
    <3>4. In({a.address}, l.base, l.size) /\ In({a.address}, l0.base, l0.size)
      BY <2>2 DEF Begun
    <3>5. l.base <= a.address /\ a.address + 1 <= l.base + l.size /\ l0.base <= a.address /\ a.address + 1 <= l0.base + l0.size
      BY <3>3, <3>4, PointIn
    <3>6. ~(l.base + l.size <= l0.base \/ l0.base + l0.size <= l.base)
      BY <3>3, <3>5
    <3> QED
      BY <2>2, <3>2, <3>6 DEF Apart
  <2> QED
    BY <1>3, <2>1, <2>2, <2>3
<1>12. CASE around = {}
  <2>1. Begun(x, a) = {} /\ Astray(a)
    BY <1>4, <1>12
  <2>2. p.operand.kind # "local"
    BY <1>7, <1>10, <2>1
  <2>3. PICK b \in Foreseen(p) : b.kind = a.kind /\ b.address = a.address /\ b.width = a.width
    BY <1>7
  <2>4. EscapesAt(a) /\ ~OnStack(a.address, a.width)
    BY <1>3, <2>1, EscapesIsAstray DEF Astray
  <2>5. EscapesAt(b) /\ ~OnStack(b.address, b.width)
    BY <2>3, <2>4 DEF EscapesAt
  <2>6. ObjectPreflightStops(i)
    BY <1>0, <2>2, <2>3, <2>5 DEF ObjectPreflightStops
  <2> QED
    BY <1>9, <2>6
<1> QED
  BY <1>11, <1>12

-----------------------------------------------------------------------------
(* What is told *)

ReportFields == {"unaligned", "section", "object", "uninit", "changes", "row"}
ReportsTyped(r) == DOMAIN r = ReportFields /\ r.section \in Nat /\ r.object \in Nat

LEMMA ListingTells ==
  ASSUME NEW STATE r, DOMAIN r = ReportFields, NEW f \in ReportFields, NEW STATE n
  PROVE  LET s == Listing(r, f, n) IN
         /\ DOMAIN s = ReportFields /\ s[f] = Min({r[f] + n, MaxReports})
         /\ \A g \in ReportFields \ {f} : s[g] = r[g]
<1> DEFINE v == Min({r[f] + n, MaxReports})
<1>1. Listing(r, f, n) = [r EXCEPT ![f] = v]
  BY DEF Listing
<1> HIDE DEF v
<1>2. DOMAIN [r EXCEPT ![f] = v] = ReportFields /\ [r EXCEPT ![f] = v][f] = v
      /\ \A g \in ReportFields \ {f} : [r EXCEPT ![f] = v][g] = r[g]
  OBVIOUS
<1> QED
  BY <1>1, <1>2 DEF v

LEMMA ListingElsewhere ==
  ASSUME NEW STATE r, DOMAIN r = ReportFields, NEW f \in {"unaligned", "section", "object", "uninit", "changes"}, NEW STATE n
  PROVE  LET s == Listing(r, f, n) IN
         /\ DOMAIN s = ReportFields
         /\ s["section"] = IF f = "section" THEN Min({r["section"] + n, MaxReports}) ELSE r["section"]
         /\ s["object"] = IF f = "object" THEN Min({r["object"] + n, MaxReports}) ELSE r["object"]
<1> DEFINE s == Listing(r, f, n)
           v(g) == Min({r[g] + n, MaxReports})
<1>0. f \in ReportFields /\ "section" \in ReportFields /\ "object" \in ReportFields
  BY DEF ReportFields
<1>1. DOMAIN s = ReportFields /\ s[f] = v(f) /\ \A g \in ReportFields \ {f} : s[g] = r[g]
  BY <1>0, ListingTells
<1> HIDE DEF s, v
<1>2. s["section"] = IF f = "section" THEN v("section") ELSE r["section"]
  BY <1>0, <1>1
<1>3. s["object"] = IF f = "object" THEN v("object") ELSE r["object"]
  BY <1>0, <1>1
<1> QED
  BY <1>1, <1>2, <1>3 DEF s, v

LEMMA ListingCounts ==
  ASSUME NEW c \in Nat, NEW n \in Nat
  PROVE  LET v == Min({c + n, MaxReports}) IN
         v \in Nat /\ (c < MaxReports => (v > c <=> n > 0) /\ (n = 0 => v = c))
<1>1. MaxReports \in Nat /\ c + n \in Nat
  BY SourceRunAssumption
<1>2. Min({c + n, MaxReports}) = IF c + n <= MaxReports THEN c + n ELSE MaxReports
  BY <1>1, LeastOfTwo
<1> QED
  BY <1>1, <1>2

\* The lists after the checks in front of the step, and after the section checks behind it.
LEMMA SectionsAreTold ==
  ASSUME RunFits, ReportsTyped(reports), NEW STATE i, i.op \in Operations, NEW STATE x, x.delta \in Seq(Access)
  PROVE  /\ ReportsTyped(SectionsChecked(i)) /\ ReportsTyped(Preflighted(i)) /\ ReportsTyped(SectionsAgain(i, x))
         /\ SectionsAgain(i, x).object = reports.object
         /\ (Stricts = {} /\ reports.section < MaxReports) =>
              (SectionsAgain(i, x).section > reports.section <=> SectionCheck(x.delta).warned > 0)
<1> DEFINE w1 == SectionPreflight(i).warned
           w2 == SectionCheck(x.delta).warned
           u == Cardinality(UninitializedReads(i))
           c == Cardinality(Unaligned(x))
           r1 == SectionsChecked(i)
           r2 == Preflighted(i)
           r3 == Listing(r2, "unaligned", c)
           r4 == SectionsAgain(i, x)
<1>1. w1 \in Nat /\ w2 \in Nat /\ (Stricts = {} => w1 = 0)
  <2>1. w1 \in Nat /\ ((\A level \in Levels : PolicyFor(level) # Strict) => w1 = 0)
    BY PreflightTells
  <2>2. w2 \in Nat
    BY SectionCheckTells
  <2>3. Stricts = {} => \A level \in Levels : PolicyFor(level) # Strict
    BY DEF Stricts, Levels, PolicyFor
  <2> QED
    BY <2>1, <2>2, <2>3
<1>2. r1 = Listing(reports, "section", w1) /\ r2 = Listing(r1, "uninit", u) /\ r4 = Listing(r3, "section", w2)
  BY DEF SectionsChecked, Preflighted, SectionsAgain
<1> HIDE DEF w1, w2, u, c, r1, r2, r4
<1>3. /\ DOMAIN r1 = ReportFields /\ r1["section"] = Min({reports["section"] + w1, MaxReports})
      /\ r1["object"] = reports["object"]
  BY <1>2, ListingElsewhere DEF ReportsTyped
<1>4. DOMAIN r2 = ReportFields /\ r2["section"] = r1["section"] /\ r2["object"] = r1["object"]
  BY <1>2, <1>3, ListingElsewhere
<1>5. DOMAIN r3 = ReportFields /\ r3["section"] = r2["section"] /\ r3["object"] = r2["object"]
  BY <1>4, ListingElsewhere
<1> HIDE DEF r3
<1>6. /\ DOMAIN r4 = ReportFields /\ r4["section"] = Min({r3["section"] + w2, MaxReports})
      /\ r4["object"] = r3["object"]
  <2> DEFINE s == Listing(r3, "section", w2)
  <2>1. DOMAIN s = ReportFields /\ s["section"] = Min({r3["section"] + w2, MaxReports}) /\ s["object"] = r3["object"]
    BY <1>5, ListingElsewhere
  <2> HIDE DEF s
  <2>2. r4 = s
    BY <1>2 DEF s
  <2> QED
    BY <2>1, <2>2
<1>7. reports.section \in Nat /\ reports.object \in Nat
  BY DEF ReportsTyped
<1>8. /\ r1["section"] \in Nat
      /\ (Stricts = {} /\ reports.section < MaxReports) => r1["section"] = reports.section
  BY <1>1, <1>3, <1>7, ListingCounts
<1>9. /\ r4["section"] \in Nat
      /\ r1["section"] < MaxReports => (r4["section"] > r1["section"] <=> w2 > 0)
  BY <1>1, <1>4, <1>5, <1>6, <1>8, ListingCounts
<1>10. ReportsTyped(r1) /\ ReportsTyped(r2) /\ ReportsTyped(r4) /\ r4.object = reports.object
  BY <1>3, <1>4, <1>5, <1>6, <1>7, <1>8, <1>9 DEF ReportsTyped
<1>11. (Stricts = {} /\ reports.section < MaxReports) => (r4.section > reports.section <=> w2 > 0)
  BY <1>8, <1>9
<1> QED
  BY <1>10, <1>11 DEF r1, r2, r4, w2

\* The lists a committed step leaves behind.
CommitReports(i, x) ==
  [Listing(Listing(SectionsAgain(i, x), "object", Cardinality(ObjectFaults(x, i))), "changes", Len(Row(x, i)))
     EXCEPT !.row = IF reports.changes < MaxReports THEN Row(x, i) ELSE <<>>]

LEMMA CommitTells ==
  ASSUME RunTyped, RunFits, LocalsTyped, MapKnown, ReportsTyped(reports), NEW STATE i, i.op \in Operations,
         NEW STATE x, Good(x), x.status = "ok"
  PROVE  LET r == CommitReports(i, x) IN
         /\ ReportsTyped(r) /\ r.row = IF reports.changes < MaxReports THEN Row(x, i) ELSE <<>>
         /\ reports.object < MaxReports => (r.object > reports.object <=> ObjectFaults(x, i) # {})
         /\ (Stricts = {} /\ reports.section < MaxReports) =>
              (r.section > reports.section <=> SectionCheck(x.delta).warned > 0)
<1> DEFINE c == Cardinality(ObjectFaults(x, i))
           r4 == SectionsAgain(i, x)
           r5 == Listing(r4, "object", c)
           n == Len(Row(x, i))
           r6 == Listing(r5, "changes", n)
           row == IF reports.changes < MaxReports THEN Row(x, i) ELSE <<>>
           r == CommitReports(i, x)
<1>1. /\ x.delta \in Seq(Access) /\ ReportsTyped(r4) /\ r4.object = reports.object
      /\ (Stricts = {} /\ reports.section < MaxReports) =>
           (r4.section > reports.section <=> SectionCheck(x.delta).warned > 0)
  <2>1. x.delta \in Seq(Access)
    BY DEF Good, Mirrored
  <2> QED
    BY <2>1, SectionsAreTold
<1>2. c \in Nat /\ (c > 0 <=> ObjectFaults(x, i) # {})
  <2>1. Len(x.delta) \in Nat
    BY <1>1
  <2>2. ObjectFaults(x, i) \subseteq 1 .. Len(x.delta)
    <3>1. DOMAIN x.delta = 1 .. Len(x.delta)
      BY <1>1
    <3> QED
      BY <3>1 DEF ObjectFaults
  <2> QED
    BY <2>1, <2>2, SmallerIsFinite
<1>3. r = [r6 EXCEPT !.row = row]
  BY DEF CommitReports
<1> HIDE DEF r4, c, n, row, r
<1>4. DOMAIN r5 = ReportFields /\ r5["section"] = r4["section"] /\ r5["object"] = Min({r4["object"] + c, MaxReports})
  BY <1>1, ListingElsewhere DEF ReportsTyped
<1> HIDE DEF r5
<1>5. DOMAIN r6 = ReportFields /\ r6["section"] = r5["section"] /\ r6["object"] = r5["object"]
  BY <1>4, ListingElsewhere
<1> HIDE DEF r6
<1>6. /\ DOMAIN r = ReportFields /\ r["row"] = row
      /\ r["section"] = r4["section"] /\ r["object"] = Min({r4["object"] + c, MaxReports})
  BY <1>3, <1>4, <1>5 DEF ReportFields
<1>7. r4.section \in Nat /\ r4.object \in Nat /\ reports.object \in Nat
  BY <1>1 DEF ReportsTyped
<1>8. r.object \in Nat /\ (reports.object < MaxReports => (r.object > reports.object <=> c > 0))
  BY <1>1, <1>2, <1>6, <1>7, ListingCounts
<1>9. ReportsTyped(r)
  BY <1>6, <1>7, <1>8 DEF ReportsTyped
<1>10. (Stricts = {} /\ reports.section < MaxReports) =>
         (r.section > reports.section <=> SectionCheck(x.delta).warned > 0)
  BY <1>1, <1>6
<1> QED
  BY <1>2, <1>6, <1>8, <1>9, <1>10 DEF r, row

\* An object fault is found when an access escapes, and an access that escapes is found.
LEMMA ObjectsAreSeen ==
  ASSUME RunTyped, RunFits, LocalsTyped, MapKnown, NEW STATE i, i.op \in Operations, i.op \notin {"call", "ret"},
         NEW STATE x, Good(x), x.status = "ok", ~EntersEntryFrame(vm), Outcome(vm, x, i), run.settings.objects # Off
  PROVE  /\ (\E a \in Own(x) : EscapesAll(x, a)) => ObjectFaults(x, i) # {}
         /\ ObjectFaults(x, i) # {} => \E a \in Own(x) : EscapesSome(x, a)
<1>1. ASSUME NEW a \in Own(x), EscapesAll(x, a) PROVE ObjectFaults(x, i) # {}
  <2>1. PICK k \in 1 .. Len(x.made) : a = x.made[k].access
    BY OwnIsMade
  <2>2. a \in Access
    BY OwnIsMade
  <2>3. ~(Stacked(x.made[k]) /\ x.made[k].access.width = 1)
    BY <1>1, <2>1, <2>2, ByteStays DEF Stacked
  <2>4. k \in 1 .. Len(x.delta) /\ x.delta[k] = a
    BY <2>1, <2>3, MadeIsNoted
  <2>5. k \in ObjectFaults(x, i)
    BY <1>1, <2>4, ObjectCheckTells
  <2> QED
    BY <2>5
<1>2. ASSUME ObjectFaults(x, i) # {} PROVE \E a \in Own(x) : EscapesSome(x, a)
  <2>1. PICK k \in 1 .. Len(x.delta) : k \in ObjectFaults(x, i)
    BY <1>2, ObjectCheckTells
  <2>2. EscapesSome(x, x.delta[k])
    BY <2>1, ObjectCheckTells
  <2>3. x.delta[k] \in Own(x)
    BY OwnIsMade
  <2> QED
    BY <2>2, <2>3
<1> QED
  BY <1>1, <1>2

\* While no section policy is strict the section checks warn of what lies beyond.
LEMMA SectionsAreSeen ==
  ASSUME RunTyped, RunFits, NEW STATE i, i.op \in Operations,
         NEW STATE x, Good(x), x.status = "ok", ~EntersEntryFrame(vm), Outcome(vm, x, i), Stricts = {}
  PROVE  SectionCheck(x.delta).warned > 0 <=>
           \E a \in Own(x), level \in {"capacity", "image"} : PolicyFor(level) = Warn /\ Beyond(level, a)
<1>1. \A level \in Levels : PolicyFor(level) # Strict
  BY DEF Stricts, Levels, PolicyFor
<1>2. \A level \in Levels : PolicyFor(level) # Off <=> PolicyFor(level) = Warn
  <2>1. \A level \in Levels : PolicyFor(level) \in Choice
    BY DEF RunFits, PolicyFor
  <2> QED
    BY <1>1, <2>1 DEF Choice, Off, Warn, Strict
<1>3. x.delta \in Seq(Access)
  BY DEF Good, Mirrored
<1>4. SectionCheck(x.delta).warned > 0 <=>
        \E k \in 1 .. Len(x.delta), level \in Levels :
          PolicyFor(level) # Off /\ LeavesSection(level, x.delta[k].address, x.delta[k].width)
  BY <1>1, <1>3, SectionCheckTells
<1>5. \A level \in Levels :
        (\E k \in 1 .. Len(x.delta) : LeavesSection(level, x.delta[k].address, x.delta[k].width))
          <=> \E a \in Own(x) : Beyond(level, a)
  BY SectionsSeeIt
<1>6. Levels = {"capacity", "image"}
  BY DEF Levels
<1> HIDE DEF Levels
<1> QED
  BY <1>2, <1>4, <1>5, <1>6

\* Nothing that was let through lies beyond a section whose policy is strict.
LEMMA StrictSectionsHold ==
  ASSUME RunTyped, RunFits, NEW STATE i, i.op \in Operations,
         NEW STATE x, Good(x), x.status = "ok", ~EntersEntryFrame(vm), Outcome(vm, x, i), ~SectionCheck(x.delta).stops
  PROVE  \A a \in Own(x), level \in Stricts : ~Beyond(level, a)
<1> SUFFICES ASSUME NEW a \in Own(x), NEW level \in Stricts, Beyond(level, a) PROVE FALSE
  OBVIOUS
<1>1. level \in Levels /\ PolicyFor(level) = Strict
  BY DEF Stricts, Levels, PolicyFor
<1>2. PICK k \in 1 .. Len(x.delta) : LeavesSection(level, x.delta[k].address, x.delta[k].width)
  BY <1>1, SectionsSeeIt
<1>3. x.delta \in Seq(Access)
  BY DEF Good, Mirrored
<1>4. SectionCheck(x.delta).stops
  BY <1>1, <1>2, <1>3, SectionCheckTells
<1> QED
  BY <1>4

\* A strict section policy lets no frame be set up.
LEMMA StackedStops ==
  ASSUME RunTyped, RunFits, NEW STATE x, Good(x), x.status = "ok", Len(x.made) >= 1, Stacked(x.made[1]), Stricts # {}
  PROVE  SectionCheck(x.delta).stops
<1>1. Len(x.made) \in Nat /\ Len(x.delta) \in Nat /\ MaxAccesses \in Nat /\ MaxAccesses >= 3
  BY Lengths, SourceRunAssumption
<1>2. 1 \in 1 .. Len(x.made) /\ 1 <= MaxAccesses
  BY <1>1
<1>3. 1 <= Len(x.delta)
  BY <1>2 DEF Good, Mirrored
<1>4. 1 \in 1 .. Len(x.delta)
  BY <1>1, <1>3
<1>5. x.delta[1] = x.made[1].access /\ x.delta[1] \in Access /\ Sound(x.delta[1]) /\ x.delta \in Seq(Access)
  BY <1>4, MadeIsTyped
<1>6. PICK level \in Stricts : TRUE
  OBVIOUS
<1>7. level \in Levels /\ PolicyFor(level) = Strict
  BY DEF Stricts, Levels, PolicyFor
<1>8. LeavesSection(level, x.delta[1].address, x.delta[1].width)
  BY <1>5, <1>7, StackIsBeyond DEF Stacked
<1> QED
  BY <1>4, <1>5, <1>7, <1>8, SectionCheckTells

-----------------------------------------------------------------------------
(* The invariant *)

\* What every turn starts from.  A program whose section policy is strict never has a frame.
RunInv ==
  /\ RunTyped /\ RunFits /\ LocalsTyped /\ ReportsTyped(reports)
  /\ phase = "running" => /\ MapKnown /\ Ready(vm) /\ vm.status = "ok"
                          /\ Stricts # {} => vm.frames = <<>>

\* The sizes of LOCALs add up to numbers.
LEMMA EndsAreNumbers ==
  ASSUME NEW locals, locals \in Seq(Automatic)
  PROVE  Ends(locals) \in [0 .. Len(locals) -> Nat]
<1> DEFINE n == Len(locals)
           Up(m, v) == AlignedTo(v, locals[m].alignment) + locals[m].size
           Solves(f) == f = [k \in 0 .. n |-> IF k = 0 THEN 0 ELSE Up(k, f[k - 1])]
           end == Ends(locals)
           h == [p \in (1 .. n) \X Nat |-> Up(p[1], p[2])]
<1>1. n \in Nat /\ \A m \in 1 .. n : locals[m].alignment \in Nat \ {0} /\ locals[m].size \in Nat
  <2>1. n \in Nat /\ \A m \in 1 .. n : locals[m] \in Automatic
    OBVIOUS
  <2>2. \A l \in Automatic : l.alignment \in Nat \ {0} /\ l.size \in Nat
    BY DEF Automatic
  <2> QED
    BY <2>1, <2>2
<1>2. \A m \in 1 .. n, v \in Nat : Up(m, v) \in Nat
  <2> TAKE m \in 1 .. n, v \in Nat
  <2> DEFINE a == locals[m].alignment
             q == (v + a - 1) \div a
  <2>1. a \in Nat \ {0} /\ v + a - 1 \in Nat
    BY <1>1
  <2> HIDE DEF a
  <2>2. q \in Nat
    <3> DEFINE u == v + a - 1
    <3>1. u \in Nat /\ a \in Nat \ {0}
      BY <2>1
    <3> HIDE DEF u
    <3>2. u \div a \in Nat
      BY <3>1
    <3> QED
      BY <3>2 DEF u
  <2> HIDE DEF q
  <2>3. q * a \in Nat
    BY <2>1, <2>2
  <2>4. AlignedTo(v, locals[m].alignment) = q * a
    BY DEF AlignedTo, q, a
  <2> QED
    BY <1>1, <2>3, <2>4
<1>3. end = CHOOSE f : Solves(f)
  BY DEF Ends
<1> HIDE DEF Up, end
<1>4. \E f : Solves(f)
  <2>1. StepsIn(Nat, n, h)
    BY <1>2 DEF StepsIn
  <2> HIDE DEF h
  <2>2. PICK f \in [0 .. n -> Nat] : Recurs(f, n, 0, h)
    BY <1>1, <2>1, RecursionExists
  <2>3. Solves(f)
    <3>1. f[0] = 0 /\ \A m \in 1 .. n : f[m] = Up(m, f[m - 1])
      <4>1. \A m \in 1 .. n : f[m] = h[<<m, f[m - 1]>>] /\ f[m - 1] \in Nat
        BY <1>1, <2>2 DEF Recurs
      <4>2. \A m \in 1 .. n, v \in Nat : h[<<m, v>>] = Up(m, v)
        BY DEF h
      <4> QED
        BY <2>2, <4>1, <4>2 DEF Recurs
    <3> QED
      BY <1>1, <3>1
  <2> QED
    BY <2>3
<1>5. Solves(end)
  <2> HIDE DEF Solves
  <2> QED
    BY <1>3, <1>4
<1>6. \A m \in 0 .. n : end[m] \in Nat
  <2> DEFINE S == {m \in 0 .. n : end[m] \in Nat}
  <2>1. 0 \in S
    BY <1>1, <1>5
  <2>2. \A m \in 0 .. n - 1 : m \in S => m + 1 \in S
    <3> TAKE m \in 0 .. n - 1
    <3>1. m + 1 \in 1 .. n /\ m + 1 \in 0 .. n /\ (m + 1) - 1 = m /\ m + 1 # 0
      BY <1>1
    <3>2. end[m + 1] = Up(m + 1, end[m])
      BY <1>5, <3>1
    <3> QED
      BY <1>2, <3>1, <3>2
  <2> HIDE DEF S
  <2>3. \A m \in 0 .. n : m \in S
    BY <1>1, <2>1, <2>2, Induction
  <2> QED
    BY <2>3 DEF S
<1> QED
  BY <1>5, <1>6 DEF end

LEMMA ProceduresAreTyped ==
  ASSUME NEW locals, locals \in Seq(Automatic)
  PROVE  LET q == Procedure(locals) IN
         q.locals \in Seq([offset : Int, size : Nat]) /\ q.size \in Nat
<1> DEFINE n == Len(locals)
           end == Ends(locals)
<1>1. n \in Nat /\ DOMAIN locals = 1 .. n /\ \A m \in 1 .. n : locals[m].size \in Nat
  <2>1. n \in Nat /\ DOMAIN locals = 1 .. n /\ \A m \in 1 .. n : locals[m] \in Automatic
    OBVIOUS
  <2>2. \A l \in Automatic : l.size \in Nat
    BY DEF Automatic
  <2> QED
    BY <2>1, <2>2
<1>2. \A m \in 0 .. n : end[m] \in Nat
  BY EndsAreNumbers
<1> HIDE DEF end
<1>3. [k \in DOMAIN locals |-> [offset |-> -end[k], size |-> locals[k].size]] \in Seq([offset : Int, size : Nat])
  BY <1>1, <1>2
<1>4. AlignedTo(end[n], Slot) \in Nat
  <2> DEFINE v == end[n] + Slot - 1
             q == v \div Slot
  <2>1. v \in Nat /\ Slot \in Nat \ {0}
    BY <1>1, <1>2, SlotIsPositive
  <2>2. q \in Nat
    <3> HIDE DEF v
    <3> QED
      BY <2>1
  <2> HIDE DEF q
  <2>3. q * Slot \in Nat
    BY <2>1, <2>2
  <2> QED
    BY <2>3 DEF AlignedTo, q
<1> QED
  BY <1>3, <1>4 DEF Procedure, end

\* A program as it is loaded.
LEMMA LoadedIsReady ==
  ASSUME RunTyped
  PROVE  LET x == Loaded(run.layout) IN Ready(x) /\ x.status = "ok" /\ x.frames = <<>>
<1> DEFINE x == Loaded(run.layout)
           mem == Memory!Allocated(run.layout)
<1>1. /\ DOMAIN x = Fields /\ x.mem = mem /\ x.esp = run.layout.regions[StackRegion].limit /\ x.ebp = 0
      /\ x.frames = <<>> /\ x.nextFrame = 1 /\ x.proc = "entry" /\ x.status = "ok"
  BY DEF Loaded, Fields
<1>2. Placed(mem)
  <2>0. Memory!Kinds = Kinds
    BY DEF Kinds, Memory!Kinds
  <2>1. DOMAIN mem = {"regions", "changes", "overflowed"} /\ DOMAIN mem.regions = Kinds
    BY <2>0 DEF Memory!Allocated, Memory!Released
  <2>2. ASSUME NEW k \in Kinds
        PROVE  /\ DOMAIN mem.regions[k] = {"base", "size", "permissions", "bytes"}
               /\ mem.regions[k].base = run.layout.regions[k].base
               /\ mem.regions[k].size = SizeIn(run.layout, k)
               /\ mem.regions[k].permissions = Memory!Granted(k)
               /\ DOMAIN mem.regions[k].bytes = 0 .. SizeIn(run.layout, k) - 1
    BY <2>0 DEF Memory!Allocated, Memory!Released, Memory!SizeIn, SizeIn
  <2> QED
    BY <2>1, <2>2 DEF Placed
<1>3. run.layout.regions[StackRegion].limit \in Int
  <2>1. StackRegion \in Kinds
    BY DEF StackRegion, Kinds
  <2> QED
    BY <2>1, Places
<1> HIDE DEF x, mem
<1>4. Ready(x)
  <2>1. x.frames \in Seq(Frame) /\ \A k \in 1 .. Len(x.frames) : x.frames[k].locals = run.procs[x.frames[k].proc].locals
    <3>1. <<>> \in Seq(Frame) /\ Len(<<>>) = 0
      OBVIOUS
    <3> QED
      BY <1>1, <3>1
  <2> QED
    BY <1>1, <1>2, <1>3, <2>1 DEF Ready, Procs
<1> QED
  BY <1>1, <1>4 DEF x

LEMMA InitIsInv ==
  Init => RunInv
<1> SUFFICES ASSUME Init PROVE RunInv
  OBVIOUS
<1>1. PICK s \in Settings, p \in Layouts, source \in Sources, e \in EntryLocals, h \in HelperLocals :
        /\ Suits(p, source)
        /\ run = [settings |-> s, layout |-> p, symbols |-> source.symbols, image |-> source.image,
                  procs |-> [q \in {"entry", "helper", "target"} |-> Procedure(IF q = "entry" THEN e ELSE h)]]
        /\ entries = IF Loads(source, p) THEN Entries(Moved(source.symbols, p), p) ELSE <<>>
        /\ vm = Loaded(p)
        /\ reports = [unaligned |-> 0, section |-> 0, object |-> 0, uninit |-> 0, changes |-> 0, row |-> <<>>]
        /\ phase = IF Loads(source, p) THEN "running" ELSE "failed"
  BY DEF Init
<1>2. /\ run.settings = s /\ run.layout = p /\ run.symbols = source.symbols /\ run.image = source.image
      /\ run.procs = [q \in {"entry", "helper", "target"} |-> Procedure(IF q = "entry" THEN e ELSE h)]
  BY <1>1
<1>3. RunTyped
  BY <1>2, LayoutsAssumption DEF RunTyped
<1>4. RunFits
  <2>1. run.settings \in [capacity : Choice, image : Choice, objects : Choice, uninit : Choice]
    BY <1>2, SourceRunAssumption
  <2>2. run.symbols \in Seq(Symbol) /\ run.image \in [{Data, Const} -> Nat]
    BY <1>2, SourcesAssumption
  <2>3. ASSUME NEW k \in {Data, Const}
        PROVE  /\ run.layout.regions[k].base + FixedSize[k] <= UMax
               /\ run.image[k] \in Nat /\ run.image[k] <= SizeIn(run.layout, k)
               /\ run.layout.mode = "fixed" => run.layout.regions[k].base = FixedBase[k]
    <3>1. source.image[k] <= SizeIn(p, k)
      BY <1>1 DEF Suits
    <3> QED
      BY <1>2, <2>2, <3>1, LayoutsAssumption
  <2> QED
    BY <2>1, <2>2, <2>3 DEF RunFits
<1>5. LocalsTyped
  <2> SUFFICES ASSUME NEW q \in Procs
               PROVE  run.procs[q].locals \in Seq([offset : Int, size : Nat]) /\ run.procs[q].size \in Nat
    BY DEF LocalsTyped
  <2> DEFINE l == IF q = "entry" THEN e ELSE h
  <2>1. run.procs[q] = Procedure(l)
    BY <1>2 DEF Procs
  <2>2. l \in Seq(Automatic)
    BY SourcesAssumption
  <2> HIDE DEF l
  <2> QED
    BY <2>1, <2>2, ProceduresAreTyped
<1>6. ReportsTyped(reports)
  BY <1>1 DEF ReportsTyped, ReportFields
<1>7. ASSUME phase = "running" PROVE MapKnown
  <2>1. Loads(source, p)
    BY <1>1, <1>7
  <2> QED
    BY <1>1, <1>2, <2>1 DEF MapKnown, Loads
<1>8. vm = Loaded(run.layout)
  BY <1>1, <1>2
<1>9. Ready(vm) /\ vm.status = "ok" /\ vm.frames = <<>>
  BY <1>3, <1>8, LoadedIsReady
<1> QED
  BY <1>3, <1>4, <1>5, <1>6, <1>7, <1>9 DEF RunInv

\* What is fetched is an instruction, its addresses relocated.
LEMMA FetchedIsInstruction ==
  ASSUME RunTyped, NEW i \in Instructions
  PROVE  Fetched(i) \in Instruction
<1>1. i \in Instruction /\ i.dst \in Operand /\ i.src \in Operand
  BY SourceRunAssumption DEF Instruction
<1>2. \A r \in {"dst", "src"} : i[r].kind = "address" => i[r].disp \in {0, Data, Const}
  BY SourceRunAssumption
<1>3. ASSUME NEW o, o \in Operand, o.kind = "address" => o.disp \in {0, Data, Const} PROVE AtRunTime(o) \in Operand
  <2>1. CASE o.kind = "address" /\ o.disp # 0
    <3>1. o.disp \in 1 .. 4 /\ o.disp \in Kinds
      BY <1>3, <2>1 DEF Data, Const, Kinds
    <3>2. run.layout.regions[o.disp].base \in Int /\ FixedBase[o.disp] \in Int /\ o.address \in Int
      <4>1. FixedBase[o.disp] \in Word
        BY <3>1, LayoutAssumption
      <4> QED
        BY <1>3, <3>1, <4>1, Places DEF Word, Operand
    <3> DEFINE r == Relocated(o.address, o.disp, run.layout)
    <3>3. r \in Int
      BY <3>2 DEF Relocated
    <3> HIDE DEF r
    <3>4. AtRunTime(o) = [o EXCEPT !.address = r, !.disp = 0]
      BY <2>1 DEF AtRunTime, r
    <3> DEFINE q == [o EXCEPT !.address = r]
    <3>5. q \in Operand
      BY <1>3, <3>3 DEF Operand
    <3>6. [q EXCEPT !.disp = 0] \in Operand
      <4> HIDE DEF q
      <4> QED
        BY <3>5 DEF Operand
    <3>7. [o EXCEPT !.address = r, !.disp = 0] = [q EXCEPT !.disp = 0]
      <4>1. DOMAIN o = {"kind", "address", "disp"}
        BY <1>3 DEF Operand
      <4> QED
        BY <4>1
    <3> QED
      BY <3>4, <3>6, <3>7
  <2>2. CASE ~(o.kind = "address" /\ o.disp # 0)
    BY <1>3, <2>2 DEF AtRunTime
  <2> QED
    BY <2>1, <2>2
<1>4. AtRunTime(i.dst) \in Operand /\ AtRunTime(i.src) \in Operand
  <2>1. (i.dst.kind = "address" => i.dst.disp \in {0, Data, Const}) /\ (i.src.kind = "address" => i.src.disp \in {0, Data, Const})
    BY <1>2
  <2> QED
    BY <1>1, <1>3, <2>1
<1> QED
  BY <1>1, <1>4 DEF Instruction, Fetched

LEMMA FetchedIsWellFormed ==
  ASSUME NEW i \in Instructions
  PROVE  WellFormed(Fetched(i))
<1> DEFINE d == AtRunTime(i.dst)
           c == AtRunTime(i.src)
           j == [i EXCEPT !.dst = d, !.src = c]
<1>1. i \in Instruction /\ WellFormed(i)
  BY SourceRunAssumption
<1>2. i.dst \in Operand /\ i.src \in Operand /\ DOMAIN i = {"op", "dst", "src", "width", "value"}
  BY <1>1 DEF Instruction
<1>3. ASSUME NEW o, o \in Operand PROVE AtRunTime(o).kind = o.kind
  <2> DEFINE r == Relocated(o.address, o.disp, run.layout)
             q == [o EXCEPT !.address = r, !.disp = 0]
  <2>1. AtRunTime(o) = IF o.kind = "address" /\ o.disp # 0 THEN q ELSE o
    BY DEF AtRunTime
  <2> HIDE DEF r
  <2>2. q.kind = o.kind
    BY <1>3 DEF Operand
  <2> QED
    BY <2>1, <2>2
<1>4. d.kind = i.dst.kind /\ c.kind = i.src.kind
  BY <1>2, <1>3
<1> HIDE DEF d, c
<1>5. j.op = i.op /\ j.width = i.width /\ j.dst = d /\ j.src = c
  BY <1>2
<1> HIDE DEF j
<1>6. InMemory(j.dst) = InMemory(i.dst) /\ InMemory(j.src) = InMemory(i.src)
  BY <1>4, <1>5 DEF InMemory
<1>7. WellFormed(j)
  BY <1>1, <1>5, <1>6 DEF WellFormed
<1> QED
  BY <1>7 DEF j, d, c, Fetched

\* A turn, as the proofs take it apart.
LEMMA TurnsAre ==
  ASSUME RunInv, TakeTurn
  PROVE  /\ phase = "running"
         /\ \E j \in {j \in Instruction : WellFormed(j)} :
              \/ UNCHANGED vm /\ phase' = "stopped" /\ reports' = SectionsChecked(j) /\ UNCHANGED <<run, entries>>
              \/ \E x \in {Stepped(j)} :
                   Passes(j) /\ (Refuse(j, x) \/ StopAfterSection(j, x) \/ StopAfterObject(j, x) \/ Commit(j, x))
<1>1. PICK i \in Instructions : \E j \in {Fetched(i)} : Turn(j)
  BY DEF TakeTurn
<1> DEFINE j == Fetched(i)
<1>2. j \in Instruction /\ WellFormed(j)
  <2>1. j \in Instruction
    BY FetchedIsInstruction DEF RunInv
  <2>2. WellFormed(j)
    BY FetchedIsWellFormed
  <2> QED
    BY <2>1, <2>2
<1> HIDE DEF j
<1>3. Turn(j)
  BY <1>1 DEF j
<1>4. phase = "running"
  BY <1>3 DEF Turn
<1>5. CASE StopBeforeSection(j) \/ StopBeforeObject(j) \/ StopBeforeUninitialized(j)
  BY <1>2, <1>4, <1>5 DEF StopBeforeSection, StopBeforeObject, StopBeforeUninitialized
<1>6. CASE Step(j)
  BY <1>2, <1>4, <1>6 DEF Step
<1> QED
  BY <1>3, <1>5, <1>6 DEF Turn

\* Under a strict section policy what goes on has no frame.
LEMMA NoFrameGoesOn ==
  ASSUME RunInv, phase = "running", NEW j \in Instruction, NEW STATE x, x = Stepped(j), x.status = "ok",
         ~SectionCheck(x.delta).stops, Stricts # {}
  PROVE  x.frames = <<>>
<1>1. /\ Good(x) /\ x.op = j.op
      /\ IF EntersEntryFrame(vm) THEN Len(x.made) >= 1 /\ Stacked(x.made[1]) ELSE Outcome(vm, x, j)
  BY SteppedMakes DEF RunInv
<1>2. ~(Len(x.made) >= 1 /\ Stacked(x.made[1]))
  BY <1>1, StackedStops DEF RunInv
<1>3. vm.frames = <<>> /\ Outcome(vm, x, j)
  BY <1>1, <1>2 DEF RunInv
<1>4. j.op \in Operations
  BY DEF Instruction
<1>5. CASE j.op = "call"
  BY <1>2, <1>3, <1>5 DEF Outcome
<1>6. CASE j.op = "invoke"
  BY <1>2, <1>3, <1>6 DEF Outcome
<1>7. CASE j.op \in Simple \cup {"capture", "ret"}
  BY <1>3, <1>7 DEF Outcome
<1> QED
  BY <1>4, <1>5, <1>6, <1>7 DEF Operations, Simple

LEMMA NextKeepsInv ==
  RunInv /\ [Next]_vars => RunInv'
<1> SUFFICES ASSUME RunInv, [Next]_vars PROVE RunInv'
  OBVIOUS
<1>1. CASE UNCHANGED vars
  BY <1>1 DEF vars, RunInv, RunTyped, RunFits, LocalsTyped, ReportsTyped, MapKnown, Ready, Placed, Frame, Stricts,
              Procs, ReportFields, Fields
<1>2. CASE StopAtLimit
  BY <1>2 DEF StopAtLimit, RunInv, RunTyped, RunFits, LocalsTyped, ReportsTyped
<1>3. CASE TakeTurn
  <2>1. PICK j \in Instruction :
          \/ UNCHANGED vm /\ phase' = "stopped" /\ reports' = SectionsChecked(j) /\ UNCHANGED <<run, entries>>
          \/ \E x \in {Stepped(j)} :
               Passes(j) /\ (Refuse(j, x) \/ StopAfterSection(j, x) \/ StopAfterObject(j, x) \/ Commit(j, x))
    BY <1>3, TurnsAre
  <2>2. phase = "running"
    BY <1>3, TurnsAre
  <2> DEFINE x == Stepped(j)
  <2>3. UNCHANGED <<run, entries>>
    BY <2>1 DEF Refuse, StopAfterSection, StopAfterObject, Commit
  <2>4. (RunTyped /\ RunFits /\ LocalsTyped)'
    BY <2>3 DEF RunInv, RunTyped, RunFits, LocalsTyped
  <2>5. Good(x) /\ j.op \in Operations /\ x.delta \in Seq(Access)
    <3>1. Good(x)
      BY <2>2, SteppedMakes DEF RunInv
    <3> QED
      BY <3>1 DEF Good, Mirrored, Instruction
  <2>6. /\ ReportsTyped(SectionsChecked(j)) /\ ReportsTyped(Preflighted(j)) /\ ReportsTyped(SectionsAgain(j, x))
        /\ x.status = "ok" => ReportsTyped(CommitReports(j, x))
    BY <2>2, <2>5, SectionsAreTold, CommitTells DEF RunInv
  <2>7. ReportsTyped(reports')
    <3>1. CASE reports' = SectionsChecked(j)
      BY <2>6, <3>1
    <3>2. CASE Refuse(j, x)
      BY <2>6, <3>2 DEF Refuse
    <3>3. CASE StopAfterSection(j, x) \/ StopAfterObject(j, x)
      BY <2>6, <3>3 DEF StopAfterSection, StopAfterObject
    <3>4. CASE Commit(j, x)
      BY <2>6, <3>4 DEF Commit, CommitReports
    <3> QED
      BY <2>1, <3>1, <3>2, <3>3, <3>4
  <2>8. ASSUME phase' = "running"
        PROVE  MapKnown' /\ Ready(vm)' /\ vm'.status = "ok" /\ (Stricts' # {} => vm'.frames = <<>>)
    <3>1. Commit(j, x)
      BY <2>1, <2>8 DEF Refuse, StopAfterSection, StopAfterObject
    <3>2. vm' = x /\ x.status = "ok" /\ ~SectionCheck(x.delta).stops
      BY <3>1 DEF Commit
    <3>3. MapKnown'
      BY <2>2, <2>3 DEF RunInv, MapKnown
    <3>4. Ready(x)
      BY <2>5 DEF Good, Ready
    <3>5. Ready(vm)'
      <4> HIDE DEF x
      <4>1. run' = run
        BY <2>3
      <4>2. Placed(vm.mem)'
        <5>1. Placed(x.mem)
          BY <3>4 DEF Ready
        <5>2. (vm.mem)' = x.mem
          BY <3>2
        <5> QED
          BY <4>1, <5>1, <5>2 DEF Placed
      <4>3. Frame' = Frame
        BY <4>1 DEF Frame
      <4>4. DOMAIN x = Fields /\ x.esp \in Int /\ x.ebp \in Int /\ x.nextFrame \in Nat /\ x.proc \in Procs
            /\ x.frames \in Seq(Frame) /\ \A k \in 1 .. Len(x.frames) : x.frames[k].locals = run.procs[x.frames[k].proc].locals
        BY <3>4 DEF Ready
      <4> QED
        BY <3>2, <4>1, <4>2, <4>3, <4>4 DEF Ready
    <3>6. Stricts' = Stricts
      BY <2>3 DEF Stricts
    <3>7. Stricts # {} => x.frames = <<>>
      BY <2>2, <3>2, NoFrameGoesOn
    <3> QED
      BY <3>2, <3>3, <3>5, <3>6, <3>7
  <2> QED
    BY <2>4, <2>7, <2>8 DEF RunInv, ReportsTyped
<1> QED
  BY <1>1, <1>2, <1>3 DEF Next

\* Every reachable state is one a turn may start from, or the run is over.
THEOREM RunIsSound == Spec => []RunInv
BY InitIsInv, NextKeepsInv, PTL DEF Spec

-----------------------------------------------------------------------------
(* What the recorder holds after a write *)

\* Where an address is kept.
LEMMA RegionFound ==
  ASSUME RunTyped, NEW STATE mem, Placed(mem), NEW STATE k, k \in Kinds,
         NEW STATE a, a \in Int, NEW STATE n, n \in Nat \ {0},
         run.layout.regions[k].base <= a, a + n <= run.layout.regions[k].limit
  PROVE  Memory!Containing(mem, a, n) = {k} /\ Memory!First(Memory!Containing(mem, a, n)) = k
<1> DEFINE b(j) == run.layout.regions[j].base
           l(j) == run.layout.regions[j].limit
<1>1. \A j \in Kinds : b(j) \in Int /\ l(j) \in Int /\ b(j) <= l(j) /\ l(j) <= UMax /\ UMax \in Int
  BY Places, SlotIsPositive DEF RunTyped
<1>2. ASSUME NEW j \in Kinds
      PROVE  Memory!Holds(mem.regions[j], a, n) <=> b(j) <= a /\ a + n <= l(j)
  <2>1. mem.regions[j].base = b(j) /\ mem.regions[j].size = l(j) - b(j)
    BY DEF Placed, SizeIn
  <2>2. Memory!End(mem.regions[j]) = l(j)
    BY <1>1, <2>1 DEF Memory!End
  <2> QED
    BY <1>1, <2>1, <2>2 DEF Memory!Holds
<1>3. ASSUME NEW j \in Kinds, b(j) <= a, a + n <= l(j)
      PROVE  j = k
  <2>1. Kinds = 1 .. 5
    BY DEF Kinds
  <2>2. ~(j < k)
    BY <1>1, <1>3, InOrder
  <2>3. ~(k < j)
    BY <1>1, <1>3, InOrder
  <2> QED
    BY <2>1, <2>2, <2>3
<1>4. Memory!Containing(mem, a, n) = {k}
  <2>1. Memory!Kinds = Kinds
    BY DEF Kinds, Memory!Kinds
  <2> QED
    BY <1>2, <1>3, <2>1 DEF Memory!Containing
<1>5. \A S : S = {k} => Memory!First(S) = k
  <2>1. k <= k
    BY DEF Kinds
  <2> QED
    BY <2>1 DEF Memory!First
<1> QED
  BY <1>4, <1>5

\* The byte an address holds.
LEMMA ByteIs ==
  ASSUME RunTyped, NEW STATE mem, Placed(mem), NEW STATE k, k \in Kinds, NEW STATE a, a \in Int,
         run.layout.regions[k].base <= a, a < run.layout.regions[k].limit
  PROVE  ByteOf(mem, a) = mem.regions[k].bytes[a - run.layout.regions[k].base]
<1>1. run.layout.regions[k].limit \in Int
  BY Places
<1>2. Memory!First(Memory!Containing(mem, a, 1)) = k
  BY <1>1, RegionFound
<1> QED
  BY <1>2 DEF ByteOf, Placed

\* The changed ones among the first n of t.
Collects(cs, t, n) ==
  /\ \E T : cs \in Seq(T)
  /\ DOMAIN cs = 1 .. Len(cs) /\ Len(cs) \in 0 .. n
  /\ \A j \in 1 .. Len(cs) : \E i \in 1 .. n : cs[j] = t[i] /\ t[i].old # t[i].new
  /\ \A i \in 1 .. n : t[i].old # t[i].new => \E j \in 1 .. Len(cs) : cs[j] = t[i]

LEMMA ChangesGathered ==
  ASSUME NEW STATE r, NEW STATE k, NEW STATE a, NEW STATE n, n \in Nat, NEW STATE s, DOMAIN s = 1 .. n
  PROVE  Collects(Memory!ChangedBytes(r, k, a, s), Memory!AllBytes(r, k, a, s), n)
<1> DEFINE t == Memory!AllBytes(r, k, a, s)
           E == {t[i] : i \in 1 .. n}
           Add(x, c) == IF c.old # c.new THEN Append(x, c) ELSE x
           h == [p \in Seq(E) \X E |-> Add(p[1], p[2])]
           G(f) == [z \in SUBSET DOMAIN t |->
                      IF z = {} THEN <<>> ELSE Add(f[z \ {Max(z)}], t[Max(z)])]
           f == CHOOSE f : f = G(f)
           cs == Memory!ChangedBytes(r, k, a, s)
<1>1. cs = f[DOMAIN t]
  BY DEF Memory!ChangedBytes, Memory!FoldLeft, Memory!MapThenFoldSet, Memory!Max, Max
<1> HIDE DEF cs
<1>2. DOMAIN t = 1 .. n /\ t \in Seq(E)
  <2>1. DOMAIN t = 1 .. n
    BY DEF Memory!AllBytes
  <2> HIDE DEF t
  <2>2. t = [i \in 1 .. n |-> t[i]]
    BY <2>1 DEF t, Memory!AllBytes
  <2>3. t \in [1 .. n -> E]
    BY <2>2
  <2> HIDE DEF E
  <2> QED
    BY <2>1, <2>3
<1> HIDE DEF t
<1>3. \A x \in Seq(E), c \in E : Add(x, c) \in Seq(E)
  <2> HIDE DEF E
  <2> QED
    OBVIOUS
<1> HIDE DEF Add
<1>4. h \in [Seq(E) \X E -> Seq(E)] /\ \A x \in Seq(E), c \in E : h[<<x, c>>] = Add(x, c)
  <2> HIDE DEF E
  <2> QED
    BY <1>3
<1> HIDE DEF h, E
<1>5. \E e : e = G(e)
  <2>0. <<>> \in Seq(E)
    OBVIOUS
  <2>1. PICK e : IsFold(e, <<>>, h, t) /\ StaysIn(e, Seq(E), E, t)
    <3> DEFINE T == Seq(E)  o == <<>>
    <3>1. o \in T /\ h \in [T \X E -> T] /\ t \in Seq(E)
      BY <1>2, <1>4, <2>0
    <3> HIDE DEF T, o
    <3>2. \E e : IsFold(e, o, h, t) /\ StaysIn(e, T, E, t)
      BY <3>1, FoldExists
    <3> QED
      BY <3>2 DEF T, o
  <2>2. ASSUME NEW z \in SUBSET DOMAIN t
        PROVE  e[z] = G(e)[z]
    <3>1. CASE z = {}
      BY <2>1, <3>1 DEF IsFold
    <3>2. CASE z # {}
      <4>1. e[z \ {Max(z)}] \in Seq(E) /\ t[Max(z)] \in E
        BY <2>1, <3>2 DEF StaysIn
      <4>2. e[z] = h[<<e[z \ {Max(z)}], t[Max(z)]>>]
        BY <2>1, <3>2 DEF IsFold
      <4>3. e[z] = Add(e[z \ {Max(z)}], t[Max(z)])
        BY <1>4, <4>1, <4>2
      <4> QED
        BY <3>2, <4>3
    <3> QED
      BY <3>1, <3>2
  <2>3. e = G(e)
    <3> HIDE DEF G
    <3>1. DOMAIN G(e) = SUBSET DOMAIN t /\ G(e) = [z \in SUBSET DOMAIN t |-> G(e)[z]]
      BY DEF G
    <3> QED
      BY <2>1, <2>2, <3>1 DEF StaysIn
  <2> QED
    BY <2>3
<1>6. f = G(f)
  <2> HIDE DEF G
  <2> QED
    BY <1>5
<1> HIDE DEF f
<1> DEFINE g(m) == f[1 .. m]
<1>7. g(0) = <<>>
  <2>1. 1 .. 0 = {} /\ 1 .. 0 \in SUBSET DOMAIN t
    OBVIOUS
  <2> QED
    BY <1>6, <2>1
<1>8. ASSUME NEW m \in 1 .. n
      PROVE  g(m) = Add(g(m - 1), t[m])
  <2>1. Max(1 .. m) = m /\ (1 .. m) \ {m} = 1 .. m - 1
    BY GreatestOfPrefix
  <2>2. 1 .. m \in SUBSET DOMAIN t /\ 1 .. m # {}
    <3>1. m \in 1 .. m /\ \A i \in 1 .. m : i \in 1 .. n
      OBVIOUS
    <3> QED
      BY <1>2, <3>1
  <2> QED
    BY <1>6, <2>1, <2>2
<1>9. cs = g(n)
  BY <1>1, <1>2
<1> HIDE DEF g
<1> DEFINE P(m) == /\ g(m) \in Seq(E) /\ Len(g(m)) \in 0 .. m
                   /\ \A j \in 1 .. Len(g(m)) : \E i \in 1 .. m : g(m)[j] = t[i] /\ t[i].old # t[i].new
                   /\ \A i \in 1 .. m : t[i].old # t[i].new => \E j \in 1 .. Len(g(m)) : g(m)[j] = t[i]
           S == {m \in 0 .. n : P(m)}
<1>10. 0 \in S
  <2>0. g(0) \in Seq(E) /\ Len(g(0)) = 0
    <3>1. <<>> \in Seq(E) /\ Len(<<>>) = 0
      OBVIOUS
    <3> QED
      BY <1>7, <3>1
  <2>1. P(0)
    BY <2>0
  <2> HIDE DEF P
  <2> QED
    BY <2>1
<1>11. ASSUME NEW m \in 0 .. n - 1, m \in S
       PROVE  m + 1 \in S
  <2> DEFINE c == t[m + 1]
             x == g(m)
             y == g(m + 1)
  <2>1. P(m)
    BY <1>11
  <2>2. m + 1 \in 1 .. n /\ (m + 1) - 1 = m
    OBVIOUS
  <2>3. y = Add(x, c) /\ c \in E
    BY <1>2, <1>8, <2>2
  <2>4. CASE c.old = c.new
    <3>1. y = x
      BY <2>3, <2>4 DEF Add
    <3>2. \A i \in 1 .. m + 1 : i \in 1 .. m \/ i = m + 1
      OBVIOUS
    <3>3. /\ y \in Seq(E) /\ Len(y) \in 0 .. m + 1
          /\ \A j \in 1 .. Len(y) : \E i \in 1 .. m : y[j] = t[i] /\ t[i].old # t[i].new
          /\ \A i \in 1 .. m : t[i].old # t[i].new => \E j \in 1 .. Len(y) : y[j] = t[i]
      BY <2>1, <3>1
    <3>4. \A j \in 1 .. Len(y) : \E i \in 1 .. m + 1 : y[j] = t[i] /\ t[i].old # t[i].new
      <4>1. \A i \in 1 .. m : i \in 1 .. m + 1
        OBVIOUS
      <4> HIDE DEF y
      <4> QED
        BY <3>3, <4>1
    <3>5. \A i \in 1 .. m + 1 : t[i].old # t[i].new => \E j \in 1 .. Len(y) : y[j] = t[i]
      <4> HIDE DEF y
      <4> QED
        BY <2>4, <3>2, <3>3 DEF c
    <3>6. P(m + 1)
      <4> HIDE DEF y
      <4>1. /\ y \in Seq(E) /\ Len(y) \in 0 .. m + 1
            /\ \A j \in 1 .. Len(y) : \E i \in 1 .. m + 1 : y[j] = t[i] /\ t[i].old # t[i].new
            /\ \A i \in 1 .. m + 1 : t[i].old # t[i].new => \E j \in 1 .. Len(y) : y[j] = t[i]
        BY <3>3, <3>4, <3>5
      <4> QED
        BY <4>1 DEF y
    <3> HIDE DEF P
    <3> QED
      BY <2>2, <3>6
  <2>5. CASE c.old # c.new
    <3>0. x \in Seq(E) /\ Len(x) \in 0 .. m
      BY <2>1
    <3> HIDE DEF c, x, y
    <3>1. y = Append(x, c)
      BY <2>3, <2>5 DEF Add
    <3>2. y \in Seq(E) /\ Len(y) = Len(x) + 1 /\ y[Len(x) + 1] = c /\ \A j \in 1 .. Len(x) : y[j] = x[j]
      BY <2>3, <3>0, <3>1
    <3>3. ASSUME NEW j \in 1 .. Len(y) PROVE \E i \in 1 .. m + 1 : y[j] = t[i] /\ t[i].old # t[i].new
      <4>1. CASE j = Len(x) + 1
        BY <2>2, <2>5, <3>2, <4>1 DEF c
      <4>2. CASE j \in 1 .. Len(x)
        <5>1. PICK i \in 1 .. m : x[j] = t[i] /\ t[i].old # t[i].new
          BY <2>1, <4>2 DEF x
        <5>2. i \in 1 .. m + 1
          OBVIOUS
        <5> QED
          BY <3>2, <4>2, <5>1, <5>2
      <4> QED
        BY <3>0, <3>2, <4>1, <4>2
    <3>4. ASSUME NEW i \in 1 .. m + 1, t[i].old # t[i].new PROVE \E j \in 1 .. Len(y) : y[j] = t[i]
      <4>1. CASE i = m + 1
        <5>1. Len(x) + 1 \in 1 .. Len(y)
          BY <3>0, <3>2
        <5> QED
          BY <3>2, <4>1, <5>1 DEF c
      <4>2. CASE i \in 1 .. m
        <5>1. PICK j \in 1 .. Len(x) : x[j] = t[i]
          BY <2>1, <3>4, <4>2 DEF x
        <5>2. j \in 1 .. Len(y)
          BY <3>0, <3>2
        <5> QED
          BY <3>2, <5>1, <5>2
      <4> QED
        BY <4>1, <4>2
    <3>5. Len(y) \in 0 .. m + 1
      BY <3>0, <3>2
    <3>6. P(m + 1)
      BY <3>2, <3>3, <3>4, <3>5 DEF y
    <3> HIDE DEF P
    <3> QED
      BY <2>2, <3>6
  <2> QED
    BY <2>4, <2>5
<1>12. n \in S
  <2> HIDE DEF S
  <2>1. \A m \in 0 .. n : m \in S
    BY <1>10, <1>11, Induction
  <2> QED
    BY <2>1
<1>13. P(n)
  BY <1>12
<1>14. /\ cs \in Seq(E) /\ Len(cs) \in 0 .. n
       /\ \A j \in 1 .. Len(cs) : \E i \in 1 .. n : cs[j] = t[i] /\ t[i].old # t[i].new
       /\ \A i \in 1 .. n : t[i].old # t[i].new => \E j \in 1 .. Len(cs) : cs[j] = t[i]
  BY <1>9, <1>13
<1>15. DOMAIN cs = 1 .. Len(cs)
  BY <1>14
<1> QED
  BY <1>14, <1>15 DEF cs, t, Collects

\* The recorder tells the bytes of the range that differ, with what they held.
Recounts(mem, new, a, n) ==
  /\ \E T : new.changes \in Seq(T)
  /\ DOMAIN new.changes = 1 .. Len(new.changes) /\ Len(new.changes) \in Nat
  /\ \A j \in 1 .. Len(new.changes) : LET c == new.changes[j] IN
       c.address \in a .. a + n - 1 /\ c.old = ByteOf(mem, c.address) /\ ByteOf(new, c.address) # c.old
  /\ \A b \in a .. a + n - 1 :
       ByteOf(new, b) # ByteOf(mem, b) => \E j \in 1 .. Len(new.changes) : new.changes[j].address = b

LEMMA WrittenTells ==
  ASSUME RunTyped, NEW STATE mem, Placed(mem), mem.changes = <<>>, NEW STATE k, k \in Kinds, "write" \in Memory!Granted(k),
         NEW STATE a, a \in Int, NEW STATE n, n \in Nat \ {0}, n <= MaxChanges,
         run.layout.regions[k].base <= a, a + n <= run.layout.regions[k].limit, NEW STATE v
  PROVE  Recounts(mem, Memory!Written(mem, a, n, v, TRUE), a, n)
<1> DEFINE r == mem.regions[k]
           base == run.layout.regions[k].base
           size == SizeIn(run.layout, k)
           s == Memory!Encode(v, n)
           t == Memory!AllBytes(r, k, a, s)
           cs == Memory!ChangedBytes(r, k, a, s)
           put == Memory!Putting(mem, k, a, s)
           new == Memory!Written(mem, a, n, v, TRUE)
<1>1. base \in Int /\ run.layout.regions[k].limit \in Int /\ run.layout.regions[k].limit = base + size /\ size \in Int
  <2>1. base \in Int /\ run.layout.regions[k].limit \in Int
    BY Places, LayoutAssumption
  <2>2. size = run.layout.regions[k].limit - base
    BY DEF SizeIn
  <2> HIDE DEF base, size
  <2> QED
    BY <2>1, <2>2
<1>2. r.base = base /\ DOMAIN r.bytes = 0 .. size - 1 /\ r.permissions = Memory!Granted(k)
  BY DEF Placed
<1>3. DOMAIN s = 1 .. n
  BY DEF Memory!Encode
<1>4. Memory!Containing(mem, a, n) = {k} /\ Memory!First(Memory!Containing(mem, a, n)) = k
  BY RegionFound
<1>5. Memory!Succeeded(Memory!Validate(mem, "write", a, n, TRUE))
  <2>1. k # Memory!Code
    BY DEF Memory!Granted
  <2>2. Memory!Permitted(r, "write")
    BY <1>2 DEF Memory!Permitted
  <2> QED
    BY <1>4, <2>1, <2>2 DEF Memory!Validate, Memory!Succeeded
<1>6. new = Memory!Recording(put, cs)
  BY <1>4, <1>5 DEF Memory!Written
<1>7. /\ DOMAIN put = {"regions", "changes", "overflowed"} /\ put.changes = <<>>
      /\ put.regions[k].bytes = [i \in 0 .. size - 1 |-> IF i - (a - base) + 1 \in 1 .. n
                                                        THEN s[i - (a - base) + 1] ELSE r.bytes[i]]
  <2> DEFINE q == [i \in DOMAIN r.bytes |-> LET j == i - (a - r.base) + 1 IN IF j \in DOMAIN s THEN s[j] ELSE r.bytes[i]]
  <2>1. put = [mem EXCEPT !.regions[k].bytes = q]
    BY DEF Memory!Putting
  <2>2. q = [i \in 0 .. size - 1 |-> IF i - (a - base) + 1 \in 1 .. n THEN s[i - (a - base) + 1] ELSE r.bytes[i]]
    <3> HIDE DEF s, r
    <3> QED
      BY <1>2, <1>3
  <2> HIDE DEF q, put
  <2>3. DOMAIN put = {"regions", "changes", "overflowed"} /\ put.changes = <<>> /\ put.regions[k].bytes = q
    BY <2>1 DEF Placed
  <2> QED
    BY <2>2, <2>3
<1> HIDE DEF s, put, r, new, size
<1>8. /\ \E T : cs \in Seq(T)
      /\ DOMAIN cs = 1 .. Len(cs) /\ Len(cs) \in 0 .. n
      /\ \A j \in 1 .. Len(cs) : \E i \in 1 .. n : cs[j] = t[i] /\ t[i].old # t[i].new
      /\ \A i \in 1 .. n : t[i].old # t[i].new => \E j \in 1 .. Len(cs) : cs[j] = t[i]
  <2>1. n \in Nat
    OBVIOUS
  <2>2. Collects(cs, t, n)
    BY <1>3, <2>1, ChangesGathered
  <2> HIDE DEF cs, t
  <2> QED
    BY <2>2 DEF Collects
<1>9. ASSUME NEW i \in 1 .. n
      PROVE  t[i].address = a + i - 1 /\ t[i].old = r.bytes[a - base + i - 1] /\ t[i].new = s[i]
  BY <1>2, <1>3 DEF Memory!AllBytes
<1> HIDE DEF cs, t
<1>10. new.changes = cs /\ new.regions = put.regions
  <2>1. PICK T : cs \in Seq(T)
    BY <1>8
  <2>2. Memory!Retained(put, cs) = cs
    <3>0. MaxChanges \in Nat /\ Len(cs) \in Int /\ Len(cs) <= n
      BY <1>8, SourceRunAssumption
    <3>1. MaxChanges - Len(put.changes) = MaxChanges /\ Len(cs) <= MaxChanges
      <4>1. Len(put.changes) = 0
        BY <1>7
      <4> QED
        BY <3>0, <4>1
    <3>2. Memory!Min({Len(cs), MaxChanges}) = Len(cs)
      BY <3>0, <3>1 DEF Memory!Min
    <3>3. SubSeq(cs, 1, Len(cs)) = cs
      BY <2>1
    <3> QED
      BY <3>1, <3>2, <3>3 DEF Memory!Retained
  <2>3. <<>> \o cs = cs
    BY <2>1
  <2> QED
    BY <1>6, <1>7, <2>2, <2>3 DEF Memory!Recording
<1>11. ASSUME NEW i \in 1 .. n
       PROVE  /\ t[i].address = a + i - 1 /\ t[i].old = ByteOf(mem, a + i - 1) /\ t[i].new = ByteOf(new, a + i - 1)
  <2>1. a + i - 1 \in Int /\ base <= a + i - 1 /\ a + i - 1 < run.layout.regions[k].limit
    BY <1>1
  <2>2. ByteOf(mem, a + i - 1) = r.bytes[(a + i - 1) - base]
    BY <2>1, ByteIs DEF r
  <2>3. ByteOf(new, a + i - 1) = put.regions[k].bytes[(a + i - 1) - base]
    <3>1. Placed(new)
      BY WrittenKeepsPlaces DEF new
    <3> QED
      BY <1>10, <2>1, <3>1, ByteIs
  <2>4. (a + i - 1) - base \in 0 .. size - 1 /\ ((a + i - 1) - base) - (a - base) + 1 = i /\ a - base + i - 1 = (a + i - 1) - base
    <3> HIDE DEF base
    <3>1. i \in Int
      OBVIOUS
    <3>2. (a + i - 1) - base >= 0 /\ (a + i - 1) - base <= size - 1 /\ (a + i - 1) - base \in Int
      BY <1>1, <2>1, <3>1
    <3> QED
      BY <1>1, <3>1, <3>2
  <2>5. put.regions[k].bytes[(a + i - 1) - base] = s[i]
    BY <1>7, <2>4
  <2> QED
    BY <1>9, <2>2, <2>3, <2>4, <2>5
<1>12. ASSUME NEW j \in 1 .. Len(cs)
       PROVE  cs[j].address \in a .. a + n - 1 /\ cs[j].old = ByteOf(mem, cs[j].address) /\ ByteOf(new, cs[j].address) # cs[j].old
  <2>1. PICK i \in 1 .. n : cs[j] = t[i] /\ t[i].old # t[i].new
    BY <1>8
  <2>2. a + i - 1 \in a .. a + n - 1
    OBVIOUS
  <2> QED
    BY <1>11, <2>1, <2>2
<1>13. ASSUME NEW b \in a .. a + n - 1, ByteOf(new, b) # ByteOf(mem, b)
       PROVE  \E j \in 1 .. Len(cs) : cs[j].address = b
  <2> DEFINE i == b - a + 1
  <2>1. i \in 1 .. n /\ a + i - 1 = b
    OBVIOUS
  <2> HIDE DEF i
  <2>2. t[i].old # t[i].new /\ t[i].address = b
    BY <1>11, <1>13, <2>1
  <2> QED
    BY <1>8, <2>1, <2>2
<1>14. Len(cs) \in Nat
  BY <1>8
<1>15. Recounts(mem, new, a, n)
  BY <1>8, <1>10, <1>12, <1>13, <1>14 DEF Recounts
<1> QED
  BY <1>15 DEF new

RowTold(mem, x, a, n) ==
  /\ (\E b \in a .. a + n - 1 : ByteOf(mem, b) # ByteOf(x.mem, b)) =>
       /\ x.mem.changes # <<>>
       /\ RowAt(x, a, n) = <<[address |-> a, old |-> Reads(mem, a, n), new |-> Reads(x.mem, a, n)]>>
  /\ (\A b \in a .. a + n - 1 : ByteOf(mem, b) = ByteOf(x.mem, b)) => x.mem.changes = <<>>

\* What the row of a range says when the only write since the recorder was cleared went there.
LEMMA RowTells ==
  ASSUME RunTyped, NEW STATE mem, Placed(mem), mem.changes = <<>>, NEW STATE k, k \in Kinds, "write" \in Memory!Granted(k),
         NEW STATE a, a \in Int, NEW STATE n, n \in Nat \ {0}, n <= MaxChanges,
         run.layout.regions[k].base <= a, a + n <= run.layout.regions[k].limit, NEW STATE v,
         NEW STATE x, x.mem = Memory!Written(mem, a, n, v, TRUE)
  PROVE  RowTold(mem, x, a, n)
<1> DEFINE cs == x.mem.changes
<1>1. Recounts(mem, x.mem, a, n)
  BY WrittenTells
<1>6. /\ DOMAIN cs = 1 .. Len(cs) /\ Len(cs) \in Nat
      /\ \A j \in 1 .. Len(cs) :
           /\ cs[j].address \in a .. a + n - 1 /\ cs[j].old = ByteOf(mem, cs[j].address)
           /\ ByteOf(x.mem, cs[j].address) # cs[j].old
      /\ \A b \in a .. a + n - 1 : ByteOf(x.mem, b) # ByteOf(mem, b) => \E j \in 1 .. Len(cs) : cs[j].address = b
  BY <1>1 DEF Recounts
<1>7. /\ Len(cs) = 0 => cs = <<>>
      /\ Len(cs) # 0 => cs # <<>>
  <2>1. PICK T : cs \in Seq(T)
    BY <1>1 DEF Recounts
  <2> HIDE DEF cs
  <2> QED
    BY <2>1
<1>8. \A b : Old(x, b) = LET at == {j \in DOMAIN cs : cs[j].address = b}
                        IN  IF at = {} THEN ByteOf(x.mem, b) ELSE cs[Max(at)].old
  BY DEF Old
<1>9. \A c : c \in ToSet(cs) <=> \E j \in 1 .. Len(cs) : c = cs[j]
  BY <1>6 DEF ToSet
<1>10. RowAt(x, a, n) =
         IF \E c \in ToSet(cs) : c.address \in a .. a + n - 1
         THEN <<[address |-> a, old |-> [j \in 1 .. n |-> Old(x, a + j - 1)],
                 new |-> [j \in 1 .. n |-> ByteOf(x.mem, a + j - 1)]]>>
         ELSE <<>>
  BY DEF RowAt
<1> HIDE DEF cs
<1>2. ASSUME NEW b \in a .. a + n - 1
      PROVE  Old(x, b) = ByteOf(mem, b)
  <2> DEFINE at == {j \in DOMAIN cs : cs[j].address = b}
  <2>1. Old(x, b) = IF at = {} THEN ByteOf(x.mem, b) ELSE cs[Max(at)].old
    BY <1>8
  <2>2. CASE at = {}
    <3>1. ~\E j \in 1 .. Len(cs) : cs[j].address = b
      BY <1>6, <2>2
    <3> QED
      BY <1>6, <2>1, <2>2, <3>1
  <2>3. CASE at # {}
    <3>1. Max(at) \in at
      <4>1. at \in SUBSET (1 .. Len(cs)) /\ Len(cs) \in Nat
        BY <1>6
      <4> HIDE DEF at
      <4> QED
        BY <2>3, <4>1, Greatest
    <3> DEFINE j == Max(at)
    <3>2. j \in 1 .. Len(cs) /\ cs[j].address = b
      BY <1>6, <3>1
    <3> HIDE DEF j
    <3>3. cs[j].old = ByteOf(mem, b)
      BY <1>6, <3>2
    <3> QED
      BY <2>1, <2>3, <3>3 DEF j
  <2> QED
    BY <2>2, <2>3
<1>3. [j \in 1 .. n |-> Old(x, a + j - 1)] = Reads(mem, a, n) /\ [j \in 1 .. n |-> ByteOf(x.mem, a + j - 1)] = Reads(x.mem, a, n)
  <2>1. \A j \in 1 .. n : a + j - 1 \in a .. a + n - 1
    OBVIOUS
  <2> QED
    BY <1>2, <2>1 DEF Reads
<1>4. ASSUME NEW b \in a .. a + n - 1, ByteOf(mem, b) # ByteOf(x.mem, b)
      PROVE  /\ cs # <<>>
             /\ RowAt(x, a, n) = <<[address |-> a, old |-> Reads(mem, a, n), new |-> Reads(x.mem, a, n)]>>
  <2>1. PICK j \in 1 .. Len(cs) : cs[j].address = b
    BY <1>4, <1>6
  <2>2. cs # <<>>
    <3>1. Len(cs) # 0
      BY <1>6, <2>1
    <3> QED
      BY <1>7, <3>1
  <2>3. \E c \in ToSet(cs) : c.address \in a .. a + n - 1
    BY <1>6, <1>9, <2>1
  <2> QED
    BY <1>3, <1>10, <2>2, <2>3
<1>5. ASSUME \A b \in a .. a + n - 1 : ByteOf(mem, b) = ByteOf(x.mem, b)
      PROVE  cs = <<>>
  <2>1. ASSUME Len(cs) # 0 PROVE FALSE
    <3>1. 1 \in 1 .. Len(cs)
      BY <1>6, <2>1
    <3> QED
      BY <1>5, <1>6, <3>1
  <2> QED
    BY <1>7, <2>1
<1> QED
  BY <1>4, <1>5 DEF cs, RowTold

-----------------------------------------------------------------------------
(* What an instruction writes *)

Stores(mem, y, a, n) == \E v : y.mem = Memory!Written(mem, a, n, v, TRUE)

OnlyReads(mem, y) == y.mem = mem /\ \A j \in 1 .. Len(y.made) : y.made[j].access.kind = "read"

\* The last access made is the only write.
OneWrite(mem, y, n, by) ==
  LET m == y.made[Len(y.made)] IN
  /\ Len(y.made) \in Nat \ {0}
  /\ \A j \in 1 .. Len(y.made) - 1 : y.made[j].access.kind = "read"
  /\ m.access.kind = "write" /\ m.access.width = n /\ m.by = by
  /\ Stores(mem, y, m.access.address, n)

WritesTo(mem, y, o, n) == IF InMemory(o) THEN OneWrite(mem, y, n, o.kind) ELSE OnlyReads(mem, y)

Effect(mem, y, i) ==
  /\ i.op \in {"compare", "adjust", "capture"} => OnlyReads(mem, y)
  /\ i.op \in {"mov", "update", "xchg", "pop"} => WritesTo(mem, y, i.dst, i.width)
  /\ i.op = "push" => OneWrite(mem, y, Slot, "implicit") /\ y.made[Len(y.made)].access.address = y.esp

LEMMA OneMoreRead ==
  ASSUME NEW STATE x, Good(x), NEW STATE y, Good(y), Grows(x, y), y.mem = x.mem, NEW STATE mem, OnlyReads(mem, x),
         NEW STATE a, NEW STATE n, NEW STATE by, MadeOne(x, y, "read", a, n, by)
  PROVE  OnlyReads(mem, y)
<1>1. Len(x.made) \in Nat /\ Len(y.made) = Len(x.made) + 1
  BY Lengths DEF MadeOne
<1>2. ASSUME NEW j \in 1 .. Len(y.made) PROVE y.made[j].access.kind = "read"
  <2>1. CASE j = Len(x.made) + 1
    BY <2>1 DEF MadeOne
  <2>2. CASE j \in 1 .. Len(x.made)
    BY <2>2 DEF Grows, OnlyReads
  <2> QED
    BY <1>1, <2>1, <2>2
<1> QED
  BY <1>2 DEF OnlyReads

LEMMA OneMoreWrite ==
  ASSUME NEW STATE x, Good(x), NEW STATE y, Good(y), Grows(x, y), NEW STATE mem, OnlyReads(mem, x),
         NEW STATE a, NEW STATE n, NEW STATE by, MadeOne(x, y, "write", a, n, by),
         Stores(x.mem, y, a, n)
  PROVE  OneWrite(mem, y, n, by) /\ y.made[Len(y.made)].access.address = a
<1>1. Len(x.made) \in Nat /\ Len(y.made) = Len(x.made) + 1 /\ Len(y.made) \in Nat \ {0} /\ Len(y.made) - 1 = Len(x.made)
  <2>1. Len(x.made) \in Nat /\ Len(y.made) = Len(x.made) + 1
    BY Lengths DEF MadeOne
  <2> QED
    BY <2>1
<1>2. ASSUME NEW j \in 1 .. Len(y.made) - 1 PROVE y.made[j].access.kind = "read"
  BY <1>1 DEF Grows, OnlyReads
<1>3. LET m == y.made[Len(y.made)] IN
      m.access.kind = "write" /\ m.access.address = a /\ m.access.width = n /\ m.by = by
  BY <1>1 DEF MadeOne
<1>4. Stores(mem, y, y.made[Len(y.made)].access.address, n)
  BY <1>3 DEF OnlyReads
<1> QED
  BY <1>1, <1>2, <1>3, <1>4 DEF OneWrite

LEMMA ReadAtKeeps ==
  ASSUME NEW STATE x, Good(x), NEW STATE a, NEW STATE n, NEW STATE by
  PROVE  ReadAt(x, a, n, by).mem = x.mem
<1> DEFINE z == Recorded(x, "read", a, n, by)
<1>1. z.mem = x.mem
  BY DEF Good, Fields, Recorded
<1>2. ReadAt(x, a, n, by) = IF x.status # "ok" THEN x ELSE z
  <2> HIDE DEF z
  <2> QED
    BY DEF ReadAt, Then, Seen, The, z
<1> HIDE DEF z
<1> QED
  BY <1>1, <1>2

LEMMA WriteAtStores ==
  ASSUME NEW STATE x, Good(x), x.status = "ok", NEW STATE a, NEW STATE n, NEW STATE v, NEW STATE by
  PROVE  WriteAt(x, a, n, v, by).mem = Memory!Written(x.mem, a, n, v, TRUE)
<1> DEFINE z == Recorded(x, "write", a, n, by)
           w == Memory!Written(z.mem, a, n, v, TRUE)
<1>1. z.mem = x.mem /\ "mem" \in DOMAIN z
  BY DEF Good, Fields, Recorded
<1>2. WriteAt(x, a, n, v, by) = [z EXCEPT !.mem = w]
  <2> HIDE DEF z
  <2> QED
    BY DEF WriteAt, Then, Seen, The, z
<1> HIDE DEF z
<1>3. w = Memory!Written(x.mem, a, n, v, TRUE)
  BY <1>1
<1> HIDE DEF w
<1> QED
  BY <1>1, <1>2, <1>3

LEMMA ReadReads ==
  ASSUME RunTyped, NEW STATE x, Good(x), NEW STATE o, o \in Operand, NEW STATE n, n \in Nat \ {0},
         NEW STATE mem, OnlyReads(mem, x)
  PROVE  LET y == Read(x, o, n) IN y.status = "ok" => OnlyReads(mem, y)
<1> DEFINE a == The(Resolve(x, o))
           z == ReadAt(x, a, n, o.kind)
           u == Fail(x, "local-operand-no-active-frame")
           y == Read(x, o, n)
<1>1. y = IF x.status # "ok" \/ ~InMemory(o) THEN x ELSE IF Resolve(x, o) = {} THEN u ELSE z
  <2> HIDE DEF z
  <2> QED
    BY DEF Read, AtOperand, Then, Seen, The, z
<1>2. u.mem = x.mem /\ z.mem = x.mem
  BY ReadAtKeeps DEF Good, Fields, Fail
<1>3. Good(y) /\ Grows(x, y) /\ (y.status = "ok" => MadeAt(x, y, "read", o, n))
  BY ReadMakes
<1> HIDE DEF y, z, u
<1>4. y.mem = x.mem
  BY <1>1, <1>2
<1>5. ASSUME y.status = "ok" PROVE OnlyReads(mem, y)
  <2>1. CASE InMemory(o)
    <3>1. PICK b \in Resolve(x, o) : MadeOne(x, y, "read", b, n, o.kind)
      BY <1>3, <1>5, <2>1 DEF MadeAt
    <3> QED
      BY <1>3, <1>4, <3>1, OneMoreRead
  <2>2. CASE ~InMemory(o)
    BY <1>1, <2>2
  <2> QED
    BY <2>1, <2>2
<1> QED
  BY <1>5 DEF y

LEMMA WriteWrites ==
  ASSUME RunTyped, NEW STATE x, Good(x), NEW STATE o, o \in Operand, NEW STATE n, n \in Nat \ {0}, NEW STATE v,
         NEW STATE mem, x.status = "ok" => OnlyReads(mem, x)
  PROVE  LET y == Write(x, o, n, v) IN y.status = "ok" => WritesTo(mem, y, o, n)
<1> DEFINE a == The(Resolve(x, o))
           z == WriteAt(x, a, n, v, o.kind)
           u == Fail(x, "local-operand-no-active-frame")
           y == Write(x, o, n, v)
<1>1. y = IF x.status # "ok" \/ ~InMemory(o) THEN x ELSE IF Resolve(x, o) = {} THEN u ELSE z
  <2> HIDE DEF z
  <2> QED
    BY DEF Write, AtOperand, Then, Seen, The, z
<1>2. u.status # "ok"
  BY DEF Good, Fields, Fail
<1>3. Good(y) /\ Grows(x, y)
  BY WriteMakes
<1> HIDE DEF y, z, u
<1>4. ASSUME y.status = "ok" PROVE WritesTo(mem, y, o, n)
  <2>1. x.status = "ok" /\ OnlyReads(mem, x)
    BY <1>3, <1>4 DEF Grows
  <2>2. CASE ~InMemory(o)
    BY <1>1, <2>1, <2>2 DEF WritesTo
  <2>3. CASE InMemory(o)
    <3>1. y = z /\ Resolve(x, o) # {}
      BY <1>1, <1>2, <1>4, <2>1, <2>3
    <3>2. a \in Int /\ o.kind \in Makers
      <4>1. a \in Resolve(x, o)
        BY <3>1 DEF The
      <4>2. Resolve(x, o) \subseteq Int
        BY AddressesAreNumbers
      <4>3. o.kind \in Makers
        BY DEF Operand, Makers
      <4> QED
        BY <4>1, <4>2, <4>3
    <3> HIDE DEF a
    <3>3. Good(z) /\ Grows(x, z) /\ (z.status = "ok" => MadeOne(x, z, "write", a, n, o.kind))
      BY <3>2, WriteAtOne DEF z
    <3>4. Stores(x.mem, z, a, n)
      BY <2>1, WriteAtStores DEF z, Stores
    <3>5. OneWrite(mem, z, n, o.kind)
      BY <1>4, <2>1, <3>1, <3>3, <3>4, OneMoreWrite
    <3> QED
      BY <2>3, <3>1, <3>5 DEF WritesTo
  <2> QED
    BY <2>2, <2>3
<1> QED
  BY <1>4 DEF y

LEMMA PushWrites ==
  ASSUME RunTyped, NEW STATE x, Good(x), NEW STATE v, NEW STATE mem, x.status = "ok" => OnlyReads(mem, x)
  PROVE  LET y == Push(x, v, "implicit") IN
         y.status = "ok" => OneWrite(mem, y, Slot, "implicit") /\ y.made[Len(y.made)].access.address = y.esp
<1> DEFINE a == Below(x.esp, Slot)
           z == WriteAt(x, a, Slot, v, "implicit")
           e == Below(z.esp, Slot)
           y == Push(x, v, "implicit")
<1>1. y = IF x.status # "ok" THEN x ELSE IF z.status # "ok" THEN z ELSE [z EXCEPT !.esp = e]
  <2> HIDE DEF z
  <2> QED
    BY DEF Push, Then, Seen, The, z
<1>0. "implicit" \in Makers
  BY DEF Makers
<1>2. /\ Good(y) /\ Grows(x, y)
      /\ y.status = "ok" => y.esp = a /\ MadeOne(x, y, "write", a, Slot, "implicit")
  BY <1>0, PushMakes
<1> HIDE DEF y
<1>3. ASSUME y.status = "ok" PROVE OneWrite(mem, y, Slot, "implicit") /\ y.made[Len(y.made)].access.address = y.esp
  <2>1. x.status = "ok" /\ OnlyReads(mem, x)
    BY <1>2, <1>3 DEF Grows
  <2>2. z.mem = Memory!Written(x.mem, a, Slot, v, TRUE)
    BY <2>1, WriteAtStores
  <2>3. Good(z)
    <3>1. a \in Int
      BY WordsBelow, SlotIsPositive DEF Good
    <3> HIDE DEF a
    <3> QED
      BY <1>0, <3>1, SlotIsPositive, WriteAtOne
  <2> HIDE DEF z, e, a
  <2>6. y.mem = z.mem
    BY <1>1, <1>3, <2>1, <2>3 DEF Good, Fields
  <2>4. Stores(x.mem, y, a, Slot)
    BY <2>2, <2>6 DEF Stores
  <2>5. OneWrite(mem, y, Slot, "implicit") /\ y.made[Len(y.made)].access.address = a
    BY <1>2, <1>3, <2>1, <2>2, <2>4, OneMoreWrite
  <2> QED
    BY <1>2, <1>3, <2>5
<1> QED
  BY <1>3 DEF y

LEMMA PopWrites ==
  ASSUME RunTyped, NEW STATE x, Good(x), NEW STATE i, i \in Instruction, NEW STATE mem, OnlyReads(mem, x)
  PROVE  LET y == Pop(x, i) IN y.status = "ok" => WritesTo(mem, y, i.dst, Slot)
<1> DEFINE r == ReadAt(x, x.esp, Slot, "implicit")
           u == [r EXCEPT !.esp = Above(r.esp, Slot)]
           z == Write(u, i.dst, Slot, ValueAt(r, x.esp))
           w == [z EXCEPT !.esp = x.esp]
           y == Pop(x, i)
<1>0. i.dst \in Operand /\ x.esp \in Int /\ "implicit" \in Makers /\ Slot \in Nat \ {0}
  BY SlotIsPositive DEF Instruction, Good, Makers
<1>1. y = IF r.status # "ok" THEN r ELSE IF z.status = "ok" THEN z ELSE w
  <2>1. y = Then(r, LAMBDA q : Seen(Write([q EXCEPT !.esp = Above(@, Slot)], i.dst, Slot, ValueAt(q, x.esp)), LAMBDA v :
               IF v.status = "ok" THEN v ELSE [v EXCEPT !.esp = x.esp]))
    BY DEF Pop
  <2> HIDE DEF r, z, y
  <2> QED
    BY <2>1 DEF Then, Seen, The, z
<1> HIDE DEF y
<1>2. Good(r) /\ Grows(x, r) /\ (r.status = "ok" => MadeOne(x, r, "read", x.esp, Slot, "implicit"))
  BY <1>0, ReadAtOne
<1>3. r.mem = x.mem
  BY ReadAtKeeps
<1> HIDE DEF r
<1>4. ASSUME y.status = "ok" PROVE WritesTo(mem, y, i.dst, Slot)
  <2>1. r.status = "ok"
    BY <1>1, <1>4
  <2>2. OnlyReads(mem, r)
    BY <1>2, <1>3, <2>1, OneMoreRead
  <2>3. DOMAIN u = Fields /\ u.esp = Above(r.esp, Slot) /\ \A f \in Fields \ {"esp"} : u[f] = r[f]
    BY <1>2 DEF Good, Fields
  <2> HIDE DEF u
  <2>4. u.mem = r.mem /\ u.made = r.made /\ u.delta = r.delta /\ u.ebp = r.ebp /\ u.proc = r.proc
        /\ u.nextFrame = r.nextFrame /\ u.frames = r.frames /\ u.status = r.status
    BY <2>3 DEF Fields
  <2>5. Above(r.esp, Slot) \in Int
    <3>1. UMax + 1 \in Nat \ {0} /\ r.esp + Slot \in Int
      BY <1>0, <1>2, LayoutAssumption DEF Good
    <3>2. (r.esp + Slot) % (UMax + 1) \in Int
      BY <3>1, DivModBasics
    <3> QED
      BY <3>2 DEF Above
  <2>6. Good(u)
    <3>1. Placed(r.mem) /\ r.ebp \in Int /\ r.nextFrame \in Nat /\ r.proc \in Procs
          /\ r.frames \in Seq(Frame) /\ \A k \in 1 .. Len(r.frames) : r.frames[k].locals = run.procs[r.frames[k].proc].locals
      BY <1>2 DEF Good
    <3> QED
      BY <1>2, <2>3, <2>4, <2>5, <3>1, StaysGood
  <2>7. OnlyReads(mem, u)
    BY <2>2, <2>4 DEF OnlyReads
  <2>8. z.status = "ok" => WritesTo(mem, z, i.dst, Slot)
    BY <1>0, <2>6, <2>7, WriteWrites
  <2>9. Good(z)
    BY <1>0, <2>6, WriteMakes
  <2> HIDE DEF z
  <2>10. w.status = z.status
    BY <2>9 DEF Good, Fields
  <2> HIDE DEF w
  <2> QED
    BY <1>1, <1>4, <2>1, <2>8, <2>10
<1> QED
  BY <1>4 DEF y

\* What an instruction that went well has read and written.
LEMMA ExecuteWrites ==
  ASSUME RunTyped, NEW STATE x, Good(x), x.status = "ok", x.made = <<>>, NEW STATE i, i \in Instruction, WellFormed(i)
  PROVE  LET y == Execute(x, i) IN y.status = "ok" => Effect(x.mem, y, i)
<1> DEFINE y == Execute(x, i)
           m == x.mem
<1>0. i.dst \in Operand /\ i.src \in Operand /\ i.width \in Nat \ {0} /\ i.op \in Operations
  BY SourceRunAssumption DEF Instruction
<1>1. OnlyReads(m, x)
  BY DEF OnlyReads
<1>2. Slot \in Nat \ {0}
  BY SlotIsPositive
<1> HIDE DEF m
<1>3. ASSUME NEW o, o \in Operand, NEW n, n \in Nat \ {0}
      PROVE  Good(Read(x, o, n)) /\ (Read(x, o, n).status = "ok" => OnlyReads(m, Read(x, o, n)))
  BY <1>1, <1>3, ReadMakes, ReadReads
<1>4. ASSUME NEW o, o \in Operand, NEW p, p \in Operand, NEW n, n \in Nat \ {0}
      PROVE  LET r == Read(Read(x, o, n), p, n) IN Good(r) /\ (r.status = "ok" => OnlyReads(m, r))
  <2> DEFINE q == Read(x, o, n)
             r == Read(q, p, n)
  <2>1. Good(q) /\ (q.status = "ok" => OnlyReads(m, q))
    BY <1>3, <1>4
  <2> HIDE DEF q
  <2>2. Good(r) /\ Grows(q, r)
    BY <1>4, <2>1, ReadMakes
  <2>3. ASSUME r.status = "ok" PROVE OnlyReads(m, r)
    <3>1. OnlyReads(m, q)
      BY <2>1, <2>2, <2>3 DEF Grows
    <3> QED
      BY <1>4, <2>1, <2>3, <3>1, ReadReads
  <2> QED
    BY <2>2, <2>3 DEF q
<1>5. CASE i.op \in {"mov", "update", "xchg"}
  <2>1. PICK r : y = Write(r, i.dst, i.width, i.value) /\ Good(r) /\ (r.status = "ok" => OnlyReads(m, r))
    <3>1. CASE i.op = "mov"
      <4>1. y = Write(Read(x, i.src, i.width), i.dst, i.width, i.value)
        BY <3>1 DEF Execute
      <4> HIDE DEF y
      <4> QED
        BY <1>0, <1>3, <4>1
    <3>2. CASE i.op = "xchg"
      <4>1. y = Write(Read(x, i.dst, i.width), i.dst, i.width, i.value)
        BY <3>2 DEF Execute
      <4> HIDE DEF y
      <4> QED
        BY <1>0, <1>3, <4>1
    <3>3. CASE i.op = "update"
      <4>1. y = Write(Read(Read(x, i.dst, i.width), i.src, i.width), i.dst, i.width, i.value)
        BY <3>3 DEF Execute
      <4> HIDE DEF y
      <4> QED
        BY <1>0, <1>4, <4>1
    <3> QED
      BY <1>5, <3>1, <3>2, <3>3
  <2> HIDE DEF y
  <2>2. y.status = "ok" => WritesTo(m, y, i.dst, i.width)
    BY <1>0, <2>1, WriteWrites
  <2> QED
    BY <1>5, <2>2 DEF Effect, y, m
<1>6. CASE i.op = "compare"
  <2>1. y = Read(Read(x, i.dst, i.width), i.src, i.width)
    BY <1>6 DEF Execute
  <2> HIDE DEF y
  <2>2. y.status = "ok" => OnlyReads(m, y)
    BY <1>0, <1>4, <2>1
  <2> QED
    BY <1>6, <2>2 DEF Effect, y, m
<1>7. CASE i.op = "push"
  <2> DEFINE r == Read(x, i.src, Slot)
  <2>1. y = Push(r, i.value, "implicit")
    BY <1>7 DEF Execute
  <2> HIDE DEF y
  <2>2. Good(r) /\ (r.status = "ok" => OnlyReads(m, r))
    BY <1>0, <1>2, <1>3
  <2> HIDE DEF r
  <2>3. y.status = "ok" => OneWrite(m, y, Slot, "implicit") /\ y.made[Len(y.made)].access.address = y.esp
    BY <2>1, <2>2, PushWrites
  <2> QED
    BY <1>7, <2>3 DEF Effect, y, m
<1>8. CASE i.op = "pop"
  <2>1. y = Pop(x, i)
    BY <1>8 DEF Execute
  <2>2. i.width = Slot
    BY <1>8 DEF WellFormed
  <2> HIDE DEF y
  <2>3. y.status = "ok" => WritesTo(m, y, i.dst, i.width)
    BY <1>1, <2>1, <2>2, PopWrites
  <2> QED
    BY <1>8, <2>3 DEF Effect, y, m
<1>9. CASE i.op = "adjust"
  <2> DEFINE e == Above(x.esp, i.value)
  <2>1. y = [x EXCEPT !.esp = e]
    BY <1>9 DEF Execute
  <2> HIDE DEF y, e
  <2>2. y.mem = x.mem /\ y.made = x.made
    BY <2>1 DEF Good, Fields
  <2>3. OnlyReads(m, y)
    BY <1>1, <2>2 DEF OnlyReads
  <2> QED
    BY <1>9, <2>3 DEF Effect, y, m
<1>10. CASE i.op = "capture"
  <2> DEFINE r == Read(x, i.src, Slot)
             w == [r EXCEPT !.pending = TRUE]
  <2>1. y = IF r.status # "ok" THEN r ELSE w
    <3>1. y = Then(r, LAMBDA q : [q EXCEPT !.pending = TRUE])
      BY <1>10 DEF Execute
    <3> HIDE DEF r, y
    <3> QED
      BY <3>1 DEF Then, Seen, The
  <2> HIDE DEF y
  <2>2. Good(r) /\ (r.status = "ok" => OnlyReads(m, r))
    BY <1>0, <1>2, <1>3
  <2> HIDE DEF r
  <2>3. w.mem = r.mem /\ w.made = r.made
    BY <2>2 DEF Good, Fields
  <2> HIDE DEF w
  <2>4. y.status = "ok" => OnlyReads(m, y)
    BY <2>1, <2>2, <2>3 DEF OnlyReads
  <2> QED
    BY <1>10, <2>4 DEF Effect, y, m
<1>11. CASE i.op \in {"call", "invoke", "ret"}
  BY <1>11 DEF Effect
<1> QED
  BY <1>0, <1>5, <1>6, <1>7, <1>8, <1>9, <1>10, <1>11 DEF Operations

LEMMA SteppedWrites ==
  ASSUME RunTyped, LocalsTyped, Ready(vm), vm.status = "ok", ~EntersEntryFrame(vm), NEW STATE i, i \in Instruction, WellFormed(i)
  PROVE  LET z == Stepped(i) IN z.status = "ok" => Effect(Forgetting(vm.mem), z, i)
<1> DEFINE x == [vm EXCEPT !.op = i.op, !.delta = <<>>, !.made = <<>>, !.mem = Forgetting(@)]
           e == Execute(x, i)
           w == [e EXCEPT !.count = @ + 1]
           z == Stepped(i)
<1>1. /\ DOMAIN x = Fields /\ x.op = i.op /\ x.delta = <<>> /\ x.made = <<>> /\ x.mem = Forgetting(vm.mem)
      /\ \A g \in Fields \ {"op", "delta", "made", "mem"} : x[g] = vm[g]
  BY DEF Ready, Fields
<1>2. z = IF e.status # "ok" THEN e ELSE w
  <2>1. z = Then(Then(IF EntersEntryFrame(x) THEN SetupFrame([x EXCEPT !.entered = TRUE], "entry", "frame") ELSE x,
                      LAMBDA u : Execute(u, i)), LAMBDA u : [u EXCEPT !.count = @ + 1])
    BY DEF Stepped
  <2> HIDE DEF x, z
  <2>2. ~EntersEntryFrame(x) /\ x.status = "ok"
    BY <1>1 DEF EntersEntryFrame, Fields
  <2>3. Then(x, LAMBDA u : Execute(u, i)) = e
    BY <2>2 DEF Then, Seen, The
  <2>4. z = Then(e, LAMBDA u : [u EXCEPT !.count = @ + 1])
    BY <2>1, <2>2, <2>3
  <2> HIDE DEF e
  <2> QED
    BY <2>4 DEF Then, Seen, The
<1> HIDE DEF z, x
<1>3. x.esp = vm.esp /\ x.ebp = vm.ebp /\ x.proc = vm.proc /\ x.nextFrame = vm.nextFrame /\ x.frames = vm.frames
      /\ x.entered = vm.entered /\ x.status = vm.status
  BY <1>1 DEF Fields
<1>4. Good(x) /\ x.status = "ok"
  <2>1. Placed(x.mem)
    BY <1>1, ForgettingKeepsPlaces DEF Ready
  <2>2. Mirrored(x)
    BY <1>1 DEF Mirrored
  <2> QED
    BY <1>1, <1>3, <2>1, <2>2 DEF Good, Ready
<1>5. Good(e) /\ (e.status = "ok" => Effect(x.mem, e, i))
  <2>1. e.status = "ok" => Effect(x.mem, e, i)
    BY <1>1, <1>4, ExecuteWrites
  <2> QED
    BY <1>4, <2>1, ExecuteMakes
<1> HIDE DEF e
<1>6. w.mem = e.mem /\ w.made = e.made /\ w.esp = e.esp /\ w.status = e.status
  BY <1>5 DEF Good, Fields
<1> HIDE DEF w
<1>7. ASSUME Effect(x.mem, e, i) PROVE Effect(x.mem, w, i)
  <2>1. \A o, n : WritesTo(x.mem, e, o, n) <=> WritesTo(x.mem, w, o, n)
    BY <1>6 DEF WritesTo, OneWrite, OnlyReads, Stores
  <2> QED
    BY <1>6, <1>7, <2>1 DEF Effect, OneWrite, OnlyReads, Stores
<1> QED
  BY <1>1, <1>2, <1>5, <1>6, <1>7 DEF z

-----------------------------------------------------------------------------
(* Changes *)

Differ(x, a, n) == \E b \in a .. a + n - 1 : ByteOf(vm.mem, b) # ByteOf(x.mem, b)

RowFor(x, a, n) == [address |-> a, old |-> Reads(vm.mem, a, n), new |-> Reads(x.mem, a, n)]

\* The only write since vm, and what the recorder tells of it.
WrittenOnce(x, a, n, by) ==
  /\ \E m \in ToSet(x.made) :
       /\ m.access \in Access /\ Sound(m.access) /\ Wrote(m.access)
       /\ m.access.address = a /\ m.access.width = n /\ m.by = by
       /\ \A q \in ToSet(x.made) : Wrote(q.access) => q = m
  /\ FirstWrite(x) = {a}
  /\ Differ(x, a, n) => x.mem.changes # <<>> /\ RowAt(x, a, n) = <<RowFor(x, a, n)>>
  /\ ~Differ(x, a, n) => x.mem.changes = <<>>

LEMMA Forgotten ==
  ASSUME RunTyped, Placed(vm.mem)
  PROVE  LET f == Forgetting(vm.mem) IN
         Placed(f) /\ f.changes = <<>> /\ f.regions = vm.mem.regions /\ \A b : ByteOf(f, b) = ByteOf(vm.mem, b)
<1> DEFINE f == Forgetting(vm.mem)
<1>1. f.changes = <<>> /\ f.regions = vm.mem.regions
  BY DEF Placed, Forgetting
<1>2. Placed(f)
  BY ForgettingKeepsPlaces
<1> HIDE DEF f
<1>3. \A b : ByteOf(f, b) = ByteOf(vm.mem, b)
  <2>1. \A b : Memory!Containing(f, b, 1) = Memory!Containing(vm.mem, b, 1)
    BY <1>1 DEF Memory!Containing
  <2> QED
    BY <1>1, <2>1 DEF ByteOf
<1> QED
  BY <1>1, <1>2, <1>3 DEF f

LEMMA OneWriteIsTold ==
  ASSUME RunTyped, Placed(vm.mem), NEW STATE x, Good(x), x.status = "ok", Len(x.made) <= 3,
         NEW STATE n, n \in Widths, NEW STATE by, OneWrite(Forgetting(vm.mem), x, n, by)
  PROVE  WrittenOnce(x, x.made[Len(x.made)].access.address, n, by)
<1> DEFINE f == Forgetting(vm.mem)
           z == Len(x.made)
           m == x.made[z]
           a == m.access.address
<1>0. Placed(f) /\ f.changes = <<>> /\ \A b : ByteOf(f, b) = ByteOf(vm.mem, b)
  BY Forgotten
<1>1. /\ z \in 1 .. z /\ z \in Nat \ {0}
      /\ \A j \in 1 .. z : j # z => x.made[j].access.kind = "read"
      /\ m.access.kind = "write" /\ m.access.width = n /\ m.by = by /\ Stores(f, x, a, n)
  BY DEF OneWrite
<1>2. n \in Nat \ {0} /\ n <= MaxChanges
  BY SourceRunAssumption
<1> HIDE DEF f
<1>3. /\ ToSet(x.made) = {x.made[k] : k \in 1 .. z}
      /\ \A q \in ToSet(x.made) : q.access \in Access /\ Sound(q.access)
      /\ DOMAIN x.delta = 1 .. Len(x.delta)
      /\ \A k \in 1 .. Len(x.delta) : k \in 1 .. z /\ x.delta[k] = x.made[k].access
  BY MadeIsTyped
<1>4. DOMAIN x.delta = 1 .. z
  <2>1. Len(x.delta) \in Nat /\ MaxAccesses \in Nat /\ MaxAccesses >= 3
    BY Lengths, SourceRunAssumption
  <2>2. z <= MaxAccesses
    BY <1>1, <2>1
  <2>3. z <= Len(x.delta)
    BY <1>1, <2>2 DEF Good, Mirrored
  <2>4. Len(x.delta) <= z
    <3>1. CASE Len(x.delta) = 0
      BY <1>1, <3>1
    <3>2. CASE Len(x.delta) # 0
      <4>1. Len(x.delta) \in 1 .. Len(x.delta)
        BY <2>1, <3>2
      <4> QED
        BY <1>3, <4>1
    <3> QED
      BY <3>1, <3>2
  <2> QED
    BY <1>1, <1>3, <2>1, <2>3, <2>4
<1>5. m \in ToSet(x.made) /\ m.access \in Access /\ Sound(m.access) /\ Wrote(m.access)
  <2>1. m \in ToSet(x.made)
    BY <1>1, <1>3
  <2> QED
    BY <1>1, <1>3, <2>1 DEF Wrote, Sound
<1> HIDE DEF z
<1>6. ASSUME NEW k \in 1 .. z, Wrote(x.made[k].access) PROVE k = z
  BY <1>1, <1>6 DEF Wrote
<1>7. \A q \in ToSet(x.made) : Wrote(q.access) => q = m
  BY <1>3, <1>6
<1>8. FirstWrite(x) = {a}
  <2> DEFINE ws == {k \in DOMAIN x.delta : Wrote(x.delta[k])}
  <2>1. \A k \in 1 .. z : x.delta[k] = x.made[k].access
    <3>1. Len(x.delta) \in Nat /\ 1 .. Len(x.delta) = 1 .. z
      BY <1>3, <1>4, Lengths
    <3> QED
      BY <1>3, <3>1
  <2>2. ws = {z}
    BY <1>1, <1>4, <1>5, <1>6, <2>1
  <2>3. FirstWrite(x) = IF ws = {} THEN {} ELSE {x.delta[Min(ws)].address}
    BY DEF FirstWrite
  <2> HIDE DEF ws
  <2>4. Min(ws) = z
    BY <1>1, <2>2 DEF Min
  <2>5. x.delta[z] = m.access
    BY <1>1, <2>1
  <2> QED
    BY <2>2, <2>3, <2>4, <2>5
<1>9. PICK k \in Kinds : /\ run.layout.regions[k].base <= a /\ a + n <= run.layout.regions[k].limit
                         /\ "write" \in Memory!Granted(k)
  BY <1>1, <1>5 DEF Sound
<1>10. a \in Int
  BY <1>5 DEF Access
<1> HIDE DEF m, a
<1>11. PICK v : x.mem = Memory!Written(f, a, n, v, TRUE)
  BY <1>1 DEF Stores
<1>12. RowTold(f, x, a, n)
  BY <1>0, <1>2, <1>9, <1>10, <1>11, RowTells
<1>13. Reads(f, a, n) = Reads(vm.mem, a, n)
  BY <1>0 DEF Reads
<1>14. /\ Differ(x, a, n) => x.mem.changes # <<>> /\ RowAt(x, a, n) = <<RowFor(x, a, n)>>
       /\ ~Differ(x, a, n) => x.mem.changes = <<>>
  BY <1>0, <1>12, <1>13 DEF Differ, RowFor, RowTold
<1>15. m.access.address = a /\ m.access.width = n /\ m.by = by
  BY <1>1 DEF a, m
<1> QED
  BY <1>5, <1>7, <1>8, <1>14, <1>15 DEF WrittenOnce, a, m, z

\* Noticed and RowOf, of the state behind the step.
Notices(x, m) ==
  /\ Wrote(m.access) /\ Differ(x, m.access.address, m.access.width)
  /\ \/ m.by \in {"address", "esp"} /\ InOneVariable(Bytes(m.access))
     \/ x.op = "push" /\ m.by = "implicit" /\ OnStack(m.access.address, m.access.width)

Reported(x, row) ==
  /\ row # <<>> <=> \E m \in ToSet(x.made) : Notices(x, m)
  /\ \A r \in ToSet(row) : \E m \in ToSet(x.made) : Notices(x, m) /\ r = RowFor(x, m.access.address, m.access.width)

LEMMA NothingReported ==
  ASSUME NEW STATE x, NEW STATE row, row = <<>>, \A m \in ToSet(x.made) : ~Notices(x, m)
  PROVE  Reported(x, row)
<1>1. ToSet(row) = {}
  BY DEF ToSet
<1> QED
  BY <1>1 DEF Reported

LEMMA OneReported ==
  ASSUME NEW STATE x, NEW STATE m, m \in ToSet(x.made), Notices(x, m),
         NEW STATE row, row = <<RowFor(x, m.access.address, m.access.width)>>
  PROVE  Reported(x, row)
<1>1. row # <<>> /\ ToSet(row) = {RowFor(x, m.access.address, m.access.width)}
  BY DEF ToSet
<1> QED
  BY <1>1 DEF Reported

LEMMA RowReports ==
  ASSUME RunTyped, RunFits, LocalsTyped, MapKnown, Ready(vm), vm.status = "ok", ~EntersEntryFrame(vm),
         NEW STATE i, i \in Instruction, WellFormed(i), NEW STATE x, x = Stepped(i), x.status = "ok",
         i.op = "push" => OnStack(x.esp, Slot)
  PROVE  Reported(x, Row(x, i))
<1> DEFINE f == Forgetting(vm.mem)
<1>1. Good(x) /\ x.op = i.op /\ Outcome(vm, x, i)
  BY SteppedMakes
<1>2. Effect(f, x, i)
  BY SteppedWrites
<1>3. i.dst \in Operand /\ i.width \in Widths /\ i.op \in Operations /\ Slot \in Widths
  BY SourceRunAssumption DEF Instruction
<1>4. Placed(vm.mem)
  BY DEF Ready
<1>5. f.changes = <<>>
  BY <1>4, Forgotten
<1>6. i.op \in Simple => Len(x.made) <= 3
  BY <1>1 DEF Outcome, Announced
<1>15. ToSet(x.made) = {x.made[k] : k \in 1 .. Len(x.made)}
  BY <1>1, MadeIsTyped
<1>7. i.op # "push" => PushRow(x, i) = <<>>
  BY DEF PushRow
<1>8. ASSUME NEW o, o.kind \notin {"address", "esp"} PROVE OperandRow(x, o, i.width) = <<>>
  BY <1>8 DEF OperandRow
<1> HIDE DEF f
<1>9. CASE OnlyReads(f, x)
  <2>1. x.mem.changes = <<>>
    BY <1>5, <1>9 DEF OnlyReads
  <2>2. Row(x, i) = <<>>
    BY <2>1 DEF Row
  <2>3. \A m \in ToSet(x.made) : ~Wrote(m.access)
    BY <1>9, <1>15 DEF OnlyReads, Wrote
  <2> QED
    BY <2>2, <2>3, NothingReported DEF Notices
<1>10. CASE i.op \in {"call", "invoke", "ret"}
  <2>1. i.dst.kind \notin {"address", "esp"} /\ i.src.kind \notin {"address", "esp"}
    BY <1>10 DEF WellFormed, InMemory
  <2>2. PushRow(x, i) = <<>> /\ OperandRow(x, i.dst, i.width) = <<>> /\ OperandRow(x, i.src, i.width) = <<>>
    BY <1>7, <1>8, <1>10, <2>1
  <2>3. Row(x, i) = <<>>
    BY <2>2 DEF Row
  <2>4. \A m \in ToSet(x.made) : m.by \in Unnamed
    BY <1>1, <1>10, <1>15 DEF Outcome, NoneNamed
  <2>5. \A m \in ToSet(x.made) : ~Notices(x, m)
    BY <1>1, <1>10, <2>4 DEF Notices, Unnamed
  <2> QED
    BY <2>3, <2>5, NothingReported
<1>11. CASE i.op \in {"mov", "update", "xchg", "pop"} /\ InMemory(i.dst)
  <2> DEFINE a == x.made[Len(x.made)].access.address
             n == i.width
  <2>1. OneWrite(f, x, n, i.dst.kind) /\ i.op \in Simple /\ x.op # "push"
    BY <1>1, <1>2, <1>11 DEF Effect, WritesTo, Simple
  <2>2. WrittenOnce(x, a, n, i.dst.kind)
    BY <1>1, <1>3, <1>4, <1>6, <2>1, OneWriteIsTold DEF f
  <2> HIDE DEF a
  <2>3. PICK m \in ToSet(x.made) :
          /\ m.access \in Access /\ Sound(m.access) /\ Wrote(m.access)
          /\ m.access.address = a /\ m.access.width = n /\ m.by = i.dst.kind
          /\ \A q \in ToSet(x.made) : Wrote(q.access) => q = m
    BY <2>2 DEF WrittenOnce
  <2>4. /\ FirstWrite(x) = {a}
        /\ Differ(x, a, n) => x.mem.changes # <<>> /\ RowAt(x, a, n) = <<RowFor(x, a, n)>>
        /\ ~Differ(x, a, n) => x.mem.changes = <<>>
    BY <2>2 DEF WrittenOnce
  <2>5. OperandRow(x, i.src, n) = <<>> /\ PushRow(x, i) = <<>>
    <3>1. i.src.kind \notin {"address", "esp"}
      BY <1>11 DEF WellFormed, InMemory
    <3> QED
      BY <1>1, <1>7, <1>8, <2>1, <3>1
  <2>6. Notices(x, m) <=> Differ(x, a, n) /\ i.dst.kind \in {"address", "esp"} /\ InOneVariable(Bytes(m.access))
    BY <2>1, <2>3 DEF Notices
  <2>7. \A q \in ToSet(x.made) : Notices(x, q) => q = m
    BY <2>3 DEF Notices
  <2>8. FoundByRange(entries, a, n) # 0 <=> InOneVariable(Bytes(m.access))
    <3>1. FoundByRange(entries, m.access.address, m.access.width) # 0 <=> InOneVariable(Bytes(m.access))
      BY <2>3, FoundInVariable
    <3> QED
      BY <2>3, <3>1
  <2>9. The(FirstWrite(x)) = a /\ FirstWrite(x) # {}
    BY <2>4 DEF The
  <2>10. OperandRow(x, i.dst, n) =
           IF i.dst.kind \in {"address", "esp"} /\ FoundByRange(entries, a, n) # 0 THEN RowAt(x, a, n) ELSE <<>>
    BY <2>9 DEF OperandRow
  <2>11. CASE Notices(x, m)
    <3>1. Row(x, i) = <<RowFor(x, a, n)>>
      BY <2>4, <2>5, <2>6, <2>8, <2>10, <2>11 DEF Row
    <3>2. Row(x, i) = <<RowFor(x, m.access.address, m.access.width)>>
      BY <2>3, <3>1
    <3> QED
      BY <2>3, <2>11, <3>2, OneReported
  <2>12. CASE ~Notices(x, m)
    <3>1. Row(x, i) = <<>>
      BY <2>4, <2>5, <2>6, <2>8, <2>10, <2>12 DEF Row
    <3> QED
      BY <2>7, <2>12, <3>1, NothingReported
  <2> QED
    BY <2>11, <2>12
<1>12. CASE i.op = "push"
  <2> DEFINE a == x.made[Len(x.made)].access.address
  <2>1. OneWrite(f, x, Slot, "implicit") /\ i.op \in Simple /\ x.op = "push" /\ a = x.esp
    BY <1>1, <1>2, <1>12 DEF Effect, Simple
  <2>2. WrittenOnce(x, a, Slot, "implicit")
    BY <1>1, <1>3, <1>4, <1>6, <2>1, OneWriteIsTold DEF f
  <2> HIDE DEF a
  <2>3. PICK m \in ToSet(x.made) :
          /\ m.access \in Access /\ Sound(m.access) /\ Wrote(m.access)
          /\ m.access.address = a /\ m.access.width = Slot /\ m.by = "implicit"
          /\ \A q \in ToSet(x.made) : Wrote(q.access) => q = m
    BY <2>2 DEF WrittenOnce
  <2>4. /\ FirstWrite(x) = {a}
        /\ Differ(x, a, Slot) => x.mem.changes # <<>> /\ RowAt(x, a, Slot) = <<RowFor(x, a, Slot)>>
        /\ ~Differ(x, a, Slot) => x.mem.changes = <<>>
    BY <2>2 DEF WrittenOnce
  <2>5. OnStack(a, Slot)
    BY <1>12, <2>1
  <2>6. Notices(x, m) <=> Differ(x, a, Slot)
    BY <2>1, <2>3, <2>5 DEF Notices
  <2>7. \A q \in ToSet(x.made) : Notices(x, q) => q = m
    BY <2>3 DEF Notices
  <2>9. The(FirstWrite(x)) = a /\ FirstWrite(x) # {}
    BY <2>4 DEF The
  <2>10. PushRow(x, i) = RowAt(x, a, Slot)
    BY <1>12, <2>5, <2>9 DEF PushRow
  <2>11. CASE Notices(x, m)
    <3> DEFINE r == <<RowFor(x, a, Slot)>>
    <3>3. r # <<>> /\ PushRow(x, i) = r /\ x.mem.changes # <<>>
      BY <2>4, <2>6, <2>10, <2>11
    <3> HIDE DEF r
    <3>1. Row(x, i) = r
      BY <3>3 DEF Row
    <3>2. Row(x, i) = <<RowFor(x, m.access.address, m.access.width)>>
      BY <2>3, <3>1 DEF r
    <3> QED
      BY <2>3, <2>11, <3>2, OneReported
  <2>12. CASE ~Notices(x, m)
    <3>1. Row(x, i) = <<>>
      BY <2>4, <2>6, <2>12 DEF Row
    <3> QED
      BY <2>7, <2>12, <3>1, NothingReported
  <2> QED
    BY <2>11, <2>12
<1>13. CASE i.op \in {"compare", "adjust", "capture"}
  BY <1>2, <1>9, <1>13 DEF Effect
<1>14. CASE i.op \in {"mov", "update", "xchg", "pop"} /\ ~InMemory(i.dst)
  BY <1>2, <1>9, <1>14 DEF Effect, WritesTo
<1> QED
  BY <1>3, <1>10, <1>11, <1>12, <1>13, <1>14 DEF Operations

-----------------------------------------------------------------------------
(* The three properties *)

LEMMA TurnsStayInside ==
  RunInv /\ [Next]_vars => [StaysInside]_vars
<1> SUFFICES ASSUME RunInv, Next PROVE StaysInside
  OBVIOUS
<1>1. CASE StopAtLimit
  BY <1>1 DEF StopAtLimit, StaysInside, Committed
<1>2. CASE TakeTurn
  <2>1. PICK j \in Instruction :
          \/ UNCHANGED vm /\ phase' = "stopped" /\ reports' = SectionsChecked(j) /\ UNCHANGED <<run, entries>>
          \/ \E x \in {Stepped(j)} :
               Passes(j) /\ (Refuse(j, x) \/ StopAfterSection(j, x) \/ StopAfterObject(j, x) \/ Commit(j, x))
    BY <1>2, TurnsAre
  <2>2. phase = "running"
    BY <1>2, TurnsAre
  <2>3. CASE UNCHANGED vm
    BY <2>3 DEF StaysInside, Committed
  <2>4. CASE \E x \in {Stepped(j)} :
               Passes(j) /\ (Refuse(j, x) \/ StopAfterSection(j, x) \/ StopAfterObject(j, x) \/ Commit(j, x))
    <3>1. PICK x \in {Stepped(j)} :
            Passes(j) /\ (Refuse(j, x) \/ StopAfterSection(j, x) \/ StopAfterObject(j, x) \/ Commit(j, x))
      BY <2>4
    <3>2. x = Stepped(j) /\ j.op \in Operations
      BY DEF Instruction
    <3>3. Good(x) /\ x.op = j.op /\ (x.status = "ok" /\ ~EntersEntryFrame(vm) => Outcome(vm, x, j))
      BY <2>2, <3>2, SteppedMakes DEF RunInv
    <3>4. CASE Refuse(j, x)
      BY <3>4 DEF Refuse, StaysInside, Committed
    <3>5. CASE StopAfterSection(j, x)
      <4>1. vm' = x /\ phase' = "stopped" /\ x.status = "ok" /\ SectionCheck(x.delta).stops
        BY <3>5 DEF StopAfterSection
      <4>2. Planned(j.op) => EntersEntryFrame(vm)
        BY <2>2, <3>1, <3>3, <4>1, SectionsStopInTime DEF RunInv
      <4> QED
        BY <3>3, <4>1, <4>2 DEF StaysInside, Committed
    <3>6. CASE StopAfterObject(j, x)
      <4>1. vm' = x /\ phase' = "stopped" /\ x.status = "ok" /\ run.settings.objects = Strict /\ ObjectFaults(x, j) # {}
        BY <3>6 DEF StopAfterObject
      <4>2. (Planned(j.op) /\ ~EntersEntryFrame(vm)) =>
              \E m \in ToSet(x.made) : /\ m.by = "local" => ~Apart(x)
                                       /\ \E l \in Begun(x, m.access) : Leaves(l, m.access)
        BY <2>2, <3>1, <3>3, <4>1, ObjectsStopInTime DEF RunInv
      <4> QED
        BY <3>3, <4>1, <4>2 DEF StaysInside, Committed
    <3>7. CASE Commit(j, x)
      <4>1. /\ vm' = x /\ phase' # "stopped" /\ x.status = "ok" /\ ~SectionCheck(x.delta).stops
            /\ run.settings.objects = Strict => ObjectFaults(x, j) = {}
        BY <3>7 DEF Commit
      <4>2. (run.settings.objects = Strict /\ j.op \notin {"call", "ret"} /\ ~EntersEntryFrame(vm)) =>
              \A a \in Own(x) : ~EscapesAll(x, a)
        BY <2>2, <3>2, <3>3, <4>1, ObjectsAreSeen DEF RunInv, Strict, Off
      <4>3. ~EntersEntryFrame(vm) => \A a \in Own(x), level \in Stricts : ~Beyond(level, a)
        BY <3>2, <3>3, <4>1, StrictSectionsHold DEF RunInv
      <4> QED
        BY <3>3, <4>1, <4>2, <4>3 DEF StaysInside
    <3> QED
      BY <3>1, <3>4, <3>5, <3>6, <3>7
  <2> QED
    BY <2>1, <2>3, <2>4
<1> QED
  BY <1>1, <1>2 DEF Next

LEMMA TurnsTell ==
  RunInv /\ [Next]_vars => [TellsEscapes]_vars
<1> SUFFICES ASSUME RunInv, Next, Committed, ~EntersEntryFrame(vm)
             PROVE  /\ (run.settings.objects = Warn /\ vm'.op \notin {"call", "ret"} /\ reports.object < MaxReports) =>
                         /\ (\E a \in Own(vm') : EscapesAll(vm', a)) => Told("object")
                         /\ Told("object") => \E a \in Own(vm') : EscapesSome(vm', a)
                    /\ (Stricts = {} /\ reports.section < MaxReports) =>
                         (Told("section") <=> \E a \in Own(vm'), level \in {"capacity", "image"} :
                                                 PolicyFor(level) = Warn /\ Beyond(level, a))
  BY DEF TellsEscapes
<1>1. TakeTurn
  BY DEF Next, StopAtLimit, Committed
<1>2. PICK j \in Instruction :
        \/ UNCHANGED vm /\ phase' = "stopped" /\ reports' = SectionsChecked(j) /\ UNCHANGED <<run, entries>>
        \/ \E x \in {Stepped(j)} :
             Passes(j) /\ (Refuse(j, x) \/ StopAfterSection(j, x) \/ StopAfterObject(j, x) \/ Commit(j, x))
  BY <1>1, TurnsAre
<1> DEFINE x == Stepped(j)
<1>3. Commit(j, x)
  BY <1>2 DEF Committed, Refuse, StopAfterSection, StopAfterObject
<1>4. vm' = x /\ x.status = "ok" /\ reports' = CommitReports(j, x) /\ phase = "running"
  BY <1>3 DEF Commit, CommitReports, Committed
<1>5. j.op \in Operations
  BY DEF Instruction
<1>6. Good(x) /\ x.op = j.op /\ Outcome(vm, x, j)
  BY <1>4, SteppedMakes DEF RunInv
<1> HIDE DEF x
<1>7. /\ reports.object < MaxReports => (reports'.object > reports.object <=> ObjectFaults(x, j) # {})
      /\ (Stricts = {} /\ reports.section < MaxReports) =>
           (reports'.section > reports.section <=> SectionCheck(x.delta).warned > 0)
  BY <1>4, <1>5, <1>6, CommitTells DEF RunInv
<1>8. (run.settings.objects = Warn /\ vm'.op \notin {"call", "ret"} /\ reports.object < MaxReports) =>
        /\ (\E a \in Own(vm') : EscapesAll(vm', a)) => Told("object")
        /\ Told("object") => \E a \in Own(vm') : EscapesSome(vm', a)
  <2> SUFFICES ASSUME run.settings.objects = Warn, vm'.op \notin {"call", "ret"}, reports.object < MaxReports
               PROVE  /\ (\E a \in Own(vm') : EscapesAll(vm', a)) => Told("object")
                      /\ Told("object") => \E a \in Own(vm') : EscapesSome(vm', a)
    OBVIOUS
  <2>1. /\ (\E a \in Own(x) : EscapesAll(x, a)) => ObjectFaults(x, j) # {}
        /\ ObjectFaults(x, j) # {} => \E a \in Own(x) : EscapesSome(x, a)
    BY <1>4, <1>5, <1>6, ObjectsAreSeen DEF RunInv, Warn, Off
  <2>2. Told("object") <=> ObjectFaults(x, j) # {}
    BY <1>7 DEF Told
  <2> QED
    BY <1>4, <2>1, <2>2
<1>9. (Stricts = {} /\ reports.section < MaxReports) =>
        (Told("section") <=> \E a \in Own(vm'), level \in {"capacity", "image"} :
                                PolicyFor(level) = Warn /\ Beyond(level, a))
  <2> SUFFICES ASSUME Stricts = {}, reports.section < MaxReports
               PROVE  Told("section") <=> \E a \in Own(vm'), level \in {"capacity", "image"} :
                                             PolicyFor(level) = Warn /\ Beyond(level, a)
    OBVIOUS
  <2>1. SectionCheck(x.delta).warned > 0 <=>
          \E a \in Own(x), level \in {"capacity", "image"} : PolicyFor(level) = Warn /\ Beyond(level, a)
    BY <1>4, <1>5, <1>6, SectionsAreSeen DEF RunInv
  <2>2. Told("section") <=> SectionCheck(x.delta).warned > 0
    BY <1>7 DEF Told
  <2> QED
    BY <1>4, <2>1, <2>2
<1> QED
  BY <1>8, <1>9

\* For every program, layout and combination of policies: what a strict policy lets through stays
\* inside what it guards, and a step it stops has changed nothing, but for an access that runs out
\* of a LOCAL it did not name.
THEOREM StrictRuns == Spec => StrictRunStaysInside
<1>1. RunInv /\ [Next]_vars => [StaysInside]_vars
  BY TurnsStayInside
<1> QED
  BY <1>1, RunIsSound, PTL DEF Spec, StrictRunStaysInside

\* For every program, layout and combination of policies: a policy that warns tells the accesses
\* it is about, and tells of no other step, while its list has room.
THEOREM WarnedRuns == Spec => EscapesAreTold
<1>1. RunInv /\ [Next]_vars => [TellsEscapes]_vars
  BY TurnsTell
<1> QED
  BY <1>1, RunIsSound, PTL DEF Spec, EscapesAreTold

LEMMA TurnsReport ==
  RunInv /\ [Next]_vars => [ReportsChanges]_vars
<1> SUFFICES ASSUME RunInv, Next, Committed, ~EntersEntryFrame(vm), PushStaysOnStack, reports.changes < MaxReports
             PROVE  /\ reports'.row # <<>> <=> \E m \in ToSet(vm'.made) : Noticed(m)
                    /\ \A row \in ToSet(reports'.row) : \E m \in ToSet(vm'.made) : Noticed(m) /\ row = RowOf(m.access)
  BY DEF ReportsChanges
<1>1. TakeTurn
  BY DEF Next, StopAtLimit, Committed
<1>2. PICK j \in {j \in Instruction : WellFormed(j)} :
        \/ UNCHANGED vm /\ phase' = "stopped" /\ reports' = SectionsChecked(j) /\ UNCHANGED <<run, entries>>
        \/ \E x \in {Stepped(j)} :
             Passes(j) /\ (Refuse(j, x) \/ StopAfterSection(j, x) \/ StopAfterObject(j, x) \/ Commit(j, x))
  BY <1>1, TurnsAre
<1> DEFINE x == Stepped(j)
<1>3. Commit(j, x)
  BY <1>2 DEF Committed, Refuse, StopAfterSection, StopAfterObject
<1>4. vm' = x /\ x.status = "ok" /\ reports' = CommitReports(j, x) /\ phase = "running"
  BY <1>3 DEF Commit, CommitReports, Committed
<1>5. j \in Instruction /\ WellFormed(j) /\ j.op \in Operations
  BY DEF Instruction
<1>6. Good(x) /\ x.op = j.op
  BY <1>4, <1>5, SteppedMakes DEF RunInv
<1>7. j.op = "push" => OnStack(x.esp, Slot)
  BY <1>4, <1>6 DEF PushStaysOnStack
<1>8. Reported(x, Row(x, j))
  BY <1>4, <1>5, <1>7, RowReports DEF RunInv
<1>9. reports'.row = Row(x, j)
  BY <1>4, <1>5, <1>6, CommitTells DEF RunInv
<1> HIDE DEF x
<1>10. \A m : Noticed(m) <=> Notices(x, m)
  BY <1>4 DEF Noticed, Notices, Differ, Differs, Bytes
<1>11. \A a : RowOf(a) = RowFor(x, a.address, a.width)
  BY <1>4 DEF RowOf, RowFor
<1> QED
  BY <1>4, <1>8, <1>9, <1>10, <1>11 DEF Reported

\* For every program, layout and combination of policies: while the list has room, a committed step
\* leaves the row of the change an operand made to a declared variable, or PUSH to its slot, with
\* the bytes before and after, and no other row.
THEOREM ChangesListed == Spec => ChangesAreReported
<1>1. RunInv /\ [Next]_vars => [ReportsChanges]_vars
  BY TurnsReport
<1> QED
  BY <1>1, RunIsSound, PTL DEF Spec, ChangesAreReported

=============================================================================
