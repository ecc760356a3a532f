----------------------------- MODULE SourceRun ------------------------------
(***************************************************************************)
(* One source run after parsing (src/wasm/wasm_api.c): the program is      *)
(* relocated and loaded, then each turn of the loop checks the accesses    *)
(* the next instruction plans against the selected policies, steps the     *)
(* executor, checks the accesses it made, remembers which bytes the        *)
(* program has written and reports warnings and memory changes.            *)
(*                                                                         *)
(* The program unfolds as it runs: every turn takes any instruction the    *)
(* current procedure may hold.  Of the executor's instructions those are   *)
(* kept whose accesses differ, and of registers ESP and EBP; what other    *)
(* registers hold is chosen.  LEAVE, USES, the Irvine32 routines and the   *)
(* shift and flag checks belong to other modules; calls nest once.         *)
(***************************************************************************)
EXTENDS ObjectMap

CONSTANTS ByteBase, MaxChanges, Widths,  \* see VmMemory
          Slot,          \* bytes of a DWORD
          MaxAccesses,   \* VM_EXEC_MAX_MEMORY_ACCESSES
          MaxReports,    \* room in each list of warnings and of changes
          MaxMarks,      \* MASM32_SIM_WASM_MAX_LOCAL_INITIALIZED_BYTES
          Token,         \* the pseudo-EIP of a return point
          FrameCapacity, \* VM_MAX_CALL_DEPTH_LIMIT
          Limit,         \* the instruction limit
          Settings,      \* combinations of policies
          Layouts,       \* selected layouts
          Sources,       \* declared storage, at fixed addresses, and the images
          EntryLocals,   \* choices for the automatic locals of the entry procedure
          HelperLocals,  \* those of the procedure CALL and INVOKE enter
          Instructions   \* what programs are made of

Off == "off"
Warn == "warn"
Strict == "strict"
Choice == {Off, Warn, Strict}

Operations == {"mov", "update", "compare", "xchg", "push", "pop", "adjust", "capture", "call", "invoke", "ret"}

\* An address names its region in "disp" until it is relocated; a LOCAL is named by its offset.
Operand == [kind : {"none", "address", "esp", "local"}, address : Int, disp : Int]
Instruction == [op : Operations, dst : Operand, src : Operand, width : Widths, value : Int]

InMemory(o) == o.kind \in {"address", "esp", "local"}

\* One operand may be in memory, none of CALL, INVOKE and RET; POP's is a DWORD.  What is not so
\* is refused by the parser or, before any access, by the executor, and left out.
WellFormed(i) ==
  /\ ~(InMemory(i.dst) /\ InMemory(i.src))
  /\ i.op \in {"call", "invoke", "ret"} => ~InMemory(i.dst) /\ ~InMemory(i.src)
  /\ i.op = "pop" => i.width = Slot

\* No instruction makes more than three accesses, but for the frame CALL and INVOKE set up, and
\* the recorder has room for the bytes of one.
ASSUME SourceRunAssumption ==
  /\ Widths \subseteq Nat \ {0} /\ Slot \in Widths /\ MaxAccesses \in Nat /\ MaxAccesses >= 3
  /\ MaxChanges \in Nat /\ MaxReports \in Nat /\ MaxMarks \in Nat
  /\ FrameCapacity \in Nat \ {0} /\ Limit \in Nat \ {0}
  /\ \A s \in Settings : s \in [capacity : Choice, image : Choice, objects : Choice, uninit : Choice]
  /\ \A n \in Widths : n <= MaxChanges
  /\ \A i \in Instructions : i \in Instruction /\ WellFormed(i)
  /\ \A i \in Instructions, r \in {"dst", "src"} : i[r].kind = "address" => i[r].disp \in {0, Data, Const}

\* Regions are apart, and the capacities of .data and .CONST end inside the address space.
ASSUME LayoutsAssumption ==
  \A p \in Layouts :
    /\ p \in Policy /\ Separated(p) /\ \A k \in Kinds : p.regions[k].base <= p.regions[k].limit
    /\ \A k \in {Data, Const} :
         /\ p.regions[k].base + FixedSize[k] <= UMax
         /\ p.mode = "fixed" => p.regions[k].base = FixedBase[k]

Automatic == [alignment : Nat \ {0}, size : Nat \ {0}]

ASSUME SourcesAssumption ==
  /\ \A s \in Sources : s.symbols \in Seq(Symbol) /\ s.image \in [{Data, Const} -> Nat]
  /\ \A e \in EntryLocals \cup HelperLocals : e \in Seq(Automatic)

VARIABLES
  run,      \* settings, layout, symbols, images and procedures of this run
  entries,  \* the declared-object map
  vm,       \* struct Vm: memory, ESP, EBP, LOCAL frames, the last delta
  marks,    \* initialized bytes: of the images, and of LOCAL frames
  reports,  \* how many warnings and changes are listed
  phase,    \* running, finished, stopped by a policy, or failed
  touched   \* history: bytes the program has written as it declared them

vars == <<run, entries, vm, marks, reports, phase, touched>>

Memory == INSTANCE VmMemory WITH
  memory <- vm.mem, result <- vm.mem, before <- vm.mem, loaded <- FALSE,
  Policies <- {}, Configs <- {}, Contents <- {}, Loads <- {}

-----------------------------------------------------------------------------
(* Operands and planned accesses *)

TopOfStack(d) == [kind |-> "esp", address |-> 0, disp |-> d]

HasLocals(p) == p.locals # <<>>

\* The active frame of the current procedure, as a set.
FrameHere(x) ==
  IF x.frames # <<>> /\ Last(x.frames).proc = x.proc /\ HasLocals(run.procs[x.proc])
  THEN {Last(x.frames)} ELSE {}

Declared(x, o) == {l \in ToSet(run.procs[x.proc].locals) : l.offset = o.address}

\* The address an operand has, if it can be resolved.
Resolve(x, o) ==
  CASE o.kind = "address" -> {o.address}
    [] o.kind = "esp"     -> {(x.esp + o.disp) % (UMax + 1)}
    [] o.kind = "local"   -> {f.base + o.disp : f \in {f \in FrameHere(x) : Declared(x, o) # {}}}
    [] OTHER              -> {}

Plan(kind, o, n) == [kind |-> kind, operand |-> o, width |-> n]

\* The executor reads and writes an XCHG with memory on the left in this order.  An operand that
\* is not in memory has no address, and so its access counts nowhere.
PlannedAccesses(i) ==
  CASE i.op = "mov"     -> <<Plan("read", i.src, i.width), Plan("write", i.dst, i.width)>>
    [] i.op = "update"  -> <<Plan("read", i.dst, i.width), Plan("read", i.src, i.width),
                             Plan("write", i.dst, i.width)>>
    [] i.op = "compare" -> <<Plan("read", i.dst, i.width), Plan("read", i.src, i.width)>>
    [] i.op = "xchg"    -> <<Plan("read", i.dst, i.width), Plan("write", i.dst, i.width)>>
    [] i.op = "push"    -> <<Plan("read", i.src, Slot), Plan("write", TopOfStack(-Slot), Slot)>>
    [] i.op = "pop"     -> <<Plan("read", TopOfStack(0), Slot),
                             Plan("write", IF i.dst.kind = "esp" THEN [i.dst EXCEPT !.disp = @ + Slot]
                                           ELSE i.dst, Slot)>>
    [] i.op = "call"    -> <<Plan("write", TopOfStack(-Slot), Slot)>>
    [] i.op = "ret"     -> <<Plan("read", TopOfStack(0), Slot)>>
    [] OTHER            -> <<>>

\* A slip: the memory operand of an update is not taken as read.
ReadsWithoutUpdates(i) ==
  IF i.op = "update" THEN {} ELSE {k \in DOMAIN PlannedAccesses(i) : PlannedAccesses(i)[k].kind = "read"}

\* By their places among the planned accesses.
PlannedReads(i) == {k \in DOMAIN PlannedAccesses(i) : PlannedAccesses(i)[k].kind = "read"}

\* A planned access that memory itself would refuse is left to the executor.
PassesLevel1(x, kind, a, n) ==
  \E k \in Memory!Containing(x.mem, a, n) : kind \in x.mem.regions[k].permissions

-----------------------------------------------------------------------------
(* The checks *)

Holder(a) == {k \in Kinds : run.layout.regions[k].base <= a /\ a < run.layout.regions[k].limit}
OnStack(a, n) == Holder(a) = {StackRegion} /\ a + n - 1 < run.layout.regions[StackRegion].limit

\* Only .data and .CONST have a capacity and an image; a range must start in one.
Extent(level, k) ==
  IF k \notin {Data, Const} THEN 0 ELSE IF level = "capacity" THEN FixedSize[k] ELSE run.image[k]

\* A slip: the last byte of a range is not compared.
StartsOutside(level, a, n) ==
  \A k \in Holder(a) : Extent(level, k) = 0 \/ a >= run.layout.regions[k].base + Extent(level, k)

LeavesSection(level, a, n) ==
  Fits(a, n) /\ \A k \in Holder(a) :
    LET r == run.layout.regions[k]
    IN  \/ Extent(level, k) = 0 \/ r.base + Extent(level, k) > UMax
        \/ a + n - 1 >= Min({r.base + Extent(level, k), r.limit})

PolicyFor(level) == IF level = "capacity" THEN run.settings.capacity ELSE run.settings.image

\* Both levels, access by access: which of these checks fail.  Each place holds its access, or none.
Level(n) == IF n % 2 = 1 THEN "capacity" ELSE "image"
SectionFaults(accesses) ==
  {n \in 1 .. 2 * Len(accesses) :
     /\ PolicyFor(Level(n)) # Off
     /\ \E a \in accesses[(n + 1) \div 2] : LeavesSection(Level(n), a.address, a.width)}

\* The first strict fault stops; the warnings in front of it are listed.
SectionVerdict(accesses) ==
  LET faults == SectionFaults(accesses)
      strict == {n \in faults : PolicyFor(Level(n)) = Strict}
  IN  [stops |-> strict # {}, warned |-> Cardinality({n \in faults : \A m \in strict : n < m})]

\* A planned access at its address; none when it cannot be resolved or memory will refuse it.
Foreseen(p) ==
  {[kind |-> p.kind, address |-> a, width |-> p.width] :
     a \in {a \in Resolve(vm, p.operand) : PassesLevel1(vm, p.kind, a, p.width)}}

SectionPreflight(i) ==
  IF Strict \in {run.settings.capacity, run.settings.image}
  THEN SectionVerdict([k \in DOMAIN PlannedAccesses(i) |-> Foreseen(PlannedAccesses(i)[k])])
  ELSE [stops |-> FALSE, warned |-> 0]

SectionCheck(accesses) == SectionVerdict([k \in DOMAIN accesses |-> {accesses[k]}])

EscapesAt(a) == EscapesObjects(Classify(entries, run.layout, a.address, a.width, a.kind = "write"))

\* A LOCAL operand against the local it names, in its frame or, before there is one, by its
\* declaration.
EscapesLocal(o, n) ==
  \E l \in Declared(vm, o) : o.disp < l.offset \/ o.disp + n > l.offset + l.size

\* CALL and RET are exempt, and accesses to the stack.
ObjectPreflightStops(i) ==
  /\ run.settings.objects = Strict /\ i.op \notin {"call", "ret"}
  /\ \E k \in DOMAIN PlannedAccesses(i) : LET p == PlannedAccesses(i)[k] IN
       \/ p.operand.kind = "local" /\ EscapesLocal(p.operand, p.width)
       \/ /\ p.operand.kind # "local"
          /\ \E a \in Foreseen(p) : ~OnStack(a.address, a.width) /\ EscapesAt(a)

Locals(x) ==
  UNION {{[frame |-> f.id, base |-> f.base + l.offset, size |-> l.size] : l \in ToSet(f.locals)} :
           f \in ToSet(x.frames)}

\* The LOCAL around a range: the oldest one, where frames overlap.
LocalAround(x, a, n) ==
  LET around == {l \in Locals(x) : Enclose(l.base, l.size, a, n)}
  IN  {l \in around : \A m \in around : l.frame <= m.frame}

\* After the step an access that starts in a LOCAL is held against that LOCAL.
ObjectFaults(x, i) ==
  IF run.settings.objects = Off \/ i.op \in {"call", "ret"} THEN {}
  ELSE {k \in DOMAIN x.delta :
    LET a == x.delta[k]
        around == LocalAround(x, a.address, 1)
    IN  IF around # {} THEN \E l \in around : ~Enclose(l.base, l.size, a.address, a.width)
        ELSE ~OnStack(a.address, a.width) /\ EscapesAt(a)}

\* What a read takes that no write has initialized: bytes or, before its frame is set up and
\* within its declaration, the whole LOCAL.
Uninitialized(p) ==
  IF p.operand.kind = "local" /\ FrameHere(vm) = {}
  THEN {l \in Declared(vm, p.operand) : Max({p.operand.disp - l.offset, 0}) + p.width <= l.size}
  ELSE IF p.operand.kind = "local"
  THEN {b \in {<<f.id, a + j>> : f \in FrameHere(vm), a \in Resolve(vm, p.operand), j \in 0 .. p.width - 1} :
          b \notin marks.locals}
  ELSE {b \in {<<0, a + j>> : a \in Resolve(vm, p.operand), j \in 0 .. p.width - 1} :
          \E k \in {Data, Const} :
            /\ \E a \in Resolve(vm, p.operand) : Holder(a) = {k}
            /\ b[2] \in run.layout.regions[k].base .. run.layout.regions[k].base + run.image[k] - 1
            /\ b[2] \notin marks.image}

UninitializedReads(i) ==
  IF run.settings.uninit = Off THEN {}
  ELSE {k \in PlannedReads(i) : Uninitialized(PlannedAccesses(i)[k]) # {}}

-----------------------------------------------------------------------------
(* The executor *)

The(s) == CHOOSE a \in s : TRUE

\* F of x, computed once.
Seen(x, F(_)) == The({F(y) : y \in {x}})

Fail(x, status) == [x EXCEPT !.status = status]

\* G after x, unless x failed.
Then(x, G(_)) == Seen(x, LAMBDA y : IF y.status # "ok" THEN y ELSE G(y))

\* Accesses are recorded in the delta while it has room.  "made" (history) keeps them all, with
\* what made them: an operand of some kind, the instruction itself, or the entry frame's set-up.
Recorded(x, kind, a, n, by) ==
  LET access == [kind |-> kind, address |-> a, width |-> n,
                 status |-> Memory!Validate(x.mem, kind, a, n, TRUE)]
  IN  [x EXCEPT !.delta = IF Len(@) < MaxAccesses THEN Append(@, access) ELSE @,
                !.made = Append(@, [access |-> access, by |-> by]),
                !.status = IF Memory!Succeeded(access.status) THEN @ ELSE "memory-error"]

ReadAt(x, a, n, by) == Then(x, LAMBDA y : Recorded(y, "read", a, n, by))

WriteAt(x, a, n, v, by) ==
  Then(x, LAMBDA y : [Recorded(y, "write", a, n, by) EXCEPT !.mem = Memory!Written(@, a, n, v, TRUE)])

\* An access to a memory operand; the frame a LOCAL operand needs may be missing.
AtOperand(x, o, Access(_, _)) ==
  Then(x, LAMBDA y : IF ~InMemory(o) THEN y
                     ELSE IF Resolve(y, o) = {} THEN Fail(y, "local-operand-no-active-frame")
                     ELSE Access(y, The(Resolve(y, o))))

Read(x, o, n) == AtOperand(x, o, LAMBDA y, a : ReadAt(y, a, n, o.kind))

Write(x, o, n, v) == AtOperand(x, o, LAMBDA y, a : WriteAt(y, a, n, v, o.kind))

Below(esp, n) == (esp - n) % (UMax + 1)
Above(esp, n) == (esp + n) % (UMax + 1)

ValueAt(x, a) == Memory!Decode(x.mem.regions[Memory!First(Memory!Containing(x.mem, a, Slot))], a, Slot)

Push(x, v, by) ==
  Then(x, LAMBDA y : Then(WriteAt(y, Below(y.esp, Slot), Slot, v, by),
                          LAMBDA z : [z EXCEPT !.esp = Below(@, Slot)]))

Stack == run.layout.regions[StackRegion]

CanReserve(x, n) == x.esp <= Stack.limit /\ Stack.base <= x.esp - n

Forgetting(mem) == [mem EXCEPT !.changes = <<>>, !.overflowed = FALSE]

\* Zeroes n bytes below the frame base, one by one.
Zeroed(x, n, by) ==
  Then(x, LAMBDA w :
    LET zeroing[k \in 0 .. n] == IF k = 0 THEN w ELSE WriteAt(zeroing[k - 1], Below(w.ebp, k), 1, 0, by)
    IN  zeroing[n])

\* EBP is saved and becomes the frame base, with n bytes below it.
Reserved(x, n, by) == Then(Push(x, x.ebp, by), LAMBDA y : [y EXCEPT !.ebp = y.esp, !.esp = y.esp - n])

SetupFrame(x, proc, by) ==
  LET n == run.procs[proc].size
      frame(y) == [id |-> y.nextFrame, proc |-> proc, base |-> Below(y.esp, Slot), saved |-> y.ebp,
                   locals |-> run.procs[proc].locals]
  IN  Then(x, LAMBDA y :
        IF Len(y.frames) >= FrameCapacity THEN Fail(y, "invalid-frame-state")
        ELSE IF ~CanReserve(y, n + Slot) THEN Fail(y, "stack-overflow")
        ELSE Then(Zeroed(Reserved(y, n, by), n, by),
                  LAMBDA z : [z EXCEPT !.frames = Append(@, frame(y)), !.nextFrame = @ + 1, !.mem = Forgetting(@)]))

ReleaseFrame(x) ==
  LET f == Last(x.frames) IN
  IF FrameHere(x) = {} \/ x.ebp # f.base THEN Fail(x, "invalid-frame-state")
  ELSE Seen(ReadAt(x, f.base, Slot, "implicit"), LAMBDA y :
         IF y.status # "ok" \/ ValueAt(x, f.base) # f.saved THEN Fail(y, "invalid-frame-state")
         ELSE [y EXCEPT !.esp = f.base + Slot, !.ebp = f.saved, !.frames = Front(@), !.mem = Forgetting(@)])

ReleaseHere(x) == IF HasLocals(run.procs[x.proc]) THEN ReleaseFrame(x) ELSE x

\* What a procedure takes below the arguments.
Footprint(proc) == Slot + (IF HasLocals(run.procs[proc]) THEN Slot + run.procs[proc].size ELSE 0)

NoFrameFor(x, proc) == HasLocals(run.procs[proc]) /\ Len(x.frames) >= FrameCapacity

\* The token, then the frame of the procedure entered.
Enter(x, proc) ==
  LET pushed == Push(x, Token, "implicit") IN
  Then(IF HasLocals(run.procs[proc]) THEN SetupFrame(pushed, proc, "implicit") ELSE pushed,
       LAMBDA y : [y EXCEPT !.proc = proc, !.depth = @ + 1])

Call(x) ==
  IF x.depth = 1 THEN Fail(x, "call-depth-exceeded")
  ELSE IF NoFrameFor(x, "helper") THEN Fail(x, "invalid-frame-state")
  ELSE IF HasLocals(run.procs["helper"]) /\ ~CanReserve(x, Footprint("helper")) THEN Fail(x, "stack-overflow")
  ELSE Enter(x, "helper")

\* One captured argument, which is pushed in front of the token.
Invoke(x, i) ==
  IF NoFrameFor(x, "target") THEN Fail(x, "invalid-frame-state")
  ELSE IF x.depth = 1 THEN Fail(x, "call-depth-exceeded")
  ELSE IF ~CanReserve(x, Slot + Footprint("target")) THEN Fail(x, "stack-overflow")
  ELSE Then(Enter(Push(x, i.value, "implicit"), "target"), LAMBDA y : [y EXCEPT !.pending = FALSE])

\* In the root procedure RET ends the run without reading the stack.
Ret(x, i) ==
  LET return(y) ==
        LET esp == y.esp + Slot + i.value IN
        Then(ReadAt(y, y.esp, Slot, "implicit"), LAMBDA z :
          IF ValueAt(z, z.esp) # Token THEN Fail(z, "invalid-return-address")
          ELSE IF ~(Stack.base <= esp /\ esp <= Stack.limit) THEN Fail(z, "ret-stack-cleanup-out-of-range")
          ELSE [z EXCEPT !.esp = esp, !.proc = "entry", !.depth = 0])
  IN  Then(ReleaseHere(x), LAMBDA y : IF y.depth = 0 THEN [y EXCEPT !.halted = TRUE] ELSE return(y))

\* ESP is back where it was when the destination cannot be written.
Pop(x, i) ==
  Then(ReadAt(x, x.esp, Slot, "implicit"), LAMBDA y :
    Seen(Write([y EXCEPT !.esp = Above(@, Slot)], i.dst, Slot, ValueAt(y, x.esp)), LAMBDA z :
      IF z.status = "ok" THEN z ELSE [z EXCEPT !.esp = x.esp]))

Execute(x, i) ==
  CASE i.op = "mov"     -> Write(Read(x, i.src, i.width), i.dst, i.width, i.value)
    [] i.op = "update"  -> Write(Read(Read(x, i.dst, i.width), i.src, i.width), i.dst, i.width, i.value)
    [] i.op = "compare" -> Read(Read(x, i.dst, i.width), i.src, i.width)
    [] i.op = "xchg"    -> Write(Read(x, i.dst, i.width), i.dst, i.width, i.value)
    [] i.op = "push"    -> Push(Read(x, i.src, Slot), i.value, "implicit")
    [] i.op = "pop"     -> Pop(x, i)
    [] i.op = "adjust"  -> [x EXCEPT !.esp = Above(@, i.value)]
    [] i.op = "capture" -> Then(Read(x, i.src, Slot), LAMBDA y : [y EXCEPT !.pending = TRUE])
    [] i.op = "call"    -> Call(x)
    [] i.op = "invoke"  -> Invoke(x, i)
    [] i.op = "ret"     -> Ret(x, i)

EntersEntryFrame(x) == HasLocals(run.procs["entry"]) /\ x.proc = "entry" /\ ~x.entered

\* vm_step: the frame of the entry procedure is set up inside the first one.
Stepped(i) ==
  LET x == [vm EXCEPT !.op = i.op, !.delta = <<>>, !.made = <<>>, !.mem = Forgetting(@)]
      y == IF EntersEntryFrame(x)
           THEN SetupFrame([x EXCEPT !.entered = TRUE], "entry", "frame") ELSE x
  IN  Then(Then(y, LAMBDA z : Execute(z, i)), LAMBDA z : [z EXCEPT !.count = @ + 1])

-----------------------------------------------------------------------------
(* What a turn remembers and reports *)

OwnsImage(a) == a \in run.layout.regions[Data].base .. run.layout.regions[Data].base + run.image[Data] - 1

Wrote(access) == access.kind = "write" /\ Memory!Succeeded(access.status)
Bytes(access) == access.address .. access.address + access.width - 1

\* A write that leaves the image initializes none of it.
ImageWrites(accesses) ==
  UNION {Bytes(a) : a \in {a \in ToSet(accesses) : Wrote(a) /\ \A b \in Bytes(a) : OwnsImage(b)}}

\* The bytes of a LOCAL an instruction names as its destination; of other writes into a frame
\* nothing is remembered.
LocalWrites(x, i) ==
  UNION {UNION {{<<l.frame, b>> : l \in LocalAround(x, a, p.width), b \in a .. a + p.width - 1} :
                  a \in Resolve(x, p.operand)} :
           p \in {p \in ToSet(PlannedAccesses(i)) : p.kind = "write" /\ p.operand.kind = "local"}}

\* As many as there is room for, lowest addresses first.
Room(s, n) == {b \in s : Cardinality({c \in s : c[2] < b[2]}) < n}

Marked(x, i) ==
  LET new == LocalWrites(x, i) \ marks.locals
      kept == Room(new, MaxMarks - Cardinality(marks.locals))
  IN  [image |-> marks.image \cup ImageWrites(x.delta),
       locals |-> marks.locals \cup kept,
       overflowed |-> marks.overflowed \/ kept # new]

FirstWrite(x) ==
  LET ws == {k \in DOMAIN x.delta : Wrote(x.delta[k])} IN IF ws = {} THEN {} ELSE {x.delta[Min(ws)].address}

ByteOf(mem, a) == LET k == Memory!First(Memory!Containing(mem, a, 1)) IN mem.regions[k].bytes[a - mem.regions[k].base]

\* A slip: what is there now is taken for what was there.
StillThere(x, b) == ByteOf(x.mem, b)

Old(x, b) ==
  LET at == {k \in DOMAIN x.mem.changes : x.mem.changes[k].address = b}
  IN  IF at = {} THEN ByteOf(x.mem, b) ELSE x.mem.changes[Max(at)].old

RowAt(x, a, n) ==
  IF \E c \in ToSet(x.mem.changes) : c.address \in a .. a + n - 1
  THEN <<[address |-> a, old |-> [j \in 1 .. n |-> Old(x, a + j - 1)],
          new |-> [j \in 1 .. n |-> ByteOf(x.mem, a + j - 1)]]>>
  ELSE <<>>

\* The slot PUSH writes, or a declared variable one of the operands may have written.
PushRow(x, i) ==
  IF i.op = "push" /\ FirstWrite(x) # {} /\ OnStack(The(FirstWrite(x)), Slot)
  THEN RowAt(x, The(FirstWrite(x)), Slot) ELSE <<>>

OperandRow(x, o, n) ==
  LET a == The(FirstWrite(x)) IN
  IF o.kind \in {"address", "esp"} /\ FirstWrite(x) # {} /\ FoundByRange(entries, a, n) # 0
  THEN RowAt(x, a, n) ELSE <<>>

Row(x, i) ==
  IF x.mem.changes = <<>> THEN <<>>
  ELSE IF PushRow(x, i) # <<>> THEN PushRow(x, i)
  ELSE IF OperandRow(x, i.dst, i.width) # <<>> THEN OperandRow(x, i.dst, i.width)
  ELSE OperandRow(x, i.src, i.width)

Listing(r, list, n) == [r EXCEPT ![list] = Min({@ + n, MaxReports})]

Unaligned(x) == {k \in DOMAIN x.delta : x.delta[k].status = "ok-unaligned"}

-----------------------------------------------------------------------------
(* The turns of the loop *)

\* Only programs every operand of which relocates are loaded.
MayHold(i) ==
  /\ (i.op = "invoke") = vm.pending
  /\ \A o \in {i.dst, i.src} :
       /\ o.kind = "local" => Declared(vm, o) # {}
       /\ (o.kind = "address" /\ o.disp # 0) => Relocates(o.address, o.disp, run.layout)

AtRunTime(o) ==
  IF o.kind = "address" /\ o.disp # 0 THEN [o EXCEPT !.address = Relocated(@, o.disp, run.layout), !.disp = 0]
  ELSE o

Fetched(i) == [i EXCEPT !.dst = AtRunTime(@), !.src = AtRunTime(@)]

StopAtLimit ==
  /\ phase = "running" /\ vm.count >= Limit
  /\ phase' = "limit" /\ UNCHANGED <<run, entries, vm, marks, reports, touched>>

SectionsChecked(i) == Listing(reports, "section", SectionPreflight(i).warned)

StopBeforeSection(i) ==
  /\ SectionPreflight(i).stops
  /\ phase' = "stopped" /\ reports' = SectionsChecked(i)
  /\ UNCHANGED <<run, entries, vm, marks, touched>>

StopBeforeObject(i) ==
  /\ ~SectionPreflight(i).stops /\ ObjectPreflightStops(i)
  /\ phase' = "stopped" /\ reports' = SectionsChecked(i)
  /\ UNCHANGED <<run, entries, vm, marks, touched>>

StopBeforeUninitialized(i) ==
  /\ ~SectionPreflight(i).stops /\ ~ObjectPreflightStops(i)
  /\ run.settings.uninit = Strict /\ UninitializedReads(i) # {}
  /\ phase' = "stopped" /\ reports' = SectionsChecked(i)
  /\ UNCHANGED <<run, entries, vm, marks, touched>>

Passes(i) ==
  /\ ~SectionPreflight(i).stops /\ ~ObjectPreflightStops(i)
  /\ run.settings.uninit = Strict => UninitializedReads(i) = {}

Preflighted(i) == Listing(SectionsChecked(i), "uninit", Cardinality(UninitializedReads(i)))

Refuse(i, x) ==
  /\ x.status # "ok"
  /\ vm' = x /\ phase' = "failed" /\ reports' = Preflighted(i)
  /\ UNCHANGED <<run, entries, marks, touched>>

SectionsAgain(i, x) ==
  Listing(Listing(Preflighted(i), "unaligned", Cardinality(Unaligned(x))), "section", SectionCheck(x.delta).warned)

StopAfterSection(i, x) ==
  /\ x.status = "ok" /\ SectionCheck(x.delta).stops
  /\ vm' = x /\ phase' = "stopped" /\ reports' = SectionsAgain(i, x)
  /\ UNCHANGED <<run, entries, marks, touched>>

StopAfterObject(i, x) ==
  /\ x.status = "ok" /\ ~SectionCheck(x.delta).stops
  /\ run.settings.objects = Strict /\ ObjectFaults(x, i) # {}
  /\ vm' = x /\ phase' = "stopped" /\ reports' = SectionsAgain(i, x)
  /\ UNCHANGED <<run, entries, marks, touched>>

\* What the program wrote under the names it declared: variables, and LOCALs it names.  Of the
\* step that sets up the entry procedure's frame only what the delta holds counts here.
WroteByName(x) ==
  LET made  == IF EntersEntryFrame(vm) THEN x.delta ELSE [k \in DOMAIN x.made |-> x.made[k].access]
      named == {m.access : m \in {m \in ToSet(x.made) : m.by = "local" /\ Wrote(m.access)}}
  IN  {<<0, b>> : b \in ImageWrites(made)}
        \cup UNION {{<<l.frame, b>> : l \in {l \in Locals(x) : Bytes(a) \subseteq l.base .. l.base + l.size - 1},
                                     b \in Bytes(a)} : a \in named}

Commit(i, x) ==
  /\ x.status = "ok" /\ ~SectionCheck(x.delta).stops
  /\ run.settings.objects = Strict => ObjectFaults(x, i) = {}
  /\ vm' = x /\ marks' = Marked(x, i)
  /\ reports' = [Listing(Listing(SectionsAgain(i, x), "object", Cardinality(ObjectFaults(x, i))),
                         "changes", Len(Row(x, i)))
                   EXCEPT !.row = IF reports.changes < MaxReports THEN Row(x, i) ELSE <<>>]
  /\ touched' = touched \cup WroteByName(x)
  /\ phase' = IF x.halted THEN "finished" ELSE "running"
  /\ UNCHANGED <<run, entries>>

Step(i) ==
  /\ Passes(i)
  /\ \E x \in {Stepped(i)} :
       Refuse(i, x) \/ StopAfterSection(i, x) \/ StopAfterObject(i, x) \/ Commit(i, x)

Turn(i) ==
  /\ phase = "running" /\ vm.count < Limit
  /\ StopBeforeSection(i) \/ StopBeforeObject(i) \/ StopBeforeUninitialized(i) \/ Step(i)

TakeTurn ==
  \E i \in Instructions : MayHold(i) /\ \E j \in {Fetched(i)} : Turn(j)

-----------------------------------------------------------------------------
(* Loading *)

Moved(symbols, p) ==
  [k \in DOMAIN symbols |->
     [symbols[k] EXCEPT !.address = IF p.mode = "fixed" THEN @ ELSE Relocated(@, symbols[k].region, p)]]

SymbolsMove(symbols, p) ==
  p.mode = "fixed" \/ \A k \in DOMAIN symbols : Relocates(symbols[k].address, symbols[k].region, p)

Loads(source, p) == SymbolsMove(source.symbols, p) /\ MapStatus(Moved(source.symbols, p), p) = "ok"

\* The layout has room for the images: it was built for this program.
Suits(p, source) == \A k \in {Data, Const} : source.image[k] <= SizeIn(p, k)

Loaded(p) ==
  [mem |-> Memory!Allocated(p), esp |-> p.regions[StackRegion].limit, ebp |-> 0,
   frames |-> <<>>, nextFrame |-> 1, entered |-> FALSE, proc |-> "entry", depth |-> 0,
   count |-> 0, pending |-> FALSE, halted |-> FALSE, op |-> "none", delta |-> <<>>, made |-> <<>>, status |-> "ok"]

AlignedTo(n, a) == ((n + a - 1) \div a) * a

\* Where each LOCAL ends, counted down from the frame base.
Ends(locals) ==
  LET end[k \in 0 .. Len(locals)] ==
        IF k = 0 THEN 0 ELSE AlignedTo(end[k - 1], locals[k].alignment) + locals[k].size
  IN  end

Procedure(locals) ==
  [locals |-> [k \in DOMAIN locals |-> [offset |-> -Ends(locals)[k], size |-> locals[k].size]],
   size |-> AlignedTo(Ends(locals)[Len(locals)], Slot)]

Init ==
  \E s \in Settings, p \in Layouts, source \in Sources, e \in EntryLocals, h \in HelperLocals :
    /\ Suits(p, source)
    /\ run = [settings |-> s, layout |-> p, symbols |-> source.symbols, image |-> source.image,
              procs |-> [q \in {"entry", "helper", "target"} |-> Procedure(IF q = "entry" THEN e ELSE h)]]
    /\ entries = IF Loads(source, p) THEN Entries(Moved(source.symbols, p), p) ELSE <<>>
    /\ vm = Loaded(p)
    /\ marks = [image |-> {Relocated(d[1], d[2], p) : d \in source.initialized}, locals |-> {}, overflowed |-> FALSE]
    /\ reports = [unaligned |-> 0, section |-> 0, object |-> 0, uninit |-> 0, changes |-> 0, row |-> <<>>]
    /\ phase = IF Loads(source, p) THEN "running" ELSE "failed"
    /\ touched = {<<0, Relocated(d[1], d[2], p)>> : d \in source.initialized}

Next == StopAtLimit \/ TakeTurn

Spec == Init /\ [][Next]_vars

-----------------------------------------------------------------------------
(* Properties *)

Committed == phase = "running" /\ vm' # vm /\ phase' \in {"running", "finished"}

Variables == ToSet(Moved(run.symbols, run.layout))
In(s, base, size) == s \subseteq base .. base + size - 1
InOneVariable(s) == \E v \in Variables : In(s, v.address, v.size)

\* The accesses of the last instruction, the set-up of the entry frame left out.
Own(x) == {m.access : m \in {m \in ToSet(x.made) : m.by # "frame"}}

\* The LOCALs an access begins in, and whether it leaves what it begins in: all of them or, where
\* frames overlap, some.
Begun(x, access) == {l \in Locals(x) : In({access.address}, l.base, l.size)}
Leaves(l, access) == ~In(Bytes(access), l.base, l.size)
Astray(access) == ~InOneVariable(Bytes(access)) /\ ~OnStack(access.address, access.width)
EscapesAll(x, a) == IF Begun(x, a) = {} THEN Astray(a) ELSE \A l \in Begun(x, a) : Leaves(l, a)
EscapesSome(x, a) == IF Begun(x, a) = {} THEN Astray(a) ELSE \E l \in Begun(x, a) : Leaves(l, a)

\* No two LOCALs share a byte: ESP was not moved up into a live frame before a call.
Apart(x) ==
  \A l, m \in Locals(x) : l # m => l.base + l.size <= m.base \/ m.base + m.size <= l.base

Beyond(level, access) ==
  \A k \in {Data, Const} :
    ~In(Bytes(access), run.layout.regions[k].base, Min({Extent(level, k), SizeIn(run.layout, k)}))

Stricts == {c \in {"capacity", "image"} : run.settings[c] = Strict}
Planned(op) == op \notin {"capture", "invoke"}

StaysInside ==
  /\ (Committed /\ run.settings.objects = Strict /\ vm'.op \notin {"call", "ret"}) =>
       (EntersEntryFrame(vm) \/ \A a \in Own(vm') : ~EscapesAll(vm', a))
  /\ (Committed /\ ~EntersEntryFrame(vm)) =>
       \A a \in Own(vm'), level \in Stricts : ~Beyond(level, a)
  /\ (phase = "running" /\ phase' = "stopped" /\ vm' # vm /\ Planned(vm'.op)) =>
       \/ EntersEntryFrame(vm)
       \/ \E m \in ToSet(vm'.made) :
            /\ run.settings.objects = Strict /\ (m.by = "local" => ~Apart(vm'))
            /\ \E l \in Begun(vm', m.access) : Leaves(l, m.access)

\* Under strict policies no instruction that was let through accessed anything outside the
\* declared variables, the sections, and the LOCALs it began in; and what a policy stops has
\* changed nothing, since it is stopped before it runs (INVOKE is not: its accesses are not planned).
\* Only an access that runs out of a LOCAL it did not name is noticed too late
\* (docs/FULL_IMPLEMENTATION_SPEC.md:3073 promises the stop before the mutation).
StrictRunStaysInside == [][StaysInside]_vars

Told(list) == reports'[list] > reports[list]

TellsEscapes ==
  (Committed /\ ~EntersEntryFrame(vm)) =>
    /\ (run.settings.objects = Warn /\ vm'.op \notin {"call", "ret"} /\ reports.object < MaxReports) =>
         /\ (\E a \in Own(vm') : EscapesAll(vm', a)) => Told("object")
         /\ Told("object") => \E a \in Own(vm') : EscapesSome(vm', a)
    /\ (Stricts = {} /\ reports.section < MaxReports) =>
         (Told("section") <=> \E a \in Own(vm'), level \in {"capacity", "image"} :
                                 PolicyFor(level) = Warn /\ Beyond(level, a))

\* A policy that warns lists a warning when, and only when, the instruction made an access it
\* is about, until its list is full.
EscapesAreTold == [][TellsEscapes]_vars

\* The bytes a read took that the program had not written under their names.
Missed(m) ==
  IF m.by = "local" THEN {b \in Bytes(m.access) : <<Last(vm'.frames).id, b>> \notin touched}
  ELSE {b \in Bytes(m.access) :
          <<0, b>> \notin touched /\ \E k \in {Data, Const} :
            In({m.access.address, b}, run.layout.regions[k].base, SizeIn(run.layout, k))
              /\ In({b}, run.layout.regions[k].base, run.image[k])}

\* A step that sets up or releases a frame reads where ESP is then, and RET of the root not at all.
MovesStack == EntersEntryFrame(vm) \/ (vm'.op = "ret" /\ (vm.depth = 0 \/ HasLocals(run.procs[vm.proc])))

OutsideSections(a) == Holder(a) \cap {Data, Const} = {}

\* Whichever instruction it was: what it reads by ESP is outside .data and .CONST, by the ESP before
\* the step and where it was read, and a LOCAL of the frame just set up is read inside that LOCAL.
ReadsOnStack ==
  \A i \in {i \in Instructions : i.op = vm'.op} : vm' = Stepped(Fetched(i)) =>
    \A k \in PlannedReads(Fetched(i)) : LET p == PlannedAccesses(Fetched(i))[k] IN
      /\ p.operand.kind = "esp" =>
           /\ \A a \in Resolve(vm, p.operand) : OutsideSections(a)
           /\ \A m \in ToSet(vm'.made) : m.access.kind = "read" => OutsideSections(m.access.address)
      /\ (p.operand.kind = "local" /\ EntersEntryFrame(vm)) => ~EscapesLocal(p.operand, p.width)

TellsReads ==
  (Committed /\ run.settings.uninit = Warn /\ reports.uninit < MaxReports /\ ~marks.overflowed
     /\ vm'.op # "capture" /\ Apart(vm') /\ (MovesStack => ReadsOnStack)) =>
    (Told("uninit") <=> \E m \in ToSet(vm'.made) : m.access.kind = "read" /\ Missed(m) # {})

\* A read of bytes the program declared without a value and has not written since is told, and
\* no other read is; while every LOCAL byte written could be marked and LOCALs do not overlap.
UninitializedReadsAreTold == [][TellsReads]_vars

Differs(b) == ByteOf(vm.mem, b) # ByteOf(vm'.mem, b)
Reads(mem, a, n) == [j \in 1 .. n |-> ByteOf(mem, a + j - 1)]

\* What a change row must be about: an operand's write inside one variable, or PUSH's slot.
Noticed(m) ==
  /\ Wrote(m.access) /\ \E b \in Bytes(m.access) : Differs(b)
  /\ \/ m.by \in {"address", "esp"} /\ InOneVariable(Bytes(m.access))
     \/ vm'.op = "push" /\ m.by = "implicit" /\ OnStack(m.access.address, m.access.width)

PushStaysOnStack == vm'.op = "push" => OnStack(vm'.esp, Slot)

RowOf(a) ==
  [address |-> a.address, old |-> Reads(vm.mem, a.address, a.width), new |-> Reads(vm'.mem, a.address, a.width)]

ReportsChanges ==
  (Committed /\ ~EntersEntryFrame(vm) /\ PushStaysOnStack /\ reports.changes < MaxReports) =>
    /\ reports'.row # <<>> <=> \E m \in ToSet(vm'.made) : Noticed(m)
    /\ \A row \in ToSet(reports'.row) : \E m \in ToSet(vm'.made) : Noticed(m) /\ row = RowOf(m.access)

\* Every change an operand makes to a declared variable, and every stack slot PUSH changes, gets
\* a row while there is room; the row gives the bytes before and after, and there is no other.
ChangesAreReported == [][ReportsChanges]_vars

\* docs/FULL_IMPLEMENTATION_SPEC.md:1191 and 5349: a variable the first instruction of the
\* program overwrites counts as initialized, and its change is listed.
FirstWriteCounts ==
  [][(Committed /\ EntersEntryFrame(vm)) =>
       \A m \in ToSet(vm'.made) : (Noticed(m) /\ m.by = "address") =>
          reports'.row # <<>> /\ {b \in Bytes(m.access) : OwnsImage(b)} \subseteq marks'.image]_vars

=============================================================================
