------------------------------- MODULE VmExec -------------------------------
(***************************************************************************)
(* The procedure machine of the simulator: vm_step (src/core/vm_exec.c)    *)
(* driven by the source-run loop (src/wasm/wasm_api.c).  One action is one *)
(* instruction: the prologue of vm_step, the opcode handler and the        *)
(* epilogue that moves the instruction pointer and applies the procedure   *)
(* policies.                                                               *)
(*                                                                         *)
(* Abstractions.  Addresses count DWORDs, so every access is aligned and   *)
(* LOCAL and RET sizes are in DWORDs.  The stack region and one set of     *)
(* writable data words are mapped; any other address is a memory error.    *)
(* Arithmetic does not wrap: an address below zero stands for the unmapped *)
(* top of the address space.  A conditional jump is taken or not           *)
(* nondeterministically.  Every LOCAL is one DWORD with one descriptor.    *)
(* The limits are small constants in place of 4096 frames, 4096            *)
(* descriptors, 16 arguments and 1000000 instructions.                     *)
(***************************************************************************)
EXTENDS Integers, SequencesExt

CONSTANTS General,            \* registers PROC USES may name
          StackBase,          \* lowest word of the stack region
          StackLimit,         \* first word above the stack region
          DataWords,          \* mapped words outside the stack
          TokenBase,          \* pseudo-EIP of instruction 0
          FrameCapacity,      \* slots for USES frames, and for LOCAL frames
          DescriptorCapacity, \* slots for LOCAL descriptors
          ArgumentCapacity,   \* slots for captured INVOKE arguments
          InstructionLimit,   \* instructions one run may execute
          Images,             \* lowered programs a run may load
          Settings,           \* execution settings a run may use
          StartRegisters      \* register files after startup

Registers == General \cup {"esp", "ebp"}
Stack     == StackBase .. StackLimit - 1
Mapped    == Stack \cup DataWords

OperandKinds == {"none", "imm", "reg", "abs", "ind", "local", "addr"}
Opcodes == {"nop", "mov", "add", "push", "pop", "leave", "call", "capture",
            "commit", "ret", "jmp", "jcc", "exit"}

Operand == [kind : OperandKinds, reg : Registers, disp : Int]
Instruction == [op : Opcodes, dst : Operand, src : Operand, args : Nat]

Procedure == [start : Nat, end : Nat, entry : BOOLEAN, uses : Seq(General), locals : Nat]

(***************************************************************************)
(* What the parser hands to the executor: procedure ranges in declaration  *)
(* order, disjoint, possibly empty, with one selected entry.               *)
(***************************************************************************)
Image ==
  {i \in [code : Seq(Instruction), procs : Seq(Procedure)] :
     /\ \A k \in DOMAIN i.procs :
          i.procs[k].start <= i.procs[k].end /\ i.procs[k].end <= Len(i.code)
     /\ \A j, k \in DOMAIN i.procs : j < k => i.procs[j].end <= i.procs[k].start
     /\ \E k \in DOMAIN i.procs : \A j \in DOMAIN i.procs : i.procs[j].entry <=> j = k}

Setting == [rootRet : {"compatible", "strict"}, fallthrough : {"off", "warn", "error"},
            entryEnd : {"code-stream", "stop"}, depthLimit : 1 .. FrameCapacity]

ASSUME ConstantsAssumption ==
  /\ General \cap {"esp", "ebp"} = {}
  /\ StackBase \in Nat /\ StackLimit \in Nat /\ StackBase < StackLimit
  /\ DataWords \subseteq Int /\ DataWords \cap Stack = {}
  /\ TokenBase \in Int
  /\ FrameCapacity \in Nat \ {0} /\ DescriptorCapacity \in Nat
  /\ ArgumentCapacity \in Nat /\ InstructionLimit \in Nat

ASSUME InputsAssumption ==
  /\ \A i \in Images : i \in Image
  /\ \A s \in Settings : s \in Setting
  /\ \A r \in StartRegisters : r \in [Registers -> Int] /\ r["esp"] = StackLimit

VARIABLES
  image,       \* the loaded program and its procedure boundaries
  settings,    \* root RET mode, fallthrough policy, entry end mode, depth limit
  m,           \* registers, memory, and the USES and LOCAL frame stacks
  ip,          \* instruction_pointer
  count,       \* instruction_count
  halted,
  helpers,     \* active_helper_return_count
  depth,       \* current_call_depth
  rootStream,  \* root_code_stream_active
  eligible,    \* selected_entry_end_stop_eligible
  entryFrame,  \* selected_entry_local_frame_created
  pending,     \* captured INVOKE arguments, by slot
  fell,        \* last_procedure_fallthrough_diagnostic is set
  status       \* result of the last step, or of the run loop's own checks

run  == <<image, settings>>
vars == <<image, settings, m, ip, count, halted, helpers, depth, rootStream,
          eligible, entryFrame, pending, fell, status>>

-----------------------------------------------------------------------------
(* Procedure boundaries *)

Count    == Len(image.code)
Instr    == image.code[ip + 1]
ProcSet  == {image.procs[k] : k \in DOMAIN image.procs}
EntryProc == CHOOSE p \in ProcSet : p.entry

Inside(p, i) == p.start <= i /\ i < p.end
Owner(i)   == {p \in ProcSet : Inside(p, i)}
InEntry(i) == Inside(EntryProc, i)

\* The first declared boundary that starts at i, empty procedures included.
StartingAt(i) ==
  LET ks == {k \in DOMAIN image.procs : image.procs[k].start = i}
  IN  {image.procs[k] : k \in {k \in ks : \A j \in ks : k <= j}}

\* The boundary a CALL to index i enters; without one there is nothing to save.
Callee(i) ==
  IF StartingAt(i) = {}
  THEN [start |-> i, end |-> i, entry |-> FALSE, uses |-> <<>>, locals |-> 0]
  ELSE CHOOSE p \in StartingAt(i) : TRUE

-----------------------------------------------------------------------------
(* Operands and the checked stack *)

Ok(x)     == [status |-> "ok", m |-> x]
Err(s, x) == [status |-> s, m |-> x]

TopLocalOf(x, p) == x.locals # <<>> /\ Last(x.locals).start = p.start
TopUsesOf(x, p)  == x.uses # <<>> /\ Last(x.uses).start = p.start

\* The current procedure owns an ACTIVE frame on top of the frame stack.
ActiveFrame(x) == x.locals # <<>> /\ Last(x.locals).active
                    /\ \E p \in Owner(ip) : TopLocalOf(x, p)

InMemory(o) == o.kind \in {"abs", "ind", "local"}

Address(o, x) ==
  CASE o.kind = "abs" -> o.disp
    [] o.kind = "ind" -> x.reg[o.reg] + o.disp
    [] OTHER          -> Last(x.locals).base + o.disp

ReadFault(o, x) ==
  IF o.kind \in {"none", "addr"} THEN "unsupported-operand"
  ELSE IF o.kind = "local" /\ ~ActiveFrame(x) THEN "local-operand-no-active-frame"
  ELSE IF InMemory(o) /\ Address(o, x) \notin Mapped THEN "memory-error" ELSE "ok"

WriteFault(o, x) == IF o.kind = "imm" THEN "unsupported-operand" ELSE ReadFault(o, x)

\* An INVOKE argument may also be the address of a LOCAL.
ArgumentFault(o, x) ==
  IF o.kind # "addr" THEN ReadFault(o, x)
  ELSE IF ActiveFrame(x) THEN "ok" ELSE "local-operand-no-active-frame"

Value(o, x) ==
  CASE o.kind = "imm"  -> o.disp
    [] o.kind = "reg"  -> x.reg[o.reg]
    [] o.kind = "addr" -> Address(o, x)
    [] OTHER           -> x.mem[Address(o, x)]

Store(o, x, v) ==
  IF o.kind = "reg" THEN [x EXCEPT !.reg[o.reg] = v]
                    ELSE [x EXCEPT !.mem[Address(o, x)] = v]

\* A slip: the word below the stack counts as stack.
CanReserveOneTooMany(esp, n) == esp <= StackLimit /\ StackBase <= esp - n + 1

\* n words below esp are writable stack.
CanReserve(esp, n) == esp <= StackLimit /\ StackBase <= esp - n

\* s[1] goes to the word below ESP, s[2] to the next one down, and so on.
PushWords(x, s) ==
  LET esp == x.reg["esp"]
  IN  [x EXCEPT !.reg["esp"] = esp - Len(s),
                !.mem = [a \in DOMAIN x.mem |->
                           IF esp - a \in 1 .. Len(s) THEN s[esp - a] ELSE x.mem[a]]]

-----------------------------------------------------------------------------
(* Automatic LOCAL frames *)

\* A slip: the frame array is checked against its last index.
RoomForOneMoreFrame(x, p) ==
  Len(x.locals) <= FrameCapacity /\ p.locals <= DescriptorCapacity - x.descriptors

RoomForFrame(x, p) ==
  Len(x.locals) < FrameCapacity /\ p.locals <= DescriptorCapacity - x.descriptors

\* Saves EBP, points EBP at the saved slot and zeroes the locals below it.
SetupLocalFrame(x, p) ==
  LET base == x.reg["esp"] - 1
      y == PushWords(x, <<x.reg["ebp"]>> \o [k \in 1 .. p.locals |-> 0])
  IN  IF ~RoomForFrame(x, p) THEN Err("invalid-frame-state", x)
      ELSE IF ~CanReserve(x.reg["esp"], p.locals + 1) THEN Err("stack-overflow", x)
      ELSE Ok([y EXCEPT !.reg["ebp"] = base,
                        !.locals = Append(@, [start |-> p.start, base |-> base, size |-> p.locals,
                                              saved |-> x.reg["ebp"], active |-> TRUE]),
                        !.descriptors = @ + p.locals])

\* A slip: the descriptors of a dropped frame are never given back.
DropFrameKeepingDescriptors(x) == [x EXCEPT !.locals = Front(@)]

DropLocalFrame(x) ==
  [x EXCEPT !.locals = Front(@), !.descriptors = @ - Last(x.locals).size]

\* LEAVE keeps the released frame until RET or EXIT drops it.
ReleaseLocalFrame(x, p, drop) ==
  LET f == Last(x.locals)
      y == [x EXCEPT !.reg["esp"] = f.base + 1, !.reg["ebp"] = f.saved,
                     !.locals = Append(Front(@), [f EXCEPT !.active = FALSE])]
      Dropped(z) == IF drop THEN DropLocalFrame(z) ELSE z
  IN  IF ~TopLocalOf(x, p) THEN Err("invalid-frame-state", x)
      ELSE IF ~f.active THEN Ok(Dropped(x))
      ELSE IF x.reg["ebp"] # f.base \/ x.mem[f.base] # f.saved
           THEN Err("invalid-frame-state", x)
      ELSE Ok(Dropped(y))

LocalsHere == {p \in Owner(ip) : p.locals > 0}

\* A slip: RET releases its frame the way LEAVE does and keeps it.
ReleaseHereKeepingFrame(x) ==
  IF LocalsHere = {} THEN Ok(x)
  ELSE ReleaseLocalFrame(x, CHOOSE p \in LocalsHere : TRUE, FALSE)

\* What RET and EXIT do before anything else.
ReleaseHere(x) ==
  IF LocalsHere = {} THEN Ok(x)
  ELSE ReleaseLocalFrame(x, CHOOSE p \in LocalsHere : TRUE, TRUE)

-----------------------------------------------------------------------------
(* Before an instruction runs *)

StartsUsesWithoutFrame == \E p \in StartingAt(ip) : p.uses # <<>> /\ ~TopUsesOf(m, p)

FrameReady(p) == TopLocalOf(m, p) /\ (Last(m.locals).active \/ Instr.op = "ret")

FirstEntry(p) == p.entry /\ ip = p.start /\ ~entryFrame /\ helpers = 0

\* The entry procedure's own frame is made on the first fetch of its first instruction.
CreatesEntryFrame ==
  /\ ~StartsUsesWithoutFrame
  /\ \E p \in LocalsHere : ~FrameReady(p) /\ FirstEntry(p)
                             /\ CanReserve(m.reg["esp"], p.locals + 1)

Entered ==
  IF StartsUsesWithoutFrame THEN Err("unsupported-proc-uses-runtime", m)
  ELSE IF \A p \in LocalsHere : FrameReady(p) THEN Ok(m)
  ELSE LET p == CHOOSE p \in LocalsHere : TRUE
       IN  IF ~FirstEntry(p) THEN Err("local-frame-entry-unsupported", m)
           ELSE IF ~CanReserve(m.reg["esp"], p.locals + 1) THEN Err("stack-overflow", m)
           ELSE SetupLocalFrame(m, p)

\* A slip: a helper call back into the entry procedure counts as the root code stream.
RootStreamWheneverInEntry == rootStream \/ InEntry(ip)

RootStream == rootStream \/ (helpers = 0 /\ InEntry(ip))

IsRootRet == helpers = 0 /\ (InEntry(ip) \/ RootStream)

ShouldStopAtEntryEnd(i, mayStop, h) ==
  settings.entryEnd = "stop" /\ mayStop /\ h = 0 /\ i = EntryProc.end

-----------------------------------------------------------------------------
(* The opcode handlers: the status and the machine each one leaves behind. *)

PushOutcome(x) ==
  LET o == Instr.src
  IN  IF ReadFault(o, x) # "ok" THEN Err(ReadFault(o, x), x)
      ELSE IF x.reg["esp"] - 1 \notin Mapped THEN Err("memory-error", x)
      ELSE Ok(PushWords(x, <<Value(o, x)>>))

\* A slip: ESP moves before the destination is checked.
PopMovingEspFirst(x) ==
  LET o == Instr.dst
      y == [x EXCEPT !.reg["esp"] = @ + 1]
  IN  IF o.kind \in {"none", "imm", "addr"} THEN Err("unsupported-operand", x)
      ELSE IF x.reg["esp"] \notin Mapped THEN Err("memory-error", x)
      ELSE IF o.kind = "local" THEN Err("unsupported-operand", y)
      ELSE IF WriteFault(o, y) # "ok" THEN Err(WriteFault(o, y), y)
      ELSE Ok(Store(o, y, x.mem[x.reg["esp"]]))

\* A memory destination based on ESP uses the popped ESP; a LOCAL has no base register.
PopOutcome(x) ==
  LET o == Instr.dst
      y == [x EXCEPT !.reg["esp"] = @ + 1]
  IN  IF o.kind \in {"none", "imm", "addr"} THEN Err("unsupported-operand", x)
      ELSE IF x.reg["esp"] \notin Mapped THEN Err("memory-error", x)
      ELSE IF o.kind = "local" THEN Err("unsupported-operand", x)
      ELSE IF WriteFault(o, y) # "ok" THEN Err(WriteFault(o, y), x)
      ELSE Ok(Store(o, y, x.mem[x.reg["esp"]]))

MovOutcome(x) ==
  LET src == Instr.src
      dst == Instr.dst
  IN  IF ReadFault(src, x) # "ok" THEN Err(ReadFault(src, x), x)
      ELSE IF WriteFault(dst, x) # "ok" THEN Err(WriteFault(dst, x), x)
      ELSE Ok(Store(dst, x, Value(src, x)))

\* ADD reads its destination first.
AddOutcome(x) ==
  LET src == Instr.src
      dst == Instr.dst
  IN  IF ReadFault(dst, x) # "ok" THEN Err(ReadFault(dst, x), x)
      ELSE IF ReadFault(src, x) # "ok" THEN Err(ReadFault(src, x), x)
      ELSE IF WriteFault(dst, x) # "ok" THEN Err(WriteFault(dst, x), x)
      ELSE Ok(Store(dst, x, Value(dst, x) + Value(src, x)))

LeaveOutcome(x) ==
  LET ebp == x.reg["ebp"]
  IN  IF ActiveFrame(x)
      THEN ReleaseLocalFrame(x, CHOOSE p \in Owner(ip) : TopLocalOf(x, p), FALSE)
      ELSE IF ebp \notin Mapped THEN Err("memory-error", x)
      ELSE Ok([x EXCEPT !.reg["esp"] = ebp + 1, !.reg["ebp"] = x.mem[ebp]])

\* Words one CALL takes: token, USES registers, and saved EBP with the locals.
Footprint(p) == 1 + Len(p.uses) + (IF p.locals > 0 THEN p.locals + 1 ELSE 0)

WriteCallFrame(x, token, p) ==
  LET automatic == p.uses # <<>> \/ p.locals > 0
      y == PushWords(x, <<token>> \o [k \in 1 .. Len(p.uses) |-> x.reg[p.uses[k]]])
      z == IF p.uses = <<>> THEN y
           ELSE [y EXCEPT !.uses = Append(@, [start |-> p.start, regs |-> p.uses])]
  IN  IF p.locals > 0 /\ ~RoomForFrame(x, p) THEN Err("invalid-frame-state", x)
      ELSE IF automatic /\ ~CanReserve(x.reg["esp"], Footprint(p)) THEN Err("stack-overflow", x)
      ELSE IF x.reg["esp"] - 1 \notin Mapped THEN Err("memory-error", x)
      ELSE IF p.uses # <<>> /\ Len(x.uses) >= FrameCapacity THEN Err("invalid-argument", y)
      ELSE IF p.locals > 0 THEN SetupLocalFrame(z, p) ELSE Ok(z)

\* A slip: the current depth is compared with the limit, not the attempted one.
MayCallOneTooDeep == depth <= settings.depthLimit

MayCallDeeper == depth + 1 <= settings.depthLimit

CallOutcome(x) ==
  IF Instr.dst.disp \notin 0 .. Count - 1 THEN Err("invalid-call-target", x)
  ELSE IF ~MayCallDeeper THEN Err("call-depth-exceeded", x)
  ELSE WriteCallFrame(x, TokenBase + Instr.src.disp, Callee(Instr.dst.disp))

CommitOutcome(x) ==
  LET p == Callee(Instr.dst.disp)
      n == Instr.args
  IN  IF Instr.dst.disp \notin 0 .. Count - 1 THEN Err("invalid-call-target", x)
      ELSE IF n \notin 1 .. ArgumentCapacity \/ ~(0 .. n - 1 \subseteq DOMAIN pending)
           THEN Err("invalid-argument", x)
      ELSE IF p.locals > 0 /\ ~RoomForFrame(x, p) THEN Err("invalid-frame-state", x)
      ELSE IF ~MayCallDeeper THEN Err("call-depth-exceeded", x)
      ELSE IF ~CanReserve(x.reg["esp"], n + Footprint(p)) THEN Err("stack-overflow", x)
      ELSE WriteCallFrame(PushWords(x, [k \in 1 .. n |-> pending[n - k]]),
                          TokenBase + Instr.src.disp, p)

\* A slip: the registers are popped in the order in which they were pushed.
RestoredInSaveOrder(x) ==
  IF \E p \in Owner(ip) : TopUsesOf(x, p) THEN Reverse(Last(x.uses).regs) ELSE <<>>

\* The USES registers RET restores: those of the top frame, if it is this procedure's.
RestoredBy(x) ==
  IF \E p \in Owner(ip) : TopUsesOf(x, p) THEN Last(x.uses).regs ELSE <<>>

HelperRetOutcome(x) ==
  LET r     == ReleaseHere(x)
      y     == r.m
      regs  == RestoredBy(y)
      n     == Len(regs)
      esp   == y.reg["esp"]
      token == esp + n
      final == token + 1 + Instr.src.disp
      Restored(q) == \E k \in 1 .. n : regs[k] = q
      SavedAt(q)  == esp + n - CHOOSE k \in 1 .. n : regs[k] = q
      z == [y EXCEPT !.reg = [q \in Registers |-> IF q = "esp" THEN final
                                ELSE IF Restored(q) THEN y.mem[SavedAt(q)] ELSE y.reg[q]],
                     !.uses = IF n = 0 THEN @ ELSE Front(@)]
  IN  IF r.status # "ok" THEN r
      ELSE IF ~(esp .. token - 1 \subseteq Mapped) THEN Err("stack-underflow", y)
      ELSE IF token \notin Mapped THEN Err("memory-error", y)
      ELSE IF y.mem[token] - TokenBase \notin 0 .. Count - 1 THEN Err("invalid-return-address", y)
      ELSE IF final \notin StackBase .. StackLimit THEN Err("ret-stack-cleanup-out-of-range", y)
      ELSE Ok(z)

ReturnIndex(x) == LET y == ReleaseHere(x).m
                  IN  y.mem[y.reg["esp"] + Len(RestoredBy(y))] - TokenBase

RootRetOutcome(x) ==
  IF settings.rootRet = "strict" THEN Err("root-ret-disallowed-by-mode", x) ELSE ReleaseHere(x)

-----------------------------------------------------------------------------
(* Completing or refusing a step *)

Running == status = "ok" /\ ~halted

\* The run loop checks the instruction limit before vm_step looks at the program.
MayStep   == Running /\ (ip < Count => count < InstructionLimit)
MayFetch  == MayStep /\ ip < Count /\ ~ShouldStopAtEntryEnd(ip, eligible, helpers)
Fetch(op) == MayFetch /\ Instr.op = op /\ Entered.status = "ok"

EntryFrameNow == entryFrame \/ CreatesEntryFrame

\* Ordinary movement to the next instruction; an INVOKE commit counts as ordinary.
Straight(next, taken) == next = ip + 1 /\ Instr.op \notin {"jmp", "call", "ret", "exit"} /\ ~taken

\* A slip: only CALL and RET are taken to leave the entry procedure.
LeavesEntryByCallOnly(next, taken) == InEntry(ip) /\ Instr.op \in {"call", "ret"}

LeavesEntry(next, taken) ==
  InEntry(ip) /\ ~Straight(next, taken) /\ (Instr.op \in {"call", "ret"} \/ ~InEntry(next))

\* A slip: only a called helper is reported.
FallsThroughOfHelper(next, taken, h) ==
  Straight(next, taken) /\ h > 0 /\ \E p \in Owner(ip) : next = p.end

FallsThrough(next, taken, h) ==
  /\ Straight(next, taken)
  /\ \E p \in Owner(ip) :
       /\ next = p.end
       /\ IF next < Count THEN \E q \in Owner(next) : q # p ELSE ~p.entry /\ h > 0

\* The epilogue of vm_step after a handler succeeded; helpers' is already fixed.
Retire(x, next, taken, halts) ==
  LET leaves == LeavesEntry(next, taken)
      stops  == ShouldStopAtEntryEnd(next, eligible /\ ~leaves, helpers')
      falls  == ~stops /\ FallsThrough(next, taken, helpers') /\ settings.fallthrough # "off"
      fatal  == falls /\ settings.fallthrough = "error"
  IN  /\ m' = x
      /\ ip' = next
      /\ count' = count + 1
      /\ eligible' = (eligible /\ ~leaves)
      /\ rootStream' = (RootStream /\ ~leaves /\ Instr.op \notin {"call", "commit"})
      /\ entryFrame' = EntryFrameNow
      /\ fell' = falls
      /\ halted' = (halts \/ stops \/ fatal)
      /\ status' = IF fatal THEN "procedure-fell-through" ELSE "ok"
      /\ UNCHANGED run

\* vm_step returns an error: the VM is not halted, and what the prologue and
\* the handler already changed stays changed.
Refuse(o) ==
  /\ o.status # "ok"
  /\ m' = o.m
  /\ status' = o.status
  /\ rootStream' = RootStream
  /\ entryFrame' = EntryFrameNow
  /\ fell' = FALSE
  /\ UNCHANGED <<run, ip, count, halted, helpers, depth, eligible, pending>>

\* An instruction that neither transfers control nor touches the call counters.
Plain(o) ==
  \/ Refuse(o)
  \/ /\ o.status = "ok"
     /\ UNCHANGED <<helpers, depth, pending>>
     /\ Retire(o.m, ip + 1, FALSE, FALSE)

-----------------------------------------------------------------------------
(* One action per instruction *)

Nop   == Fetch("nop") /\ Plain(Ok(Entered.m))
Mov   == Fetch("mov") /\ Plain(MovOutcome(Entered.m))
Add   == Fetch("add") /\ Plain(AddOutcome(Entered.m))
Push  == Fetch("push") /\ Plain(PushOutcome(Entered.m))
Pop   == Fetch("pop") /\ Plain(PopOutcome(Entered.m))
Leave == Fetch("leave") /\ Plain(LeaveOutcome(Entered.m))

EnterProcedure(x) ==
  /\ helpers' = helpers + 1
  /\ depth' = depth + 1
  /\ Retire(x, Instr.dst.disp, FALSE, FALSE)

Call ==
  /\ Fetch("call")
  /\ LET o == CallOutcome(Entered.m)
     IN  \/ Refuse(o)
         \/ o.status = "ok" /\ EnterProcedure(o.m) /\ UNCHANGED pending

InvokeCapture ==
  /\ Fetch("capture")
  /\ LET x == Entered.m
         i == Instr.dst.disp
         fault == IF i \notin 0 .. ArgumentCapacity - 1 THEN "invalid-argument"
                                                        ELSE ArgumentFault(Instr.src, x)
     IN  \/ fault # "ok" /\ Refuse(Err(fault, x))
         \/ /\ fault = "ok"
            /\ pending' = [k \in DOMAIN pending \cup {i} |->
                             IF k = i THEN Value(Instr.src, x) ELSE pending[k]]
            /\ UNCHANGED <<helpers, depth>>
            /\ Retire(x, ip + 1, FALSE, FALSE)

InvokeCommit ==
  /\ Fetch("commit")
  /\ LET o == CommitOutcome(Entered.m)
     IN  \/ Refuse(o)
         \/ o.status = "ok" /\ EnterProcedure(o.m) /\ pending' = [k \in {} |-> 0]

RootRet ==
  /\ Fetch("ret") /\ IsRootRet
  /\ LET o == RootRetOutcome(Entered.m)
     IN  \/ Refuse(o)
         \/ o.status = "ok" /\ UNCHANGED <<helpers, depth, pending>>
                            /\ Retire(o.m, ip, FALSE, TRUE)

\* A slip: the counter wraps when a RET matches no call.
DecBelowZero(n) == n - 1

Dec(n) == IF n > 0 THEN n - 1 ELSE 0

HelperRet ==
  /\ Fetch("ret") /\ ~IsRootRet
  /\ LET o == HelperRetOutcome(Entered.m)
     IN  \/ Refuse(o)
         \/ /\ o.status = "ok"
            /\ helpers' = Dec(helpers)
            /\ depth' = Dec(depth)
            /\ UNCHANGED pending
            /\ Retire(o.m, ReturnIndex(Entered.m), FALSE, FALSE)

Jump(taken) ==
  \/ /\ Instr.dst.disp \notin 0 .. Count - 1
     /\ Refuse(Err("invalid-branch-target", Entered.m))
  \/ /\ Instr.dst.disp \in 0 .. Count - 1
     /\ UNCHANGED <<helpers, depth, pending>>
     /\ Retire(Entered.m, IF taken THEN Instr.dst.disp ELSE ip + 1, taken, FALSE)

Jmp == Fetch("jmp") /\ Jump(TRUE)
Jcc == Fetch("jcc") /\ \E taken \in BOOLEAN : Jump(taken)

Exit ==
  /\ Fetch("exit")
  /\ LET o == ReleaseHere(Entered.m)
     IN  \/ Refuse(o)
         \/ o.status = "ok" /\ UNCHANGED <<helpers, depth, pending>>
                            /\ Retire(o.m, ip + 1, FALSE, TRUE)

\* The current instruction may not be entered here.
EntryRefused == MayFetch /\ Refuse(Entered)

-----------------------------------------------------------------------------
(* Stopping without running an instruction *)

StopAtEntryEnd ==
  /\ MayStep /\ ShouldStopAtEntryEnd(ip, eligible, helpers)
  /\ halted' = TRUE /\ fell' = FALSE
  /\ UNCHANGED <<run, m, ip, count, helpers, depth, rootStream, eligible, entryFrame,
                 pending, status>>

CodeFellOffEnd ==
  /\ MayStep /\ ip >= Count /\ ~ShouldStopAtEntryEnd(ip, eligible, helpers)
  /\ status' = "code-fell-off-end"
  /\ UNCHANGED <<run, m, ip, count, halted, helpers, depth, rootStream, eligible, entryFrame,
                 pending, fell>>

\* A slip: the limit stops the stepping but is reported one instruction later.
LimitExceededLate ==
  /\ Running /\ ip < Count /\ count > InstructionLimit
  /\ status' = "instruction-limit-exceeded"
  /\ UNCHANGED <<run, m, ip, count, halted, helpers, depth, rootStream, eligible, entryFrame,
                 pending, fell>>

LimitExceeded ==
  /\ Running /\ ip < Count /\ count >= InstructionLimit
  /\ status' = "instruction-limit-exceeded"
  /\ UNCHANGED <<run, m, ip, count, halted, helpers, depth, rootStream, eligible, entryFrame,
                 pending, fell>>

\* The run loop ended.
Finished == ~Running /\ UNCHANGED vars

-----------------------------------------------------------------------------

Init ==
  /\ image \in Images /\ settings \in Settings
  /\ \E r \in StartRegisters :
       m = [reg |-> r, mem |-> [a \in Mapped |-> 0], uses |-> <<>>, locals |-> <<>>,
            descriptors |-> 0]
  /\ ip = EntryProc.start
  /\ count = 0 /\ halted = FALSE /\ helpers = 0 /\ depth = 0
  /\ rootStream = FALSE /\ eligible = TRUE /\ entryFrame = FALSE
  /\ pending = [k \in {} |-> 0] /\ fell = FALSE /\ status = "ok"

Step == \/ Nop \/ Mov \/ Add \/ Push \/ Pop \/ Leave
        \/ Call \/ InvokeCapture \/ InvokeCommit \/ RootRet \/ HelperRet
        \/ Jmp \/ Jcc \/ Exit \/ EntryRefused
        \/ StopAtEntryEnd \/ CodeFellOffEnd \/ LimitExceeded

Next == Step \/ Finished

Spec == Init /\ [][Next]_vars

\* The run loop keeps stepping until the program halts or fails.
FairSpec == Spec /\ WF_vars(Step)

-----------------------------------------------------------------------------
(* Properties *)

UsesFrame  == [start : Nat, regs : Seq(General)]
LocalFrame == [start : Nat, base : Int, size : Nat, saved : Int, active : BOOLEAN]
Machine    == [reg : [Registers -> Int], mem : [Mapped -> Int], uses : Seq(UsesFrame),
               locals : Seq(LocalFrame), descriptors : Int]

\* The state of the procedure machine (struct Vm) keeps its types.
TypeOK ==
  /\ settings \in Settings
  /\ m \in Machine
  /\ ip \in Nat /\ count \in Nat /\ helpers \in Nat /\ depth \in Nat
  /\ halted \in BOOLEAN /\ rootStream \in BOOLEAN /\ eligible \in BOOLEAN
  /\ entryFrame \in BOOLEAN /\ fell \in BOOLEAN
  /\ DOMAIN pending \subseteq Int /\ \A k \in DOMAIN pending : pending[k] \in Int

\* The depth the limit is checked against is the number of helper returns still
\* outstanding, and no run of calls, invokes, returns and jumps exceeds the limit.
CallDepthWithinLimit == depth = helpers /\ depth <= settings.depthLimit

\* A root RET is only ever considered while no helper return is pending: the
\* code-stream flag never survives a CALL and never comes back inside a helper.
RootStreamOnlyWithoutHelpers == rootStream => helpers = 0

\* The fixed arrays of USES frames, LOCAL frames and LOCAL descriptors are never
\* indexed past their end, whatever a program jumps out of and leaves behind.
FrameArraysWithinCapacity ==
  /\ Len(m.uses) <= FrameCapacity /\ Len(m.locals) <= FrameCapacity
  /\ m.descriptors <= DescriptorCapacity

\* The words the frames of a stack account for.
Held(frames) == FoldLeft(LAMBDA n, f : n + f.size, 0, frames)

\* The descriptor count is what the retained LOCAL frames, active or released, account for.
DescriptorsMatchFrames == m.descriptors = Held(m.locals)

\* Every retained LOCAL frame, its saved EBP and its locals, lies in the stack
\* region, even when the program has moved ESP before the call.
LocalFramesInsideStack ==
  \A k \in DOMAIN m.locals :
    LET f == m.locals[k] IN StackBase <= f.base - f.size /\ f.base < StackLimit

\* A refused PUSH, POP, LEAVE, CALL, INVOKE or MOV leaves registers, memory and both
\* frame stacks alone, apart from an entry frame this very step created.  (With a
\* full array of USES frames CALL fails after its pushes.)
RefusedStepChangesNothing ==
  [][(/\ status = "ok" /\ status' \notin {"ok", "procedure-fell-through"}
      /\ ip < Count /\ Instr.op \notin {"ret", "exit"} /\ Len(m.uses) < FrameCapacity)
     => \/ m' = m
        \/ entryFrame' /\ ~entryFrame /\ Len(m'.locals) = 1 /\ m'.uses = <<>>]_vars

\* Straight movement from one procedure into another is always reported, and under the
\* error policy it stops the run, unless the run stops at the entry's end anyway.  (Code
\* of no procedure is not watched.)
CrossingIsReported ==
  [][(/\ settings.fallthrough # "off" /\ ip < Count /\ ip' = ip + 1 /\ ip' < Count
      /\ Instr.op \notin {"jmp", "jcc", "call", "ret", "exit"}
      /\ Owner(ip) # {} /\ Owner(ip') # {} /\ Owner(ip) \cap Owner(ip') = {})
     => \/ halted' /\ settings.entryEnd = "stop" /\ ip' = EntryProc.end
        \/ fell' /\ (settings.fallthrough = "error" => halted')]_vars

\* In stop mode a program that has not left its entry procedure through a call or a
\* jump is still inside it: nothing falls past the entry's ENDP.
EligibleMeansInEntry ==
  (settings.entryEnd = "stop" /\ eligible /\ helpers = 0 /\ Running)
    => InEntry(ip) \/ ip = EntryProc.start

\* The run loop always ends: no program, looping or recursing, outlives the
\* instruction limit.
EventuallyStops == <>~Running

=============================================================================
