---------------------------- MODULE VmExec_proofs ----------------------------
(***************************************************************************)
(* For every program, every setting and every capacity: the types of       *)
(* VmExec, the bounds of its frame arrays and the place of its LOCAL       *)
(* frames; the call depth and the root code stream; what the epilogue of   *)
(* vm_step promises about procedure boundaries; and that a refused step    *)
(* leaves no trace.  Each outcome operator keeps a machine Safe; so does   *)
(* every step.  For every program whose procedures keep to their own       *)
(* stack: VmExecCalls implements nested Activations.                       *)
(***************************************************************************)
EXTENDS VmExecCalls, SequenceTheorems, FiniteSetTheorems, Recursion

InStack(f) == StackBase <= f.base - f.size /\ f.base < StackLimit

Safe(x) ==
  /\ x \in Machine
  /\ Len(x.uses) <= FrameCapacity /\ Len(x.locals) <= FrameCapacity
  /\ x.descriptors <= DescriptorCapacity /\ x.descriptors = Held(x.locals)
  /\ \A k \in DOMAIN x.locals : InStack(x.locals[k])

\* What a step may rely on besides the machine.
Loaded ==
  /\ image \in Image /\ settings \in Settings /\ ip \in Nat
  /\ DOMAIN pending \subseteq Int /\ \A k \in DOMAIN pending : pending[k] \in Int

-----------------------------------------------------------------------------
(* Numbers, sequences and the updates a handler makes. *)

LEMMA Numbers ==
  /\ Mapped \subseteq Int /\ Stack \subseteq Mapped
  /\ StackBase \in Int /\ StackLimit \in Int /\ TokenBase \in Int
  /\ FrameCapacity \in Nat /\ DescriptorCapacity \in Nat
  /\ "esp" \in Registers /\ "ebp" \in Registers
BY ConstantsAssumption DEF Mapped, Stack, Registers

LEMMA MachineFields ==
  ASSUME NEW STATE x, x \in Machine
  PROVE  /\ x = [reg |-> x.reg, mem |-> x.mem, uses |-> x.uses, locals |-> x.locals,
                 descriptors |-> x.descriptors]
         /\ x.reg \in [Registers -> Int] /\ x.mem \in [Mapped -> Int]
         /\ x.uses \in Seq(UsesFrame) /\ x.locals \in Seq(LocalFrame) /\ x.descriptors \in Int
BY DEF Machine

\* Registers and memory may change freely.
LEMMA SafeUpdate ==
  ASSUME NEW STATE x, Safe(x),
         NEW STATE r, r \in [Registers -> Int], NEW STATE w, w \in [Mapped -> Int]
  PROVE  Safe([x EXCEPT !.reg = r, !.mem = w])
<1> DEFINE y == [x EXCEPT !.reg = r, !.mem = w]
<1>1. x \in Machine
  BY DEF Safe
<1>2. /\ y \in Machine
      /\ y.uses = x.uses /\ y.locals = x.locals /\ y.descriptors = x.descriptors
  BY <1>1 DEF Machine
<1> HIDE DEF y
<1>3. Safe(y)
  BY <1>2 DEF Safe
<1> QED
  BY <1>3 DEF y

LEMMA SafeReg ==
  ASSUME NEW STATE x, Safe(x), NEW STATE r, r \in Registers, NEW STATE v, v \in Int
  PROVE  Safe([x EXCEPT !.reg[r] = v])
<1>1. x \in Machine
  BY DEF Safe
<1>2. [x.reg EXCEPT ![r] = v] \in [Registers -> Int] /\ x.mem \in [Mapped -> Int]
  BY <1>1 DEF Machine
<1>3. [x EXCEPT !.reg[r] = v] = [x EXCEPT !.reg = [x.reg EXCEPT ![r] = v], !.mem = x.mem]
  BY <1>1 DEF Machine
<1> QED
  BY <1>2, <1>3, SafeUpdate

LEMMA SafeMem ==
  ASSUME NEW STATE x, Safe(x), NEW STATE a, NEW STATE v, v \in Int
  PROVE  Safe([x EXCEPT !.mem[a] = v])
<1>1. x \in Machine
  BY DEF Safe
<1>2. [x.mem EXCEPT ![a] = v] \in [Mapped -> Int] /\ x.reg \in [Registers -> Int]
  BY <1>1 DEF Machine
<1>3. [x EXCEPT !.mem[a] = v] = [x EXCEPT !.reg = x.reg, !.mem = [x.mem EXCEPT ![a] = v]]
  BY <1>1 DEF Machine
<1> QED
  BY <1>2, <1>3, SafeUpdate

LEMMA StoreSafe ==
  ASSUME NEW STATE x, Safe(x), NEW STATE o, o \in Operand, NEW STATE v, v \in Int
  PROVE  Safe(Store(o, x, v))
<1>1. o.reg \in Registers
  BY DEF Operand
<1> QED
  BY <1>1, SafeReg, SafeMem DEF Store

LEMMA PushWordsSafe ==
  ASSUME NEW STATE x, Safe(x), NEW STATE s, s \in Seq(Int)
  PROVE  /\ Safe(PushWords(x, s))
         /\ PushWords(x, s).reg["esp"] = x.reg["esp"] - Len(s)
         /\ PushWords(x, s).uses = x.uses /\ PushWords(x, s).locals = x.locals
         /\ PushWords(x, s).descriptors = x.descriptors
<1> DEFINE esp == x.reg["esp"]
           r == [x.reg EXCEPT !["esp"] = esp - Len(s)]
           w == [a \in DOMAIN x.mem |-> IF esp - a \in 1 .. Len(s) THEN s[esp - a] ELSE x.mem[a]]
           y == PushWords(x, s)
<1>1. x \in Machine /\ esp \in Int
  BY Numbers DEF Safe, Machine
<1>2. r \in [Registers -> Int] /\ r["esp"] = esp - Len(s)
  BY <1>1, Numbers DEF Machine
<1>3. w \in [Mapped -> Int]
  <2>1. ASSUME NEW a \in Mapped PROVE w[a] \in Int
    BY <1>1, <2>1 DEF Machine
  <2> QED
    BY <1>1, <2>1 DEF Machine
<1>4. y = [[x EXCEPT !.reg["esp"] = esp - Len(s)] EXCEPT !.mem = w]
  BY DEF PushWords
<1> HIDE DEF w, y, esp
<1>5. /\ y.reg = r /\ y.mem = w /\ y.uses = x.uses /\ y.locals = x.locals
      /\ y.descriptors = x.descriptors /\ y \in Machine
  <2>1. DOMAIN x = {"reg", "mem", "uses", "locals", "descriptors"}
    BY <1>1 DEF Machine
  <2>2. /\ y.reg = r /\ y.mem = w /\ y.uses = x.uses /\ y.locals = x.locals
        /\ y.descriptors = x.descriptors
    BY <1>4, <2>1
  <2>3. y = [x EXCEPT !.reg = r, !.mem = w]
    BY <1>4, <2>1
  <2> HIDE DEF r
  <2> QED
    BY <2>2, <2>3, <1>1, <1>2, <1>3 DEF Machine
<1> HIDE DEF r
<1>6. Safe(y)
  BY <1>5 DEF Safe
<1> QED
  BY <1>2, <1>5, <1>6 DEF y, esp

-----------------------------------------------------------------------------
(* What the frames of a stack account for. *)

\* Frame by frame.
HeldThrough(g, t) ==
  /\ g[0] = 0 /\ Held(t) = g[Len(t)]
  /\ \A i \in 1 .. Len(t) : g[i] = g[i - 1] + t[i].size

LEMMA HeldGoesThrough ==
  ASSUME NEW STATE t, t \in Seq(LocalFrame)
  PROVE  \E g : HeldThrough(g, t)
<1> DEFINE n == Len(t)
           Plus(x, e) == x + e.size
           h == [p \in Nat \X LocalFrame |-> Plus(p[1], p[2])]
           G(f) == [s \in SUBSET DOMAIN t |->
                      IF s = {} THEN 0 ELSE Plus(f[s \ {Max(s)}], t[Max(s)])]
           f == CHOOSE f : f = G(f)
<1>1. Held(t) = f[DOMAIN t]
  BY DEF Held, FoldLeft, MapThenFoldSet
<1>2. DOMAIN t = 1 .. n /\ n \in Nat
  OBVIOUS
<1>3. \A x \in Nat, e \in LocalFrame : Plus(x, e) \in Nat
  <2>1. ASSUME NEW x \in Nat, NEW e \in LocalFrame PROVE Plus(x, e) \in Nat
    <3>1. e.size \in Nat
      BY <2>1 DEF LocalFrame
    <3> QED
      BY <3>1
  <2> QED
    BY <2>1
<1> HIDE DEF Plus
<1>4. h \in [Nat \X LocalFrame -> Nat] /\ \A x \in Nat, e \in LocalFrame : h[<<x, e>>] = Plus(x, e)
  BY <1>3
<1> HIDE DEF h, n
<1>5. \E e : e = G(e)
  <2>1. PICK e : IsFold(e, 0, h, t) /\ StaysIn(e, Nat, LocalFrame, t)
    <3>1. 0 \in Nat
      OBVIOUS
    <3> QED
      BY <1>4, <3>1, FoldExists
  <2>2. ASSUME NEW s \in SUBSET DOMAIN t
        PROVE  e[s] = G(e)[s]
    <3>1. CASE s = {}
      BY <2>1, <3>1 DEF IsFold
    <3>2. CASE s # {}
      <4>1. e[s \ {Max(s)}] \in Nat /\ t[Max(s)] \in LocalFrame
        BY <2>1, <3>2 DEF StaysIn
      <4>2. e[s] = h[<<e[s \ {Max(s)}], t[Max(s)]>>]
        BY <2>1, <3>2 DEF IsFold
      <4>3. e[s] = Plus(e[s \ {Max(s)}], t[Max(s)])
        BY <1>4, <4>1, <4>2
      <4> QED
        BY <3>2, <4>3
    <3> QED
      BY <3>1, <3>2
  <2>3. e = G(e)
    <3> HIDE DEF G
    <3>1. DOMAIN G(e) = SUBSET DOMAIN t /\ G(e) = [s \in SUBSET DOMAIN t |-> G(e)[s]]
      BY DEF G
    <3> QED
      BY <2>1, <2>2, <3>1 DEF StaysIn
  <2> QED
    BY <2>3
<1>6. f = G(f)
  <2> HIDE DEF G
  <2> QED
    BY <1>5
<1> HIDE DEF f
<1> DEFINE g == [i \in 0 .. n |-> f[1 .. i]]
<1>7. g[0] = 0
  <2>1. 1 .. 0 = {} /\ 1 .. 0 \in SUBSET DOMAIN t
    OBVIOUS
  <2> QED
    BY <1>2, <1>6, <2>1
<1>8. ASSUME NEW i \in 1 .. n
      PROVE  g[i] = Plus(g[i - 1], t[i])
  <2>1. Max(1 .. i) = i /\ (1 .. i) \ {i} = 1 .. i - 1
    BY GreatestOfPrefix
  <2>2. 1 .. i \in SUBSET DOMAIN t /\ 1 .. i # {}
    <3>1. i \in 1 .. i /\ \A j \in 1 .. i : j \in 1 .. n
      BY <1>2
    <3> QED
      BY <1>2, <3>1
  <2>3. f[1 .. i] = Plus(f[1 .. i - 1], t[i])
    BY <1>6, <2>1, <2>2
  <2>4. i \in 0 .. n /\ i - 1 \in 0 .. n
    BY <1>2
  <2> QED
    BY <2>3, <2>4
<1>9. Held(t) = g[n]
  BY <1>1, <1>2
<1> HIDE DEF g
<1> QED
  BY <1>7, <1>8, <1>9 DEF n, Plus, HeldThrough

\* One frame more.
LEMMA HeldOfOneMore ==
  ASSUME NEW STATE t, t \in Seq(LocalFrame), NEW STATE u, u \in Seq(LocalFrame),
         Len(u) = Len(t) + 1, \A i \in 1 .. Len(t) : u[i] = t[i]
  PROVE  Held(t) \in Nat /\ Held(u) = Held(t) + u[Len(u)].size
<1> DEFINE n == Len(t)
<1>1. /\ n \in Nat /\ Len(u) = n + 1 /\ u[n + 1] \in LocalFrame
      /\ \A i \in 1 .. n : u[i] = t[i] /\ t[i] \in LocalFrame
  OBVIOUS
<1>2. PICK g : HeldThrough(g, t)
  BY HeldGoesThrough
<1>3. PICK f : HeldThrough(f, u)
  BY HeldGoesThrough
<1> USE DEF HeldThrough
<1> DEFINE S == {i \in 0 .. n : f[i] = g[i] /\ g[i] \in Nat}
<1>4. 0 \in S
  BY <1>1, <1>2, <1>3
<1>5. ASSUME NEW i \in 0 .. n - 1, i \in S
      PROVE  i + 1 \in S
  <2>1. i + 1 \in 1 .. n /\ i + 1 \in 1 .. Len(u) /\ (i + 1) - 1 = i /\ i + 1 \in 0 .. n
    BY <1>1
  <2>2. f[i + 1] = f[i] + u[i + 1].size /\ g[i + 1] = g[i] + t[i + 1].size
    BY <1>2, <1>3, <2>1
  <2>3. u[i + 1] = t[i + 1] /\ t[i + 1].size \in Nat
    BY <1>1, <2>1 DEF LocalFrame
  <2>4. g[i + 1] \in Nat
    <3>1. g[i] \in Nat
      BY <1>5
    <3>2. \A x, e \in Nat : x + e \in Nat
      OBVIOUS
    <3> QED
      BY <2>2, <2>3, <3>1, <3>2
  <2> QED
    BY <1>5, <2>1, <2>2, <2>3, <2>4
<1>6. n \in S
  <2> HIDE DEF S
  <2>1. \A i \in 0 .. n : i \in S
    BY <1>1, <1>4, <1>5, Induction
  <2> QED
    BY <1>1, <2>1
<1>7. f[n + 1] = f[n] + u[n + 1].size
  <2>1. n + 1 \in 1 .. Len(u) /\ (n + 1) - 1 = n
    BY <1>1
  <2> QED
    BY <1>1, <1>3, <2>1
<1> QED
  BY <1>1, <1>2, <1>3, <1>6, <1>7

LEMMA HeldOfNone == Held(<<>>) = 0
<1> DEFINE o == <<>>
<1>1. o \in Seq(LocalFrame) /\ Len(o) = 0
  OBVIOUS
<1> HIDE DEF o
<1>2. PICK g : HeldThrough(g, o)
  BY <1>1, HeldGoesThrough
<1>3. Held(o) = 0
  BY <1>1, <1>2 DEF HeldThrough
<1> QED
  BY <1>3 DEF o

-----------------------------------------------------------------------------
(* Stacks of frames. *)

\* Pushing a frame that lies in the stack, and dropping the top one.
LEMMA AppendFrame ==
  ASSUME NEW STATE s, s \in Seq(LocalFrame), NEW STATE f, f \in LocalFrame,
         \A k \in DOMAIN s : InStack(s[k]), InStack(f)
  PROVE  /\ Append(s, f) \in Seq(LocalFrame) /\ Len(Append(s, f)) = Len(s) + 1
         /\ \A k \in DOMAIN Append(s, f) : InStack(Append(s, f)[k])
         /\ Held(Append(s, f)) = Held(s) + f.size
<1>1. /\ Append(s, f) \in Seq(LocalFrame) /\ Len(Append(s, f)) = Len(s) + 1
      /\ \A k \in 1 .. Len(s) : Append(s, f)[k] = s[k]
      /\ Append(s, f)[Len(s) + 1] = f
  BY AppendProperties
<1>2. DOMAIN s = 1 .. Len(s) /\ DOMAIN Append(s, f) = 1 .. Len(s) + 1 /\ Len(s) \in Nat
  BY <1>1, LenProperties
<1>3. ASSUME NEW k \in DOMAIN Append(s, f) PROVE InStack(Append(s, f)[k])
  <2>1. CASE k \in 1 .. Len(s)
    BY <2>1, <1>1, <1>2
  <2>2. CASE k = Len(s) + 1
    BY <2>2, <1>1
  <2> QED
    BY <1>2, <2>1, <2>2
<1>4. Held(Append(s, f)) = Held(s) + f.size
  <2> DEFINE u == Append(s, f)
  <2>1. u \in Seq(LocalFrame) /\ Len(u) = Len(s) + 1 /\ u[Len(u)] = f /\ \A i \in 1 .. Len(s) : u[i] = s[i]
    BY <1>1
  <2> HIDE DEF u
  <2>2. Held(u) = Held(s) + f.size
    BY <2>1, HeldOfOneMore
  <2> QED
    BY <2>2 DEF u
<1> QED
  BY <1>1, <1>3, <1>4

LEMMA FrontOf ==
  ASSUME NEW S, NEW STATE s, s \in Seq(S), s # <<>>
  PROVE  /\ Front(s) \in Seq(S) /\ Len(Front(s)) = Len(s) - 1 /\ Len(s) \in Nat \ {0}
         /\ \A k \in 1 .. Len(s) - 1 : Front(s)[k] = s[k]
         /\ DOMAIN Front(s) = 1 .. Len(s) - 1 /\ DOMAIN s = 1 .. Len(s)
         /\ Last(s) \in S /\ Last(s) = s[Len(s)]
<1>1. Len(s) \in Nat \ {0} /\ DOMAIN s = 1 .. Len(s)
  BY EmptySeq, LenProperties
<1>2. \A k \in 1 .. Len(s) : s[k] \in S
  BY ElementOfSeq
<1>3. /\ Front(s) \in Seq(S) /\ Len(Front(s)) = Len(s) - 1
      /\ \A k \in 1 .. Len(s) - 1 : Front(s)[k] = s[k]
  <2> DEFINE n == Len(s) - 1
             q == SubSeq(s, 1, n)
  <2>1. n \in Nat /\ \A k \in 1 .. n : s[k] \in S
    BY <1>1, <1>2
  <2> HIDE DEF n
  <2>2. /\ q \in Seq(S)
        /\ Len(q) = IF 1 <= n THEN n - 1 + 1 ELSE 0
        /\ \A k \in 1 .. n - 1 + 1 : q[k] = s[1 + k - 1]
    BY <2>1, SubSeqProperties
  <2> HIDE DEF q
  <2>3. Len(q) = n
    BY <2>1, <2>2
  <2>4. ASSUME NEW k \in 1 .. n PROVE q[k] = s[k]
    <3>1. k \in 1 .. n - 1 + 1 /\ 1 + k - 1 = k
      BY <2>1
    <3> QED
      BY <3>1, <2>2
  <2> QED
    BY <2>2, <2>3, <2>4 DEF Front, q, n
<1>4. DOMAIN Front(s) = 1 .. Len(s) - 1
  BY <1>3, LenProperties
<1> QED
  BY <1>1, <1>2, <1>3, <1>4 DEF Last

LEMMA FrontFrames ==
  ASSUME NEW STATE s, s \in Seq(LocalFrame), s # <<>>, \A k \in DOMAIN s : InStack(s[k])
  PROVE  /\ Front(s) \in Seq(LocalFrame) /\ Len(Front(s)) = Len(s) - 1 /\ Len(s) \in Nat \ {0}
         /\ \A k \in DOMAIN Front(s) : InStack(Front(s)[k])
         /\ Last(s) \in LocalFrame /\ InStack(Last(s))
         /\ Held(Front(s)) \in Nat /\ Held(s) = Held(Front(s)) + Last(s).size
<1>1. /\ Front(s) \in Seq(LocalFrame) /\ Len(Front(s)) = Len(s) - 1 /\ Len(s) \in Nat \ {0}
      /\ \A k \in 1 .. Len(s) - 1 : Front(s)[k] = s[k]
      /\ DOMAIN Front(s) = 1 .. Len(s) - 1 /\ DOMAIN s = 1 .. Len(s)
      /\ Last(s) \in LocalFrame /\ Last(s) = s[Len(s)]
  BY FrontOf
<1>2. ASSUME NEW k \in DOMAIN Front(s) PROVE InStack(Front(s)[k])
  <2>1. k \in DOMAIN s /\ Front(s)[k] = s[k]
    BY <1>1
  <2> QED
    BY <2>1
<1>3. Len(s) \in DOMAIN s
  BY <1>1
<1>4. Held(Front(s)) \in Nat /\ Held(s) = Held(Front(s)) + Last(s).size
  <2> DEFINE t == Front(s)
  <2>1. t \in Seq(LocalFrame) /\ Len(s) = Len(t) + 1 /\ Last(s) = s[Len(s)] /\ \A i \in 1 .. Len(t) : s[i] = t[i]
    BY <1>1
  <2> HIDE DEF t
  <2>2. Held(t) \in Nat /\ Held(s) = Held(t) + Last(s).size
    BY <2>1, HeldOfOneMore
  <2> QED
    BY <2>2 DEF t
<1> QED
  BY <1>1, <1>2, <1>3, <1>4

-----------------------------------------------------------------------------
(* What the program hands to the handlers. *)

LEMMA ProcsTyped ==
  ASSUME Loaded
  PROVE  ProcSet \subseteq Procedure
<1>1. image.procs \in Seq(Procedure)
  BY DEF Loaded, Image
<1>2. \A k \in DOMAIN image.procs : image.procs[k] \in Procedure
  BY <1>1
<1> QED
  BY <1>2 DEF ProcSet

LEMMA OwnersTyped ==
  ASSUME Loaded, NEW STATE i
  PROVE  Owner(i) \subseteq Procedure /\ LocalsHere \subseteq Procedure
BY ProcsTyped DEF Owner, LocalsHere

LEMMA CalleeTyped ==
  ASSUME Loaded, NEW STATE i, i \in Nat
  PROVE  Callee(i) \in Procedure
<1>1. CASE StartingAt(i) = {}
  <2>1. [start |-> i, end |-> i, entry |-> FALSE, uses |-> <<>>, locals |-> 0] \in Procedure
    BY EmptySeq DEF Procedure
  <2> QED
    BY <1>1, <2>1 DEF Callee
<1>2. CASE StartingAt(i) # {}
  <2>1. StartingAt(i) \subseteq ProcSet
    BY DEF StartingAt, ProcSet
  <2>2. Callee(i) \in StartingAt(i)
    BY <1>2 DEF Callee
  <2> QED
    BY <2>1, <2>2, ProcsTyped
<1> QED
  BY <1>1, <1>2

LEMMA InstrTyped ==
  ASSUME Loaded, ip < Count
  PROVE  Instr \in Instruction
<1>1. image.code \in Seq(Instruction) /\ ip \in Nat /\ ip < Len(image.code)
  BY DEF Loaded, Image, Count
<1>2. Len(image.code) \in Nat
  BY <1>1, LenProperties
<1>3. ip + 1 \in 1 .. Len(image.code)
  BY <1>1, <1>2
<1> QED
  BY <1>1, <1>3, ElementOfSeq DEF Instr

LEMMA OperandsTyped ==
  ASSUME Loaded, ip < Count
  PROVE  /\ Instr.dst \in Operand /\ Instr.src \in Operand /\ Instr.args \in Nat
         /\ Instr.dst.disp \in Int /\ Instr.src.disp \in Int /\ Instr.op \in Opcodes
BY InstrTyped DEF Instruction, Operand

\* What an operand that reads without a fault holds.
LEMMA ValueInt ==
  ASSUME NEW STATE x, Safe(x), NEW STATE o, o \in Operand, ArgumentFault(o, x) = "ok"
  PROVE  Value(o, x) \in Int
<1>1. x \in Machine /\ o.kind \in OperandKinds /\ o.reg \in Registers /\ o.disp \in Int
  BY DEF Safe, Operand
<1>2. CASE o.kind = "imm"
  BY <1>1, <1>2 DEF Value
<1>3. CASE o.kind = "reg"
  BY <1>1, <1>3 DEF Value, Machine
<1>4. CASE o.kind = "addr"
  <2>1. x.locals # <<>>
    BY <1>4 DEF ArgumentFault, ActiveFrame
  <2>2. Last(x.locals) \in LocalFrame
    BY <1>1, <2>1, FrontOf DEF Machine
  <2>3. Last(x.locals).base \in Int
    BY <2>2 DEF LocalFrame
  <2> QED
    BY <1>1, <1>4, <2>3 DEF Value, Address
<1>5. CASE InMemory(o)
  <2>1. Address(o, x) \in Mapped
    BY <1>5 DEF ArgumentFault, ReadFault, InMemory
  <2>2. Value(o, x) = x.mem[Address(o, x)]
    BY <1>5 DEF Value, InMemory
  <2> QED
    BY <1>1, <2>1, <2>2 DEF Machine
<1>6. o.kind # "none"
  BY DEF ArgumentFault, ReadFault
<1> QED
  BY <1>1, <1>2, <1>3, <1>4, <1>5, <1>6 DEF OperandKinds, InMemory

LEMMA ReadInt ==
  ASSUME NEW STATE x, Safe(x), NEW STATE o, o \in Operand, ReadFault(o, x) = "ok"
  PROVE  Value(o, x) \in Int
<1>1. ArgumentFault(o, x) = "ok"
  BY DEF ArgumentFault, ReadFault
<1> QED
  BY <1>1, ValueInt

-----------------------------------------------------------------------------
(* LOCAL frames. *)

\* Replacing the LOCAL frames and their descriptors.
LEMMA SafeFrames ==
  ASSUME NEW STATE x, Safe(x), NEW STATE r, r \in [Registers -> Int],
         NEW STATE l, l \in Seq(LocalFrame), Len(l) <= FrameCapacity,
         \A k \in DOMAIN l : InStack(l[k]),
         NEW STATE d, d \in Int, d <= DescriptorCapacity, d = Held(l)
  PROVE  Safe([x EXCEPT !.reg = r, !.locals = l, !.descriptors = d])
<1> DEFINE y == [x EXCEPT !.reg = r, !.locals = l, !.descriptors = d]
<1>1. x \in Machine /\ Len(x.uses) <= FrameCapacity
  BY DEF Safe
<1>2. y \in Machine /\ y.uses = x.uses /\ y.locals = l /\ y.descriptors = d
  BY <1>1 DEF Machine
<1> HIDE DEF y
<1>3. Safe(y)
  BY <1>1, <1>2 DEF Safe
<1> QED
  BY <1>3 DEF y

LEMMA SetupSafe ==
  ASSUME NEW STATE x, Safe(x), NEW STATE p, p \in Procedure
  PROVE  Safe(SetupLocalFrame(x, p).m)
<1> DEFINE zeros == [k \in 1 .. p.locals |-> 0]
           s == <<x.reg["ebp"]>> \o zeros
           y == PushWords(x, s)
           base == x.reg["esp"] - 1
           f == [start |-> p.start, base |-> base, size |-> p.locals,
                 saved |-> x.reg["ebp"], active |-> TRUE]
           r == [y.reg EXCEPT !["ebp"] = base]
           z == [y EXCEPT !.reg["ebp"] = base, !.locals = Append(@, f),
                          !.descriptors = @ + p.locals]
<1>1. /\ x \in Machine /\ x.reg["esp"] \in Int /\ x.reg["ebp"] \in Int /\ base \in Int
      /\ p.locals \in Nat /\ p.start \in Nat
  BY Numbers DEF Safe, Machine, Procedure
<1>2. s \in Seq(Int)
  <2>1. zeros \in Seq(Int)
    BY <1>1, IsASeq
  <2>2. <<x.reg["ebp"]>> \in Seq(Int)
    BY <1>1
  <2> HIDE DEF zeros
  <2> QED
    BY <2>1, <2>2, ConcatProperties
<1> HIDE DEF s
<1>3. /\ Safe(y) /\ y.locals = x.locals /\ y.descriptors = x.descriptors
  BY <1>2, PushWordsSafe
<1> HIDE DEF y
<1>4. f \in LocalFrame
  BY <1>1 DEF LocalFrame
<1>5. CASE RoomForFrame(x, p) /\ CanReserve(x.reg["esp"], p.locals + 1)
  <2>1. SetupLocalFrame(x, p).m = z
    BY <1>5 DEF SetupLocalFrame, Ok, y, s
  <2>2. InStack(f) /\ f.size = p.locals
    BY <1>1, <1>5, Numbers DEF InStack, CanReserve
  <2>3. x.locals \in Seq(LocalFrame) /\ x.descriptors \in Int /\ \A k \in DOMAIN x.locals : InStack(x.locals[k])
    BY <1>1 DEF Safe, Machine
  <2> HIDE DEF f
  <2>4. /\ Append(x.locals, f) \in Seq(LocalFrame) /\ Len(Append(x.locals, f)) = Len(x.locals) + 1
        /\ \A k \in DOMAIN Append(x.locals, f) : InStack(Append(x.locals, f)[k])
        /\ Held(Append(x.locals, f)) = Held(x.locals) + f.size
    BY <1>4, <2>2, <2>3, AppendFrame
  <2>5. y \in Machine
    BY <1>3 DEF Safe
  <2>6. r \in [Registers -> Int]
    BY <2>5, <1>1, Numbers DEF Machine
  <2>7. /\ Len(Append(x.locals, f)) <= FrameCapacity
        /\ x.descriptors + p.locals \in Int /\ x.descriptors + p.locals <= DescriptorCapacity
        /\ x.descriptors + p.locals = Held(Append(x.locals, f))
    <3>2. x.descriptors = Held(x.locals)
      BY DEF Safe
    <3>3. Held(Append(x.locals, f)) = x.descriptors + p.locals
      BY <3>2, <2>2, <2>4
    <3>1. Len(x.locals) \in Nat
      BY <2>3, LenProperties
    <3> QED
      BY <1>1, <1>5, <2>3, <2>4, <3>1, <3>3, Numbers DEF RoomForFrame
  <2>8. z = [y EXCEPT !.reg = r, !.locals = Append(x.locals, f),
                      !.descriptors = x.descriptors + p.locals]
    <3>1. DOMAIN y = {"reg", "mem", "uses", "locals", "descriptors"}
      BY <2>5 DEF Machine
    <3> QED
      BY <3>1, <1>3
  <2> DEFINE l == Append(x.locals, f)
             d == x.descriptors + p.locals
  <2> HIDE DEF z, r, l, d
  <2>9. Safe([y EXCEPT !.reg = r, !.locals = l, !.descriptors = d])
    BY <1>3, <2>4, <2>6, <2>7, SafeFrames DEF l, d
  <2> QED
    BY <2>1, <2>8, <2>9 DEF l, d
<1>6. CASE ~(RoomForFrame(x, p) /\ CanReserve(x.reg["esp"], p.locals + 1))
  <2>1. SetupLocalFrame(x, p).m = x
    BY <1>6 DEF SetupLocalFrame, Err
  <2> QED
    BY <2>1
<1> QED
  BY <1>5, <1>6

LEMMA DropSafe ==
  ASSUME NEW STATE x, Safe(x), x.locals # <<>>
  PROVE  Safe(DropLocalFrame(x))
<1> DEFINE y == DropLocalFrame(x)
<1>1. /\ x \in Machine /\ x.locals \in Seq(LocalFrame) /\ x.descriptors \in Int
      /\ Len(x.locals) <= FrameCapacity /\ x.descriptors <= DescriptorCapacity
      /\ \A k \in DOMAIN x.locals : InStack(x.locals[k])
  BY DEF Safe, Machine
<1>2. /\ Front(x.locals) \in Seq(LocalFrame) /\ Len(Front(x.locals)) = Len(x.locals) - 1
      /\ \A k \in DOMAIN Front(x.locals) : InStack(Front(x.locals)[k])
      /\ Last(x.locals).size \in Nat /\ Len(x.locals) \in Nat
      /\ Held(Front(x.locals)) \in Nat
      /\ x.descriptors = Held(Front(x.locals)) + Last(x.locals).size
  BY <1>1, FrontFrames DEF LocalFrame, Safe
<1>3. x.reg \in [Registers -> Int]
  BY <1>1 DEF Machine
<1>4. /\ Len(Front(x.locals)) <= FrameCapacity /\ x.descriptors - Last(x.locals).size \in Int
      /\ x.descriptors - Last(x.locals).size <= DescriptorCapacity
      /\ x.descriptors - Last(x.locals).size = Held(Front(x.locals))
  BY <1>1, <1>2, Numbers
<1>5. y = [x EXCEPT !.reg = x.reg, !.locals = Front(x.locals),
                    !.descriptors = x.descriptors - Last(x.locals).size]
  <2>1. DOMAIN x = {"reg", "mem", "uses", "locals", "descriptors"}
    BY <1>1 DEF Machine
  <2> QED
    BY <2>1, <1>1 DEF DropLocalFrame, Machine
<1> DEFINE r == x.reg
           l == Front(x.locals)
           d == x.descriptors - Last(x.locals).size
<1> HIDE DEF y, r, l, d
<1>6. Safe([x EXCEPT !.reg = r, !.locals = l, !.descriptors = d])
  BY <1>2, <1>3, <1>4, SafeFrames DEF r, l, d
<1> QED
  BY <1>5, <1>6 DEF y, r, l, d

\* The released frame keeps its place; ESP and EBP go back to the caller's.
LEMMA ReleaseSafe ==
  ASSUME NEW STATE x, Safe(x), NEW STATE p, NEW STATE drop
  PROVE  Safe(ReleaseLocalFrame(x, p, drop).m)
<1> DEFINE f == Last(x.locals)
           g == [f EXCEPT !.active = FALSE]
           y == [x EXCEPT !.reg["esp"] = f.base + 1, !.reg["ebp"] = f.saved,
                          !.locals = Append(Front(@), g)]
<1>1. CASE ~TopLocalOf(x, p)
  BY <1>1 DEF ReleaseLocalFrame, Err
<1>2. CASE TopLocalOf(x, p)
  <2>1. x.locals # <<>>
    BY <1>2 DEF TopLocalOf
  <2>2. x \in Machine /\ x.locals \in Seq(LocalFrame) /\ Len(x.locals) <= FrameCapacity
    BY DEF Safe, Machine
  <2>3. /\ Front(x.locals) \in Seq(LocalFrame) /\ Len(Front(x.locals)) = Len(x.locals) - 1
        /\ \A k \in DOMAIN Front(x.locals) : InStack(Front(x.locals)[k])
        /\ f \in LocalFrame /\ InStack(f) /\ Len(x.locals) \in Nat
        /\ x.descriptors = Held(Front(x.locals)) + f.size
    BY <2>1, <2>2, FrontFrames DEF Safe
  <2>4. g \in LocalFrame /\ InStack(g) /\ f.base \in Int /\ f.saved \in Int /\ g.size = f.size
    BY <2>3 DEF LocalFrame, InStack
  <2> HIDE DEF f, g
  <2>5. /\ Append(Front(x.locals), g) \in Seq(LocalFrame)
        /\ Len(Append(Front(x.locals), g)) = Len(x.locals)
        /\ \A k \in DOMAIN Append(Front(x.locals), g) : InStack(Append(Front(x.locals), g)[k])
        /\ x.descriptors = Held(Append(Front(x.locals), g))
    BY <2>3, <2>4, AppendFrame
  <2>6. [x.reg EXCEPT !["esp"] = f.base + 1, !["ebp"] = f.saved] \in [Registers -> Int]
    BY <2>2, <2>4, Numbers DEF Machine
  <2>7. y = [x EXCEPT !.reg = [x.reg EXCEPT !["esp"] = f.base + 1, !["ebp"] = f.saved],
                      !.locals = Append(Front(x.locals), g), !.descriptors = x.descriptors]
    <3>1. DOMAIN x = {"reg", "mem", "uses", "locals", "descriptors"}
      BY <2>2 DEF Machine
    <3> QED
      BY <3>1, <2>2 DEF Machine
  <2>8. x.descriptors \in Int /\ x.descriptors <= DescriptorCapacity
    BY DEF Safe, Machine
  <2>9. Safe(y) /\ y.locals = Append(Front(x.locals), g)
    <3> DEFINE r == [x.reg EXCEPT !["esp"] = f.base + 1, !["ebp"] = f.saved]
               l == Append(Front(x.locals), g)
               d == x.descriptors
    <3> HIDE DEF y, r, l, d
    <3>1. Safe([x EXCEPT !.reg = r, !.locals = l, !.descriptors = d])
      BY <2>2, <2>5, <2>6, <2>8, SafeFrames DEF r, l, d
    <3>2. y = [x EXCEPT !.reg = r, !.locals = l, !.descriptors = d]
      BY <2>7 DEF r, l, d
    <3>3. y.locals = l
      BY <2>2, <3>2 DEF Machine
    <3> QED
      BY <3>1, <3>2, <3>3 DEF l
  <2> HIDE DEF y
  <2>10. y.locals # <<>>
    BY <2>3, <2>5, <2>9, EmptySeq
  <2>11. Safe(DropLocalFrame(x)) /\ Safe(DropLocalFrame(y))
    BY <2>1, <2>9, <2>10, DropSafe
  <2>12. ReleaseLocalFrame(x, p, drop).m \in {x, y, DropLocalFrame(x), DropLocalFrame(y)}
    BY <1>2 DEF ReleaseLocalFrame, Ok, Err, y, f, g
  <2> QED
    BY <2>9, <2>11, <2>12
<1> QED
  BY <1>1, <1>2

LEMMA ReleaseHereSafe ==
  ASSUME NEW STATE x, Safe(x)
  PROVE  Safe(ReleaseHere(x).m)
BY ReleaseSafe DEF ReleaseHere, Ok

\* The prologue of a step.
LEMMA EnteredSafe ==
  ASSUME Safe(m), Loaded
  PROVE  Safe(Entered.m)
<1> DEFINE p == CHOOSE p \in LocalsHere : TRUE
<1>1. CASE StartsUsesWithoutFrame \/ \A q \in LocalsHere : FrameReady(q)
  BY <1>1 DEF Entered, Ok, Err
<1>2. CASE ~StartsUsesWithoutFrame /\ ~\A q \in LocalsHere : FrameReady(q)
  <2>1. p \in Procedure
    BY <1>2, OwnersTyped
  <2>2. Safe(SetupLocalFrame(m, p).m)
    BY <2>1, SetupSafe
  <2>3. Entered.m \in {m, SetupLocalFrame(m, p).m}
    BY <1>2 DEF Entered, Err
  <2> QED
    BY <2>2, <2>3
<1> QED
  BY <1>1, <1>2

-----------------------------------------------------------------------------
(* The outcomes of the handlers. *)

LEMMA PushOutcomeSafe ==
  ASSUME NEW STATE x, Safe(x), Loaded, ip < Count
  PROVE  Safe(PushOutcome(x).m)
<1> DEFINE o == Instr.src
<1>1. CASE ReadFault(o, x) # "ok" \/ x.reg["esp"] - 1 \notin Mapped
  BY <1>1 DEF PushOutcome, Err
<1>2. CASE ReadFault(o, x) = "ok" /\ x.reg["esp"] - 1 \in Mapped
  <2>1. Value(o, x) \in Int
    BY <1>2, OperandsTyped, ReadInt
  <2>2. <<Value(o, x)>> \in Seq(Int)
    BY <2>1
  <2>3. PushOutcome(x).m = PushWords(x, <<Value(o, x)>>)
    BY <1>2 DEF PushOutcome, Ok
  <2> QED
    BY <2>2, <2>3, PushWordsSafe
<1> QED
  BY <1>1, <1>2

LEMMA PopOutcomeSafe ==
  ASSUME NEW STATE x, Safe(x), Loaded, ip < Count
  PROVE  Safe(PopOutcome(x).m)
<1> DEFINE o == Instr.dst
           esp == x.reg["esp"]
           y == [x EXCEPT !.reg["esp"] = @ + 1]
           z == Store(o, y, x.mem[esp])
<1>1. x \in Machine /\ esp \in Int
  BY Numbers DEF Safe, Machine
<1>2. y = [x EXCEPT !.reg["esp"] = esp + 1]
  BY <1>1 DEF Machine
<1>3. Safe(y)
  BY <1>1, <1>2, Numbers, SafeReg
<1> HIDE DEF y
<1>4. ASSUME esp \in Mapped PROVE Safe(z)
  <2>1. x.mem[esp] \in Int
    BY <1>1, <1>4 DEF Machine
  <2>2. o \in Operand
    BY OperandsTyped
  <2> QED
    BY <1>3, <2>1, <2>2, StoreSafe
<1>5. PopOutcome(x).m = x \/ (esp \in Mapped /\ PopOutcome(x).m = z)
  BY DEF PopOutcome, Ok, Err, y
<1> QED
  BY <1>4, <1>5

LEMMA MovOutcomeSafe ==
  ASSUME NEW STATE x, Safe(x), Loaded, ip < Count
  PROVE  Safe(MovOutcome(x).m)
<1> DEFINE z == Store(Instr.dst, x, Value(Instr.src, x))
<1>1. MovOutcome(x).m = x \/ (ReadFault(Instr.src, x) = "ok" /\ MovOutcome(x).m = z)
  BY DEF MovOutcome, Ok, Err
<1>2. ReadFault(Instr.src, x) = "ok" => Safe(z)
  BY OperandsTyped, ReadInt, StoreSafe
<1> QED
  BY <1>1, <1>2

LEMMA AddOutcomeSafe ==
  ASSUME NEW STATE x, Safe(x), Loaded, ip < Count
  PROVE  Safe(AddOutcome(x).m)
<1> DEFINE v == Value(Instr.dst, x) + Value(Instr.src, x)
           z == Store(Instr.dst, x, v)
           reads == ReadFault(Instr.dst, x) = "ok" /\ ReadFault(Instr.src, x) = "ok"
<1>1. AddOutcome(x).m = x \/ (reads /\ AddOutcome(x).m = z)
  BY DEF AddOutcome, Ok, Err
<1>2. ASSUME reads PROVE Safe(z)
  <2>1. Value(Instr.dst, x) \in Int /\ Value(Instr.src, x) \in Int /\ Instr.dst \in Operand
    BY <1>2, OperandsTyped, ReadInt
  <2>2. v \in Int
    BY <2>1
  <2> HIDE DEF v
  <2> QED
    BY <2>1, <2>2, StoreSafe
<1> QED
  BY <1>1, <1>2

LEMMA LeaveOutcomeSafe ==
  ASSUME NEW STATE x, Safe(x)
  PROVE  Safe(LeaveOutcome(x).m)
<1> DEFINE ebp == x.reg["ebp"]
           p == CHOOSE p \in Owner(ip) : TopLocalOf(x, p)
           z == [x EXCEPT !.reg["esp"] = ebp + 1, !.reg["ebp"] = x.mem[ebp]]
           r == [x.reg EXCEPT !["esp"] = ebp + 1, !["ebp"] = x.mem[ebp]]
<1>1. x \in Machine /\ ebp \in Int
  BY Numbers DEF Safe, Machine
<1>2. ASSUME ebp \in Mapped PROVE Safe(z)
  <2>1. r \in [Registers -> Int] /\ x.mem \in [Mapped -> Int]
    BY <1>1, <1>2, Numbers DEF Machine
  <2>2. z = [x EXCEPT !.reg = r, !.mem = x.mem]
    <3>1. DOMAIN x = {"reg", "mem", "uses", "locals", "descriptors"}
      BY <1>1 DEF Machine
    <3> QED
      BY <3>1, <1>1 DEF Machine
  <2> HIDE DEF r, z
  <2>3. Safe([x EXCEPT !.reg = r, !.mem = x.mem])
    BY <2>1, SafeUpdate
  <2> QED
    BY <2>2, <2>3
<1>3. \/ LeaveOutcome(x).m = x
      \/ ebp \in Mapped /\ LeaveOutcome(x).m = z
      \/ LeaveOutcome(x) = ReleaseLocalFrame(x, p, FALSE)
  BY DEF LeaveOutcome, Ok, Err
<1>4. Safe(ReleaseLocalFrame(x, p, FALSE).m)
  BY ReleaseSafe
<1> QED
  BY <1>2, <1>3, <1>4

LEMMA UsesOnly ==
  ASSUME NEW STATE x, Safe(x), NEW STATE u, u \in Seq(UsesFrame), Len(u) <= FrameCapacity
  PROVE  Safe([x EXCEPT !.uses = u])
<1> DEFINE y == [x EXCEPT !.uses = u]
<1>1. x \in Machine
  BY DEF Safe
<1>2. /\ y \in Machine /\ y.uses = u /\ y.locals = x.locals /\ y.descriptors = x.descriptors
  BY <1>1 DEF Machine
<1> HIDE DEF y
<1>3. Safe(y)
  BY <1>2 DEF Safe
<1> QED
  BY <1>3 DEF y

\* The token and the saved registers are numbers.
LEMMA CallWords ==
  ASSUME NEW STATE x, Safe(x), NEW STATE token, token \in Int, NEW STATE p, p \in Procedure
  PROVE  <<token>> \o [k \in 1 .. Len(p.uses) |-> x.reg[p.uses[k]]] \in Seq(Int)
<1> DEFINE n == Len(p.uses)
           saved == [k \in 1 .. n |-> x.reg[p.uses[k]]]
<1>1. p.uses \in Seq(General) /\ n \in Nat
  BY LenProperties DEF Procedure
<1>2. x.reg \in [Registers -> Int]
  BY DEF Safe, Machine
<1>3. \A k \in 1 .. n : x.reg[p.uses[k]] \in Int
  BY <1>1, <1>2, ElementOfSeq DEF Registers
<1> HIDE DEF n
<1>4. saved \in Seq(Int)
  BY <1>1, <1>3, IsASeq
<1> HIDE DEF saved
<1>5. <<token>> \in Seq(Int)
  OBVIOUS
<1> QED
  BY <1>4, <1>5, ConcatProperties DEF saved, n

LEMMA WriteCallFrameSafe ==
  ASSUME NEW STATE x, Safe(x), NEW STATE token, token \in Int, NEW STATE p, p \in Procedure
  PROVE  Safe(WriteCallFrame(x, token, p).m)
<1> DEFINE s == <<token>> \o [k \in 1 .. Len(p.uses) |-> x.reg[p.uses[k]]]
           y == PushWords(x, s)
           f == [start |-> p.start, regs |-> p.uses]
           u == Append(x.uses, f)
           z == IF p.uses = <<>> THEN y ELSE [y EXCEPT !.uses = Append(@, f)]
           room == ~(p.uses # <<>> /\ Len(x.uses) >= FrameCapacity)
<1>1. Safe(y) /\ y.uses = x.uses
  BY CallWords, PushWordsSafe
<1> HIDE DEF s
<1>2. f \in UsesFrame /\ x.uses \in Seq(UsesFrame)
  BY DEF UsesFrame, Procedure, Safe, Machine
<1> HIDE DEF f
<1>3. ASSUME room PROVE Safe(z)
  <2>1. CASE p.uses = <<>>
    BY <1>1, <2>1
  <2>2. CASE p.uses # <<>>
    <3>1. u \in Seq(UsesFrame) /\ Len(u) = Len(x.uses) + 1
      BY <1>2, AppendProperties
    <3>2. Len(u) <= FrameCapacity
      <4>1. Len(x.uses) < FrameCapacity /\ Len(x.uses) \in Nat
        BY <1>2, <1>3, <2>2, LenProperties, Numbers
      <4> QED
        BY <3>1, <4>1, Numbers
    <3>3. z = [y EXCEPT !.uses = u]
      <4>1. y \in Machine
        BY <1>1 DEF Safe
      <4> HIDE DEF y
      <4> QED
        BY <1>1, <2>2, <4>1 DEF Machine
    <3> HIDE DEF u, y
    <3>4. Safe([y EXCEPT !.uses = u])
      BY <1>1, <3>1, <3>2, UsesOnly
    <3> HIDE DEF z
    <3> QED
      BY <3>3, <3>4
  <2> QED
    BY <2>1, <2>2
<1>4. \/ WriteCallFrame(x, token, p).m = x
      \/ WriteCallFrame(x, token, p).m = y
      \/ room /\ WriteCallFrame(x, token, p).m = z
      \/ room /\ WriteCallFrame(x, token, p) = SetupLocalFrame(z, p)
  BY DEF WriteCallFrame, Ok, Err, s, f
<1>5. room => Safe(SetupLocalFrame(z, p).m)
  BY <1>3, SetupSafe
<1> QED
  BY <1>1, <1>3, <1>4, <1>5

LEMMA TargetsTyped ==
  ASSUME Loaded, ip < Count
  PROVE  /\ Count \in Nat /\ TokenBase + Instr.src.disp \in Int
         /\ \A i \in 0 .. Count - 1 : i \in Nat /\ Callee(i) \in Procedure
<1>1. Count \in Nat
  BY LenProperties DEF Loaded, Image, Count
<1>2. TokenBase + Instr.src.disp \in Int
  BY OperandsTyped, Numbers
<1>3. \A i \in 0 .. Count - 1 : i \in Nat
  BY <1>1
<1> QED
  BY <1>1, <1>2, <1>3, CalleeTyped

LEMMA CallOutcomeSafe ==
  ASSUME NEW STATE x, Safe(x), Loaded, ip < Count
  PROVE  Safe(CallOutcome(x).m)
<1> DEFINE token == TokenBase + Instr.src.disp
           i == Instr.dst.disp
<1>1. \/ CallOutcome(x).m = x
      \/ i \in 0 .. Count - 1 /\ CallOutcome(x) = WriteCallFrame(x, token, Callee(i))
  BY DEF CallOutcome, Err
<1>2. i \in 0 .. Count - 1 => Safe(WriteCallFrame(x, token, Callee(i)).m)
  BY TargetsTyped, WriteCallFrameSafe
<1> QED
  BY <1>1, <1>2

LEMMA CommitOutcomeSafe ==
  ASSUME NEW STATE x, Safe(x), Loaded, ip < Count
  PROVE  Safe(CommitOutcome(x).m)
<1> DEFINE token == TokenBase + Instr.src.disp
           i == Instr.dst.disp
           n == Instr.args
           s == [k \in 1 .. n |-> pending[n - k]]
           ready == i \in 0 .. Count - 1 /\ n \in Nat /\ 0 .. n - 1 \subseteq DOMAIN pending
<1>1. \/ CommitOutcome(x).m = x
      \/ ready /\ CommitOutcome(x) = WriteCallFrame(PushWords(x, s), token, Callee(i))
  BY OperandsTyped DEF CommitOutcome, Err
<1>2. ASSUME ready PROVE Safe(WriteCallFrame(PushWords(x, s), token, Callee(i)).m)
  <2>1. \A k \in 1 .. n : pending[n - k] \in Int
    <3>1. n \in Nat /\ 0 .. n - 1 \subseteq DOMAIN pending
      BY <1>2
    <3>2. \A k \in 1 .. n : n - k \in 0 .. n - 1
      BY <3>1
    <3> QED
      BY <3>1, <3>2 DEF Loaded
  <2>2. s \in Seq(Int)
    BY <1>2, <2>1, IsASeq
  <2> HIDE DEF s
  <2>3. Safe(PushWords(x, s))
    BY <2>2, PushWordsSafe
  <2> QED
    BY <1>2, <2>3, TargetsTyped, WriteCallFrameSafe
<1> QED
  BY <1>1, <1>2

LEMMA RootRetOutcomeSafe ==
  ASSUME NEW STATE x, Safe(x)
  PROVE  Safe(RootRetOutcome(x).m)
BY ReleaseHereSafe DEF RootRetOutcome, Err

\* RET changes registers and drops one USES frame.
LEMMA HelperRetOutcomeSafe ==
  ASSUME NEW STATE x, Safe(x), Loaded, ip < Count
  PROVE  Safe(HelperRetOutcome(x).m)
<1> DEFINE y == ReleaseHere(x).m
           regs == RestoredBy(y)
           n == Len(regs)
           esp == y.reg["esp"]
           token == esp + n
           final == token + 1 + Instr.src.disp
           Restored(q) == \E k \in 1 .. n : regs[k] = q
           SavedWord(q) == esp + n - CHOOSE k \in 1 .. n : regs[k] = q
           r == [q \in Registers |-> IF q = "esp" THEN final
                   ELSE IF Restored(q) THEN y.mem[SavedWord(q)] ELSE y.reg[q]]
           u == IF n = 0 THEN y.uses ELSE Front(y.uses)
           z == [y EXCEPT !.reg = r, !.uses = IF n = 0 THEN @ ELSE Front(@)]
           mapped == esp .. token - 1 \subseteq Mapped
<1>1. Safe(y)
  BY ReleaseHereSafe
<1>2. HelperRetOutcome(x).m = y \/ (mapped /\ HelperRetOutcome(x).m = z)
  BY DEF HelperRetOutcome, Ok, Err
<1> HIDE DEF y
<1>3. y \in Machine /\ esp \in Int /\ y.uses \in Seq(UsesFrame) /\ y.mem \in [Mapped -> Int]
      /\ y.reg \in [Registers -> Int] /\ Len(y.uses) <= FrameCapacity
  BY <1>1, Numbers DEF Safe, Machine
<1>4. n \in Nat /\ (n # 0 => y.uses # <<>>)
  <2>1. CASE \E p \in Owner(ip) : TopUsesOf(y, p)
    <3>1. y.uses # <<>> /\ regs = Last(y.uses).regs
      BY <2>1 DEF TopUsesOf, RestoredBy
    <3>2. Last(y.uses) \in UsesFrame
      BY <1>3, <3>1, FrontOf
    <3>3. regs \in Seq(General)
      BY <3>1, <3>2 DEF UsesFrame
    <3> QED
      BY <3>1, <3>3, LenProperties
  <2>2. CASE ~\E p \in Owner(ip) : TopUsesOf(y, p)
    BY <2>2, EmptySeq DEF RestoredBy
  <2> QED
    BY <2>1, <2>2
<1> HIDE DEF regs
<1>5. ASSUME mapped PROVE r \in [Registers -> Int]
  <2>1. final \in Int
    <3>1. Instr.src.disp \in Int
      BY OperandsTyped
    <3> QED
      BY <1>3, <1>4, <3>1
  <2>2. ASSUME NEW q \in Registers, Restored(q) PROVE y.mem[SavedWord(q)] \in Int
    <3> DEFINE k == CHOOSE k \in 1 .. n : regs[k] = q
    <3>1. k \in 1 .. n
      BY <2>2
    <3> HIDE DEF k
    <3>2. esp + n - k \in esp .. token - 1
      BY <1>3, <1>4, <3>1
    <3>3. esp + n - k \in Mapped
      BY <1>5, <3>2
    <3>4. y.mem[esp + n - k] \in Int
      BY <1>3, <3>3
    <3> QED
      BY <3>4 DEF k
  <2>3. ASSUME NEW q \in Registers PROVE y.reg[q] \in Int
    BY <1>3
  <2> QED
    BY <2>1, <2>2, <2>3
<1>6. u \in Seq(UsesFrame) /\ Len(u) <= FrameCapacity
  <2>1. CASE n = 0
    BY <1>3, <2>1
  <2>2. CASE n # 0
    <3>1. Front(y.uses) \in Seq(UsesFrame) /\ Len(Front(y.uses)) = Len(y.uses) - 1 /\ Len(y.uses) \in Nat
      BY <1>3, <1>4, <2>2, FrontOf
    <3>2. Len(Front(y.uses)) <= FrameCapacity
      BY <1>3, <3>1, Numbers
    <3> QED
      BY <2>2, <3>1, <3>2
  <2> QED
    BY <2>1, <2>2
<1>7. ASSUME mapped PROVE Safe(z)
  <2>1. r \in [Registers -> Int]
    BY <1>5, <1>7
  <2>2. z = [[y EXCEPT !.reg = r, !.mem = y.mem] EXCEPT !.uses = u]
    <3> HIDE DEF r
    <3>1. DOMAIN y = {"reg", "mem", "uses", "locals", "descriptors"}
      BY <1>3 DEF Machine
    <3> QED
      BY <3>1, <1>3 DEF Machine
  <2> HIDE DEF r, u, z
  <2>3. Safe([y EXCEPT !.reg = r, !.mem = y.mem])
    BY <1>1, <1>3, <2>1, SafeUpdate
  <2> QED
    BY <1>6, <2>2, <2>3, UsesOnly
<1> QED
  BY <1>1, <1>2, <1>7

-----------------------------------------------------------------------------
(* Steps. *)

Others ==
  /\ count \in Nat /\ helpers \in Nat /\ depth \in Nat
  /\ halted \in BOOLEAN /\ rootStream \in BOOLEAN /\ eligible \in BOOLEAN
  /\ entryFrame \in BOOLEAN /\ fell \in BOOLEAN

FramesInv == Loaded /\ Safe(m) /\ Others

LEMMA SafeNext ==
  ASSUME NEW STATE x, Safe(x), m' = x
  PROVE  Safe(m)'
BY DEF Safe, InStack

LEMMA RefuseInv ==
  ASSUME FramesInv, NEW STATE o, Refuse(o), Safe(o.m)
  PROVE  FramesInv'
<1>1. Safe(m)'
  BY SafeNext DEF Refuse
<1>2. Loaded'
  BY DEF FramesInv, Loaded, Refuse, run
<1>3. Others'
  BY DEF FramesInv, Others, Refuse, RootStream, EntryFrameNow
<1> QED
  BY <1>1, <1>2, <1>3 DEF FramesInv

LEMMA RetireInv ==
  ASSUME FramesInv, NEW STATE x, Safe(x), NEW STATE next, next \in Nat, NEW taken, NEW halts \in BOOLEAN,
         Retire(x, next, taken, halts), helpers' \in Nat, depth' \in Nat,
         DOMAIN pending' \subseteq Int, \A k \in DOMAIN pending' : pending'[k] \in Int
  PROVE  FramesInv'
<1>1. Safe(m)'
  BY SafeNext DEF Retire
<1>2. Loaded'
  BY DEF FramesInv, Loaded, Retire, run
<1>3. count' \in Nat
  BY DEF FramesInv, Others, Retire
<1>4. /\ halted' \in BOOLEAN /\ rootStream' \in BOOLEAN /\ eligible' \in BOOLEAN
      /\ entryFrame' \in BOOLEAN /\ fell' \in BOOLEAN
  BY DEF Retire, RootStream, EntryFrameNow
<1> QED
  BY <1>1, <1>2, <1>3, <1>4 DEF FramesInv, Others

LEMMA InvFacts ==
  ASSUME FramesInv
  PROVE  /\ Loaded /\ Safe(Entered.m) /\ ip + 1 \in Nat /\ helpers \in Nat /\ depth \in Nat
         /\ DOMAIN pending \subseteq Int /\ \A k \in DOMAIN pending : pending[k] \in Int
BY EnteredSafe DEF FramesInv, Others, Loaded

LEMMA FetchFacts ==
  ASSUME NEW op, Fetch(op)
  PROVE  ip < Count /\ Instr.op = op
BY DEF Fetch, MayFetch

LEMMA PlainInv ==
  ASSUME FramesInv, NEW STATE o, Safe(o.m), Plain(o)
  PROVE  FramesInv'
<1>1. CASE Refuse(o)
  BY <1>1, RefuseInv
<1>2. CASE UNCHANGED <<helpers, depth, pending>> /\ Retire(o.m, ip + 1, FALSE, FALSE)
  BY <1>2, InvFacts, RetireInv
<1> QED
  BY <1>1, <1>2 DEF Plain

LEMMA PlainStepsInv ==
  ASSUME FramesInv, Nop \/ Mov \/ Add \/ Push \/ Pop \/ Leave
  PROVE  FramesInv'
<1> DEFINE x == Entered.m
<1>1. Loaded /\ Safe(x)
  BY InvFacts
<1>2. ip < Count
  BY FetchFacts DEF Nop, Mov, Add, Push, Pop, Leave
<1> HIDE DEF x
<1>3. /\ Safe(Ok(x).m) /\ Safe(MovOutcome(x).m) /\ Safe(AddOutcome(x).m)
      /\ Safe(PushOutcome(x).m) /\ Safe(PopOutcome(x).m) /\ Safe(LeaveOutcome(x).m)
  BY <1>1, <1>2, MovOutcomeSafe, AddOutcomeSafe, PushOutcomeSafe, PopOutcomeSafe,
     LeaveOutcomeSafe DEF Ok
<1> QED
  BY <1>3, PlainInv DEF Nop, Mov, Add, Push, Pop, Leave, x

\* Transfers land on an instruction of the program.
LEMMA EnterInv ==
  ASSUME FramesInv, NEW STATE x, Safe(x), ip < Count, Instr.dst.disp \in 0 .. Count - 1,
         EnterProcedure(x),
         DOMAIN pending' \subseteq Int, \A k \in DOMAIN pending' : pending'[k] \in Int
  PROVE  FramesInv'
<1>1. Instr.dst.disp \in Nat
  BY InvFacts, TargetsTyped
<1>2. helpers' \in Nat /\ depth' \in Nat
  BY InvFacts DEF EnterProcedure
<1> QED
  BY <1>1, <1>2, RetireInv DEF EnterProcedure

LEMMA CallInv ==
  ASSUME FramesInv, Call
  PROVE  FramesInv'
<1> DEFINE o == CallOutcome(Entered.m)
<1>1. ip < Count
  BY FetchFacts DEF Call
<1>2. Safe(o.m)
  BY <1>1, InvFacts, CallOutcomeSafe
<1>3. CASE Refuse(o)
  BY <1>2, <1>3, RefuseInv
<1>4. CASE o.status = "ok" /\ EnterProcedure(o.m) /\ UNCHANGED pending
  <2>1. Instr.dst.disp \in 0 .. Count - 1
    BY <1>4 DEF CallOutcome, Err
  <2> HIDE DEF o
  <2> QED
    BY <1>1, <1>2, <1>4, <2>1, InvFacts, EnterInv
<1> QED
  BY <1>3, <1>4 DEF Call

LEMMA CommitInv ==
  ASSUME FramesInv, InvokeCommit
  PROVE  FramesInv'
<1> DEFINE o == CommitOutcome(Entered.m)
<1>1. ip < Count
  BY FetchFacts DEF InvokeCommit
<1>2. Safe(o.m)
  BY <1>1, InvFacts, CommitOutcomeSafe
<1>3. CASE Refuse(o)
  BY <1>2, <1>3, RefuseInv
<1>4. CASE o.status = "ok" /\ EnterProcedure(o.m) /\ pending' = [k \in {} |-> 0]
  <2>1. Instr.dst.disp \in 0 .. Count - 1
    BY <1>4 DEF CommitOutcome, Err
  <2> HIDE DEF o
  <2>2. DOMAIN pending' \subseteq Int /\ \A k \in DOMAIN pending' : pending'[k] \in Int
    BY <1>4
  <2> QED
    BY <1>1, <1>2, <1>4, <2>1, <2>2, EnterInv
<1> QED
  BY <1>3, <1>4 DEF InvokeCommit

LEMMA CaptureInv ==
  ASSUME FramesInv, InvokeCapture
  PROVE  FramesInv'
<1> DEFINE x == Entered.m
           i == Instr.dst.disp
           fault == IF i \notin 0 .. ArgumentCapacity - 1 THEN "invalid-argument"
                                                          ELSE ArgumentFault(Instr.src, x)
<1>1. ip < Count
  BY FetchFacts DEF InvokeCapture
<1>2. Safe(x) /\ Safe(Err(fault, x).m)
  BY InvFacts DEF Err
<1>3. CASE Refuse(Err(fault, x))
  <2> HIDE DEF fault, x
  <2> QED
    BY <1>2, <1>3, RefuseInv
<1>4. CASE /\ fault = "ok"
           /\ pending' = [k \in DOMAIN pending \cup {i} |->
                            IF k = i THEN Value(Instr.src, x) ELSE pending[k]]
           /\ UNCHANGED <<helpers, depth>>
           /\ Retire(x, ip + 1, FALSE, FALSE)
  <2>1. ArgumentFault(Instr.src, x) = "ok" /\ i \in Int /\ Instr.src \in Operand
    BY <1>1, <1>4, InvFacts, OperandsTyped
  <2>2. Value(Instr.src, x) \in Int
    BY <1>2, <2>1, ValueInt
  <2> HIDE DEF x
  <2>3. DOMAIN pending' \subseteq Int /\ \A k \in DOMAIN pending' : pending'[k] \in Int
    BY <1>4, <2>1, <2>2, InvFacts
  <2> QED
    BY <1>2, <1>4, <2>3, InvFacts, RetireInv
<1> QED
  BY <1>3, <1>4 DEF InvokeCapture

LEMMA RootRetInv ==
  ASSUME FramesInv, RootRet
  PROVE  FramesInv'
<1> DEFINE o == RootRetOutcome(Entered.m)
<1>1. Safe(o.m) /\ ip \in Nat
  BY InvFacts, RootRetOutcomeSafe DEF Loaded
<1> HIDE DEF o
<1>2. CASE Refuse(o)
  BY <1>1, <1>2, RefuseInv
<1>3. CASE UNCHANGED <<helpers, depth, pending>> /\ Retire(o.m, ip, FALSE, TRUE)
  BY <1>1, <1>3, InvFacts, RetireInv
<1> QED
  BY <1>2, <1>3 DEF RootRet, o

LEMMA HelperRetInv ==
  ASSUME FramesInv, HelperRet
  PROVE  FramesInv'
<1> DEFINE x == Entered.m
           o == HelperRetOutcome(x)
<1>1. ip < Count
  BY FetchFacts DEF HelperRet
<1>2. Safe(o.m)
  BY <1>1, InvFacts, HelperRetOutcomeSafe
<1>3. CASE Refuse(o)
  BY <1>2, <1>3, RefuseInv
<1>4. CASE /\ o.status = "ok" /\ helpers' = Dec(helpers) /\ depth' = Dec(depth)
           /\ UNCHANGED pending /\ Retire(o.m, ReturnIndex(x), FALSE, FALSE)
  <2> HIDE DEF x
  <2>1. ReturnIndex(x) \in 0 .. Count - 1
    BY <1>4 DEF HelperRetOutcome, ReturnIndex, Err
  <2>2. ReturnIndex(x) \in Nat
    BY <1>1, <2>1, InvFacts, TargetsTyped
  <2>3. helpers' \in Nat /\ depth' \in Nat
    BY <1>4, InvFacts DEF Dec
  <2> HIDE DEF o
  <2> QED
    BY <1>2, <1>4, <2>2, <2>3, InvFacts, RetireInv
<1> QED
  BY <1>3, <1>4 DEF HelperRet

LEMMA JumpInv ==
  ASSUME FramesInv, Jmp \/ Jcc
  PROVE  FramesInv'
<1>1. PICK taken \in BOOLEAN : Jump(taken)
  BY DEF Jmp, Jcc
<1>2. ip < Count
  BY FetchFacts DEF Jmp, Jcc
<1> DEFINE o == Err("invalid-branch-target", Entered.m)
<1>3. Safe(Entered.m) /\ Safe(o.m)
  BY InvFacts DEF Err
<1>4. CASE Refuse(o)
  <2> HIDE DEF o
  <2> QED
    BY <1>3, <1>4, RefuseInv
<1>5. CASE /\ Instr.dst.disp \in 0 .. Count - 1
           /\ UNCHANGED <<helpers, depth, pending>>
           /\ Retire(Entered.m, IF taken THEN Instr.dst.disp ELSE ip + 1, taken, FALSE)
  <2> DEFINE next == IF taken THEN Instr.dst.disp ELSE ip + 1
  <2>1. next \in Nat
    BY <1>2, <1>5, InvFacts, TargetsTyped
  <2> HIDE DEF next
  <2>2. Retire(Entered.m, next, taken, FALSE)
    BY <1>5 DEF next
  <2> QED
    BY <1>3, <1>5, <2>1, <2>2, InvFacts, RetireInv
<1> QED
  BY <1>1, <1>4, <1>5 DEF Jump

LEMMA ExitInv ==
  ASSUME FramesInv, Exit
  PROVE  FramesInv'
<1> DEFINE o == ReleaseHere(Entered.m)
<1>1. Safe(o.m)
  BY InvFacts, ReleaseHereSafe
<1> HIDE DEF o
<1>2. CASE Refuse(o)
  BY <1>1, <1>2, RefuseInv
<1>3. CASE UNCHANGED <<helpers, depth, pending>> /\ Retire(o.m, ip + 1, FALSE, TRUE)
  BY <1>1, <1>3, InvFacts, RetireInv
<1> QED
  BY <1>2, <1>3 DEF Exit, o

LEMMA StopInv ==
  ASSUME FramesInv, StopAtEntryEnd \/ CodeFellOffEnd \/ LimitExceeded \/ UNCHANGED vars
  PROVE  FramesInv'
<1>1. UNCHANGED <<run, m, ip, count, helpers, depth, rootStream, eligible, entryFrame, pending>>
  BY DEF StopAtEntryEnd, CodeFellOffEnd, LimitExceeded, vars, run
<1>2. halted' \in BOOLEAN /\ fell' \in BOOLEAN
  BY DEF FramesInv, Others, StopAtEntryEnd, CodeFellOffEnd, LimitExceeded, vars
<1>3. Safe(m)'
  BY <1>1, SafeNext DEF FramesInv
<1> QED
  BY <1>1, <1>2, <1>3 DEF FramesInv, Loaded, Others, run

LEMMA StepInv == FramesInv /\ [Next]_vars => FramesInv'
<1> SUFFICES ASSUME FramesInv, [Next]_vars PROVE FramesInv'
  OBVIOUS
<1>1. CASE Nop \/ Mov \/ Add \/ Push \/ Pop \/ Leave
  BY <1>1, PlainStepsInv
<1>2. CASE Call
  BY <1>2, CallInv
<1>3. CASE InvokeCapture
  BY <1>3, CaptureInv
<1>4. CASE InvokeCommit
  BY <1>4, CommitInv
<1>5. CASE RootRet
  BY <1>5, RootRetInv
<1>6. CASE HelperRet
  BY <1>6, HelperRetInv
<1>7. CASE Jmp \/ Jcc
  BY <1>7, JumpInv
<1>8. CASE Exit
  BY <1>8, ExitInv
<1>9. CASE EntryRefused
  BY <1>9, InvFacts, RefuseInv DEF EntryRefused
<1>10. CASE StopAtEntryEnd \/ CodeFellOffEnd \/ LimitExceeded \/ UNCHANGED vars
  BY <1>10, StopInv
<1> QED
  BY <1>1, <1>2, <1>3, <1>4, <1>5, <1>6, <1>7, <1>8, <1>9, <1>10 DEF Next, Step, Finished

LEMMA InitInv == Init => FramesInv
<1> SUFFICES ASSUME Init PROVE FramesInv
  OBVIOUS
<1>1. image \in Image /\ settings \in Settings
  BY InputsAssumption DEF Init
<1>2. PICK r \in StartRegisters :
        m = [reg |-> r, mem |-> [a \in Mapped |-> 0], uses |-> <<>>, locals |-> <<>>,
             descriptors |-> 0]
  BY DEF Init
<1>3. r \in [Registers -> Int]
  BY InputsAssumption
<1>4. m \in Machine
  BY <1>2, <1>3, EmptySeq DEF Machine
<1>5. Safe(m)
  BY <1>2, <1>4, EmptySeq, HeldOfNone, Numbers DEF Safe
<1>6. ip \in Nat
  <2>1. PICK k \in DOMAIN image.procs : image.procs[k].entry
    BY <1>1 DEF Image
  <2>2. EntryProc \in ProcSet
    BY <2>1 DEF EntryProc, ProcSet
  <2>3. image.procs \in Seq(Procedure)
    BY <1>1 DEF Image
  <2>4. \A j \in DOMAIN image.procs : image.procs[j] \in Procedure
    BY <2>3
  <2>5. EntryProc \in Procedure
    BY <2>2, <2>4 DEF ProcSet
  <2> QED
    BY <2>5 DEF Init, Procedure
<1>7. DOMAIN pending \subseteq Int /\ \A k \in DOMAIN pending : pending[k] \in Int
  BY DEF Init
<1> QED
  BY <1>1, <1>5, <1>6, <1>7 DEF Init, FramesInv, Loaded, Others

LEMMA AlwaysFrames == Spec => []FramesInv
BY InitInv, StepInv, PTL DEF Spec

\* The procedure machine keeps its types, whatever it runs.
THEOREM TypeCorrect == Spec => []TypeOK
<1>1. FramesInv => TypeOK
  BY DEF FramesInv, Loaded, Safe, Others, TypeOK
<1> QED
  BY <1>1, AlwaysFrames, PTL

\* The descriptors in use are those of the frames on the local stack, whatever
\* the program calls, returns from, abandons or is refused.
THEOREM DescriptorsAccounted == Spec => []DescriptorsMatchFrames
<1>1. FramesInv => DescriptorsMatchFrames
  BY DEF FramesInv, Safe, DescriptorsMatchFrames
<1> QED
  BY <1>1, AlwaysFrames, PTL

\* No program writes past the end of a frame or descriptor array.
THEOREM FrameArraysBounded == Spec => []FrameArraysWithinCapacity
<1>1. FramesInv => FrameArraysWithinCapacity
  BY DEF FramesInv, Safe, FrameArraysWithinCapacity
<1> QED
  BY <1>1, AlwaysFrames, PTL

\* Every retained LOCAL frame lies in the stack region.
THEOREM LocalFramesBounded == Spec => []LocalFramesInsideStack
<1>1. FramesInv => LocalFramesInsideStack
  BY DEF FramesInv, Safe, InStack, LocalFramesInsideStack
<1> QED
  BY <1>1, AlwaysFrames, PTL


-----------------------------------------------------------------------------
(* The call depth and the root code stream. *)

\* The call depth, the helper count and the root flag, taken together.
Control ==
  /\ helpers \in Nat /\ settings.depthLimit \in Nat
  /\ depth = helpers /\ depth <= settings.depthLimit
  /\ rootStream => helpers = 0

\* The root flag the epilogue leaves is never newly set.
LEMMA RetireControl ==
  ASSUME NEW STATE x, NEW STATE next, NEW STATE taken, NEW STATE halts, Retire(x, next, taken, halts)
  PROVE  /\ settings' = settings
         /\ rootStream' => RootStream /\ Instr.op \notin {"call", "commit"}
BY DEF Retire, run

\* A refused step and a step that keeps the counters keep Control.
LEMMA SameCounters ==
  ASSUME Control, helpers' = helpers, depth' = depth, settings' = settings,
         rootStream' => RootStream
  PROVE  Control'
BY DEF Control, RootStream

LEMMA RefuseControl ==
  ASSUME Control, NEW STATE o, Refuse(o)
  PROVE  Control'
BY SameCounters DEF Refuse, run

LEMMA PlainControl ==
  ASSUME Control, NEW STATE o, Plain(o)
  PROVE  Control'
BY RefuseControl, RetireControl, SameCounters DEF Plain

\* Entering a procedure: the depth was checked, and the root flag is cleared.
LEMMA EnterControl ==
  ASSUME Control, NEW STATE x, EnterProcedure(x), MayCallDeeper, Instr.op \in {"call", "commit"}
  PROVE  Control'
<1>1. settings' = settings /\ ~rootStream'
  BY RetireControl DEF EnterProcedure
<1>2. helpers' = helpers + 1 /\ depth' = depth + 1 /\ depth + 1 <= settings.depthLimit
  BY DEF EnterProcedure, MayCallDeeper
<1> QED
  BY <1>1, <1>2 DEF Control

LEMMA CallControl ==
  ASSUME Control, Call
  PROVE  Control'
<1> DEFINE o == CallOutcome(Entered.m)
<1>1. CASE Refuse(o)
  BY <1>1, RefuseControl
<1>2. CASE o.status = "ok" /\ EnterProcedure(o.m)
  <2>1. MayCallDeeper
    BY <1>2 DEF CallOutcome, Err
  <2> QED
    BY <1>2, <2>1, EnterControl DEF Call, Fetch
<1> QED
  BY <1>1, <1>2 DEF Call

LEMMA CommitControl ==
  ASSUME Control, InvokeCommit
  PROVE  Control'
<1> DEFINE o == CommitOutcome(Entered.m)
<1>1. CASE Refuse(o)
  BY <1>1, RefuseControl
<1>2. CASE o.status = "ok" /\ EnterProcedure(o.m)
  <2>1. MayCallDeeper
    BY <1>2 DEF CommitOutcome, Err
  <2> QED
    BY <1>2, <2>1, EnterControl DEF InvokeCommit, Fetch
<1> QED
  BY <1>1, <1>2 DEF InvokeCommit

LEMMA HelperRetControl ==
  ASSUME Control, HelperRet
  PROVE  Control'
<1> DEFINE o == HelperRetOutcome(Entered.m)
<1>1. CASE Refuse(o)
  BY <1>1, RefuseControl
<1>2. CASE /\ helpers' = Dec(helpers) /\ depth' = Dec(depth)
           /\ Retire(o.m, ReturnIndex(Entered.m), FALSE, FALSE)
  <2>1. settings' = settings /\ (rootStream' => RootStream)
    BY <1>2, RetireControl
  <2>2. rootStream' => helpers = 0
    BY <2>1 DEF RootStream, Control
  <2>3. /\ Dec(helpers) \in Nat /\ Dec(depth) = Dec(helpers)
        /\ Dec(depth) <= settings.depthLimit /\ (helpers = 0 => Dec(helpers) = 0)
    BY DEF Control, Dec
  <2> QED
    BY <1>2, <2>1, <2>2, <2>3 DEF Control
<1> QED
  BY <1>1, <1>2 DEF HelperRet

LEMMA StepControl == Control /\ [Next]_vars => Control'
<1> SUFFICES ASSUME Control, [Next]_vars PROVE Control'
  OBVIOUS
<1>1. CASE Nop \/ Mov \/ Add \/ Push \/ Pop \/ Leave
  BY <1>1, PlainControl DEF Nop, Mov, Add, Push, Pop, Leave
<1>2. CASE Call
  BY <1>2, CallControl
<1>3. CASE InvokeCapture
  BY <1>3, RefuseControl, RetireControl, SameCounters DEF InvokeCapture
<1>4. CASE InvokeCommit
  BY <1>4, CommitControl
<1>5. CASE RootRet
  BY <1>5, RefuseControl, RetireControl, SameCounters DEF RootRet
<1>6. CASE HelperRet
  BY <1>6, HelperRetControl
<1>7. CASE Jmp \/ Jcc
  BY <1>7, RefuseControl, RetireControl, SameCounters DEF Jmp, Jcc, Jump
<1>8. CASE Exit
  BY <1>8, RefuseControl, RetireControl, SameCounters DEF Exit
<1>9. CASE EntryRefused
  BY <1>9, RefuseControl DEF EntryRefused
<1>10. CASE StopAtEntryEnd \/ CodeFellOffEnd \/ LimitExceeded
  BY <1>10, SameCounters DEF StopAtEntryEnd, CodeFellOffEnd, LimitExceeded, run, RootStream
<1>11. CASE UNCHANGED vars
  BY <1>11 DEF vars, Control
<1> QED
  BY <1>1, <1>2, <1>3, <1>4, <1>5, <1>6, <1>7, <1>8, <1>9, <1>10, <1>11 DEF Next, Step, Finished

LEMMA InitControl == Init => Control
<1> SUFFICES ASSUME Init PROVE Control
  OBVIOUS
<1>1. settings.depthLimit \in Nat /\ settings.depthLimit >= 1
  BY InputsAssumption, ConstantsAssumption DEF Init, Setting
<1> QED
  BY <1>1 DEF Init, Control

LEMMA AlwaysControl == Spec => []Control
BY InitControl, StepControl, PTL DEF Spec

\* No run of calls, invokes, returns and jumps gets deeper than the configured limit, and
\* the depth it is compared with is the number of helper returns outstanding.
THEOREM CallDepthBounded == Spec => []CallDepthWithinLimit
<1>1. Control => CallDepthWithinLimit
  BY DEF Control, CallDepthWithinLimit
<1> QED
  BY <1>1, AlwaysControl, PTL

\* The root code stream is never active while a helper return is pending.
THEOREM RootStreamOutsideHelpers == Spec => []RootStreamOnlyWithoutHelpers
<1>1. Control => RootStreamOnlyWithoutHelpers
  BY DEF Control, RootStreamOnlyWithoutHelpers
<1> QED
  BY <1>1, AlwaysControl, PTL

-----------------------------------------------------------------------------
(* Procedure boundaries, and steps that are refused. *)

\* Two procedures next to each other: the instruction is the last of one and the next one
\* belongs to another.
Crossing == /\ settings.fallthrough # "off" /\ ip < Count /\ ip' = ip + 1 /\ ip' < Count
            /\ Instr.op \notin {"jmp", "jcc", "call", "ret", "exit"}
            /\ Owner(ip) # {} /\ Owner(ip') # {} /\ Owner(ip) \cap Owner(ip') = {}

Reported == \/ halted' /\ settings.entryEnd = "stop" /\ ip' = EntryProc.end
            \/ fell' /\ (settings.fallthrough = "error" => halted')

LEMMA CrossingFallsThrough ==
  ASSUME Loaded, Crossing, image' = image
  PROVE  FallsThrough(ip + 1, FALSE, helpers')
<1>1. image' = image
  OBVIOUS
<1>2. /\ ip \in Nat /\ ip + 1 < Count /\ Owner(ip) # {} /\ Owner(ip + 1) # {}
      /\ Owner(ip) \cap Owner(ip + 1) = {}
      /\ Instr.op \notin {"jmp", "jcc", "call", "ret", "exit"}
  BY <1>1 DEF Loaded, Crossing, Owner, ProcSet, Count
<1>3. PICK p \in Owner(ip) : TRUE
  BY <1>2
<1>4. PICK q \in Owner(ip + 1) : TRUE
  BY <1>2
<1>5. p \in Procedure /\ p.start \in Nat /\ p.end \in Nat
  BY OwnersTyped DEF Procedure
<1>6. p \notin Owner(ip + 1) /\ q # p
  BY <1>2, <1>3, <1>4
<1>7. ip + 1 = p.end
  <2>1. p \in ProcSet /\ p.start <= ip /\ ip < p.end
    BY <1>3 DEF Owner, Inside
  <2>2. ~(p.start <= ip + 1 /\ ip + 1 < p.end)
    BY <1>6, <2>1 DEF Owner, Inside
  <2> QED
    BY <1>2, <1>5, <2>1, <2>2
<1>8. Straight(ip + 1, FALSE)
  BY <1>2 DEF Straight
<1> QED
  BY <1>2, <1>3, <1>4, <1>6, <1>7, <1>8 DEF FallsThrough

LEMMA RetireReports ==
  ASSUME Loaded, Crossing, NEW STATE x, NEW STATE next, Retire(x, next, FALSE, FALSE)
  PROVE  Reported
<1> DEFINE stops == ShouldStopAtEntryEnd(next, eligible /\ ~LeavesEntry(next, FALSE), helpers')
           falls == ~stops /\ FallsThrough(next, FALSE, helpers') /\ settings.fallthrough # "off"
           fatal == falls /\ settings.fallthrough = "error"
<1>1. next = ip + 1 /\ ip' = next /\ image' = image
  BY DEF Retire, run, Crossing
<1>2. FallsThrough(next, FALSE, helpers') /\ settings.fallthrough # "off"
  BY <1>1, CrossingFallsThrough DEF Crossing
<1>3. fell' = falls /\ halted' = (FALSE \/ stops \/ fatal)
  BY DEF Retire
<1>4. stops => settings.entryEnd = "stop" /\ next = EntryProc.end
  BY DEF ShouldStopAtEntryEnd
<1> HIDE DEF stops
<1> QED
  BY <1>1, <1>2, <1>3, <1>4 DEF Reported

\* A step that crosses retires straight on.
LEMMA OnlyRetirementCrosses ==
  ASSUME Loaded, Crossing, [Next]_vars
  PROVE  Reported
<1>1. ip \in Nat /\ ip' # ip
  BY DEF Loaded, Crossing
<1>2. ASSUME NEW STATE o, Plain(o)
      PROVE  Reported
  BY <1>1, <1>2, RetireReports DEF Plain, Refuse
<1>3. ASSUME Nop \/ Mov \/ Add \/ Push \/ Pop \/ Leave
      PROVE  Reported
  BY <1>2, <1>3 DEF Nop, Mov, Add, Push, Pop, Leave
<1>4. ASSUME InvokeCapture
      PROVE  Reported
  BY <1>1, <1>4, RetireReports DEF InvokeCapture, Refuse
<1>5. ASSUME InvokeCommit
      PROVE  Reported
  BY <1>1, <1>5, RetireReports DEF InvokeCommit, EnterProcedure, Refuse
<1>6. ASSUME Call \/ RootRet \/ HelperRet \/ Jmp \/ Jcc \/ Exit
      PROVE  FALSE
  BY <1>6 DEF Call, RootRet, HelperRet, Jmp, Jcc, Exit, Fetch, Crossing
<1>7. ASSUME EntryRefused \/ StopAtEntryEnd \/ CodeFellOffEnd \/ LimitExceeded \/ Finished
               \/ UNCHANGED vars
      PROVE  FALSE
  BY <1>1, <1>7 DEF EntryRefused, Refuse, StopAtEntryEnd, CodeFellOffEnd, LimitExceeded, Finished,
                    vars
<1> QED
  BY <1>3, <1>4, <1>5, <1>6, <1>7 DEF Next, Step

\* Straight movement between two procedures is reported, and stops the run under the error
\* policy, for every program, every setting and every LOCAL, USES and call depth.
THEOREM CrossingsReported == Spec => CrossingIsReported
<1>1. FramesInv /\ [Next]_vars => [Crossing => Reported]_vars
  BY OnlyRetirementCrosses DEF FramesInv
<1>2. CrossingIsReported <=> [][Crossing => Reported]_vars
  BY DEF CrossingIsReported, Crossing, Reported
<1> QED
  BY <1>1, <1>2, AlwaysFrames, PTL DEF Spec

-----------------------------------------------------------------------------
(* The end of the selected entry.  The epilogue takes the flag from a run  *)
(* that leaves the entry by a CALL, a RET or a branch; an INVOKE leaves it *)
(* when its target lies elsewhere.                                         *)

EntryOf(g) == CHOOSE p \in {g.procs[k] : k \in DOMAIN g.procs} : p.entry

\* No INVOKE of the entry procedure commits to the entry itself or to what starts at its
\* ENDP: such a commit counts as straight movement and keeps the flag.
InvokesLeave(g) ==
  \A i \in DOMAIN g.code :
    (g.code[i].op = "commit" /\ Inside(EntryOf(g), i - 1))
      => g.code[i].dst.disp \notin EntryOf(g).start .. EntryOf(g).end

EntryKept ==
  /\ InvokesLeave(image)
  /\ (settings.entryEnd = "stop" /\ eligible /\ Running)
       => helpers = 0 /\ (InEntry(ip) \/ ip = EntryProc.start)

LEMMA EntryTyped ==
  ASSUME Loaded
  PROVE  EntryProc.start \in Nat /\ EntryProc.end \in Nat /\ EntryProc = EntryOf(image)
<1>1. PICK k \in DOMAIN image.procs : image.procs[k].entry
  BY DEF Loaded, Image
<1>2. EntryProc \in ProcSet
  BY <1>1 DEF EntryProc, ProcSet
<1> QED
  BY <1>2, ProcsTyped DEF Procedure, EntryOf, EntryProc, ProcSet

\* An eligible run that fetches is inside the entry: at the ENDP it would have stopped.
LEMMA FetchInsideEntry ==
  ASSUME Loaded, EntryKept, settings.entryEnd = "stop", eligible, MayFetch
  PROVE  helpers = 0 /\ InEntry(ip)
<1>1. helpers = 0 /\ (InEntry(ip) \/ ip = EntryProc.start)
  BY DEF EntryKept, MayFetch, MayStep
<1>2. ip # EntryProc.end
  BY <1>1 DEF MayFetch, ShouldStopAtEntryEnd
<1>3. EntryProc.start <= EntryProc.end
  <2>1. PICK k \in DOMAIN image.procs : image.procs[k].entry
    BY DEF Loaded, Image
  <2>2. EntryProc \in ProcSet
    BY <2>1 DEF EntryProc, ProcSet
  <2> QED
    BY <2>2 DEF ProcSet, Loaded, Image
<1> QED
  BY <1>1, <1>2, <1>3, EntryTyped DEF InEntry, Inside

\* Retiring keeps the entry when the counters are kept or the flag is taken.
LEMMA RetireKeepsEntry ==
  ASSUME Loaded, EntryKept, MayFetch, NEW STATE x, NEW STATE next, NEW taken, NEW halts,
         Retire(x, next, taken, halts),
         InEntry(ip) => helpers' = helpers \/ LeavesEntry(next, taken)
  PROVE  EntryKept'
<1>1. image' = image /\ settings' = settings /\ ip' = next
  BY DEF Retire, run
<1>2. InvokesLeave(image)'
  BY <1>1 DEF EntryKept
<1>3. EntryProc' = EntryProc
  BY <1>1 DEF EntryProc, ProcSet
<1>4. ASSUME settings.entryEnd = "stop", eligible', Running'
      PROVE  helpers' = 0 /\ Inside(EntryProc, next)
  <2>1. eligible /\ ~LeavesEntry(next, taken)
    BY <1>4 DEF Retire
  <2>2. helpers = 0 /\ InEntry(ip)
    BY <1>4, <2>1, FetchInsideEntry
  <2>3. helpers' = 0
    BY <2>1, <2>2
  <2>4. CASE Straight(next, taken)
    <3>1. next = ip + 1 /\ ip \in Nat
      BY <2>4 DEF Straight, Loaded
    <3>2. ~ShouldStopAtEntryEnd(next, eligible /\ ~LeavesEntry(next, taken), helpers')
      BY <1>4 DEF Retire, Running
    <3>3. next # EntryProc.end
      BY <1>4, <2>1, <2>3, <3>2 DEF ShouldStopAtEntryEnd
    <3> QED
      BY <2>2, <2>3, <3>1, <3>3, EntryTyped DEF InEntry, Inside
  <2>5. CASE ~Straight(next, taken)
    BY <2>1, <2>2, <2>3, <2>5 DEF LeavesEntry, InEntry
  <2> QED
    BY <2>4, <2>5
<1> QED
  BY <1>1, <1>2, <1>3, <1>4 DEF EntryKept, InEntry

\* A run that is over owes nothing.
LEMMA OverKeepsEntry ==
  ASSUME EntryKept, image' = image, ~Running'
  PROVE  EntryKept'
BY DEF EntryKept

LEMMA RefuseKeepsEntry ==
  ASSUME EntryKept, NEW STATE o, Refuse(o)
  PROVE  EntryKept'
BY OverKeepsEntry DEF Refuse, run, Running

LEMMA HaltingKeepsEntry ==
  ASSUME EntryKept, NEW STATE x, NEW STATE next, NEW taken, Retire(x, next, taken, TRUE)
  PROVE  EntryKept'
BY OverKeepsEntry DEF Retire, run, Running

LEMMA CommitLeaves ==
  ASSUME Loaded, EntryKept, ip < Count, InEntry(ip), Instr.op = "commit"
  PROVE  LeavesEntry(Instr.dst.disp, FALSE)
<1>1. ip + 1 \in DOMAIN image.code /\ (ip + 1) - 1 = ip /\ ip \in Nat
  BY DEF Loaded, Image, Count
<1>2. EntryProc = EntryOf(image) /\ EntryProc.start \in Nat /\ EntryProc.end \in Nat
  BY EntryTyped
<1>3. Inside(EntryOf(image), ip)
  BY <1>2 DEF InEntry
<1>4. Instr.dst.disp \notin EntryProc.start .. EntryProc.end
  BY <1>1, <1>2, <1>3 DEF EntryKept, InvokesLeave, Instr
<1>5. ip + 1 \in EntryProc.start .. EntryProc.end
  BY <1>1, <1>2 DEF InEntry, Inside
<1>6. Instr.dst.disp # ip + 1
  BY <1>4, <1>5
<1>7. Instr.dst.disp \in Int
  BY InstrTyped DEF Instruction, Operand
<1> QED
  BY <1>2, <1>4, <1>6, <1>7 DEF LeavesEntry, Straight, InEntry, Inside

LEMMA StepKeepsEntry ==
  ASSUME Loaded, EntryKept, [Next]_vars
  PROVE  EntryKept'
<1>1. ASSUME NEW op, Fetch(op)
      PROVE  MayFetch /\ ip < Count /\ Instr.op = op
  BY <1>1 DEF Fetch, MayFetch
<1>2. ASSUME NEW STATE o, Plain(o), MayFetch
      PROVE  EntryKept'
  BY <1>2, RefuseKeepsEntry, RetireKeepsEntry DEF Plain
<1>3. CASE Nop \/ Mov \/ Add \/ Push \/ Pop \/ Leave
  BY <1>1, <1>2, <1>3 DEF Nop, Mov, Add, Push, Pop, Leave
<1>4. CASE Call
  <2> DEFINE o == CallOutcome(Entered.m)
  <2>1. CASE Refuse(o)
    BY <2>1, RefuseKeepsEntry
  <2>2. CASE EnterProcedure(o.m)
    <3>1. MayFetch /\ (InEntry(ip) => LeavesEntry(Instr.dst.disp, FALSE))
      <4>1. MayFetch /\ Instr.op = "call"
        BY <1>1, <1>4 DEF Call
      <4> QED
        BY <4>1 DEF LeavesEntry, Straight
    <3> QED
      BY <2>2, <3>1, RetireKeepsEntry DEF EnterProcedure
  <2> QED
    BY <1>4, <2>1, <2>2 DEF Call
<1>5. CASE InvokeCapture
  BY <1>1, <1>5, RefuseKeepsEntry, RetireKeepsEntry DEF InvokeCapture
<1>6. CASE InvokeCommit
  <2> DEFINE o == CommitOutcome(Entered.m)
  <2>1. CASE Refuse(o)
    BY <2>1, RefuseKeepsEntry
  <2>2. CASE EnterProcedure(o.m)
    <3>1. MayFetch /\ (InEntry(ip) => LeavesEntry(Instr.dst.disp, FALSE))
      BY <1>1, <1>6, CommitLeaves DEF InvokeCommit
    <3> QED
      BY <2>2, <3>1, RetireKeepsEntry DEF EnterProcedure
  <2> QED
    BY <1>6, <2>1, <2>2 DEF InvokeCommit
<1>7. CASE RootRet \/ Exit
  BY <1>7, RefuseKeepsEntry, HaltingKeepsEntry DEF RootRet, Exit
<1>8. CASE HelperRet
  <2> DEFINE o == HelperRetOutcome(Entered.m)
  <2>1. CASE Refuse(o)
    BY <2>1, RefuseKeepsEntry
  <2>2. CASE Retire(o.m, ReturnIndex(Entered.m), FALSE, FALSE)
    <3>1. MayFetch /\ (InEntry(ip) => LeavesEntry(ReturnIndex(Entered.m), FALSE))
      <4>1. MayFetch /\ Instr.op = "ret"
        BY <1>1, <1>8 DEF HelperRet
      <4> QED
        BY <4>1 DEF LeavesEntry, Straight
    <3> QED
      BY <2>2, <3>1, RetireKeepsEntry
  <2> QED
    BY <1>8, <2>1, <2>2 DEF HelperRet
<1>9. CASE Jmp \/ Jcc
  <2>1. ASSUME NEW taken \in BOOLEAN, Jump(taken), MayFetch
        PROVE  EntryKept'
    BY <2>1, RefuseKeepsEntry, RetireKeepsEntry DEF Jump
  <2> QED
    BY <1>1, <1>9, <2>1 DEF Jmp, Jcc
<1>10. CASE EntryRefused
  BY <1>10, RefuseKeepsEntry DEF EntryRefused
<1>11. CASE StopAtEntryEnd \/ CodeFellOffEnd \/ LimitExceeded
  BY <1>11, OverKeepsEntry DEF StopAtEntryEnd, CodeFellOffEnd, LimitExceeded, run, Running
<1>12. CASE UNCHANGED vars
  BY <1>12 DEF vars, run, EntryKept, Running, InEntry, EntryProc, ProcSet
<1> QED
  BY <1>3, <1>4, <1>5, <1>6, <1>7, <1>8, <1>9, <1>10, <1>11, <1>12 DEF Next, Step, Finished

\* In stop mode a run that counts as still in its selected entry is inside it, so that
\* nothing falls past the entry's ENDP: for every program whose INVOKEs lead out of it.
THEOREM EntryEndStops ==
  ASSUME \A g \in Images : InvokesLeave(g)
  PROVE  Spec => []EligibleMeansInEntry
<1>1. Init => EntryKept
  <2> SUFFICES ASSUME Init PROVE EntryKept
    OBVIOUS
  <2>1. InvokesLeave(image)
    BY DEF Init
  <2> QED
    BY <2>1 DEF Init, EntryKept
<1>2. FramesInv /\ EntryKept /\ [Next]_vars => EntryKept'
  BY StepKeepsEntry DEF FramesInv
<1>3. EntryKept => EligibleMeansInEntry
  BY DEF EntryKept, EligibleMeansInEntry
<1> QED
  BY <1>1, <1>2, <1>3, AlwaysFrames, PTL DEF Spec

-----------------------------------------------------------------------------
(* Refused steps *)

\* A refusal hands back the machine it was given.
Keeps(o, x) == o.status # "ok" => o.m = x

LEMMA ReleaseKeeps ==
  ASSUME NEW x, NEW p, NEW drop
  PROVE  Keeps(ReleaseLocalFrame(x, p, drop), x)
BY DEF Keeps, ReleaseLocalFrame, Ok, Err

LEMMA HandlersKeep ==
  ASSUME NEW STATE x
  PROVE  /\ Keeps(PushOutcome(x), x) /\ Keeps(PopOutcome(x), x) /\ Keeps(MovOutcome(x), x)
         /\ Keeps(AddOutcome(x), x) /\ Keeps(LeaveOutcome(x), x)
<1>1. Keeps(PushOutcome(x), x) /\ Keeps(PopOutcome(x), x)
  BY DEF Keeps, PushOutcome, PopOutcome, Ok, Err
<1>2. Keeps(MovOutcome(x), x) /\ Keeps(AddOutcome(x), x)
  BY DEF Keeps, MovOutcome, AddOutcome, Ok, Err
<1>3. Keeps(LeaveOutcome(x), x)
  BY ReleaseKeeps DEF Keeps, LeaveOutcome, Ok, Err
<1> QED
  BY <1>1, <1>2, <1>3

\* Once the stack is known to have room for a frame, and the array of USES frames too, writing
\* it cannot fail.
LEMMA WriteCannotFail ==
  ASSUME NEW STATE x, Safe(x), NEW STATE token, token \in Int, NEW STATE p, p \in Procedure,
         p.locals > 0 => RoomForFrame(x, p),
         CanReserve(x.reg["esp"], Footprint(p)), Len(x.uses) < FrameCapacity
  PROVE  WriteCallFrame(x, token, p).status = "ok"
<1> DEFINE s == <<token>> \o [k \in 1 .. Len(p.uses) |-> x.reg[p.uses[k]]]
           y == PushWords(x, s)
           f == [start |-> p.start, regs |-> p.uses]
           z == IF p.uses = <<>> THEN y ELSE [y EXCEPT !.uses = Append(@, f)]
           esp == x.reg["esp"]
           saves == Len(p.uses)
<1>1. /\ esp \in Int /\ p.locals \in Nat /\ saves \in Nat /\ x \in Machine
      /\ StackBase \in Int /\ StackLimit \in Int
  BY Numbers, LenProperties DEF Safe, Machine, Procedure
<1> HIDE DEF esp, saves
<1>8. /\ esp <= StackLimit /\ StackBase <= esp - 1 - saves
      /\ p.locals > 0 => StackBase <= esp - 1 - saves - (p.locals + 1)
  <2>1. esp <= StackLimit /\ StackBase <= esp - (1 + saves + (IF p.locals > 0 THEN p.locals + 1 ELSE 0))
    BY DEF CanReserve, Footprint, esp, saves
  <2> QED
    BY <1>1, <2>1
<1>2. s \in Seq(Int) /\ Len(s) = saves + 1
  <2> DEFINE saved == [k \in 1 .. Len(p.uses) |-> x.reg[p.uses[k]]]
  <2>1. s \in Seq(Int)
    BY CallWords
  <2>2. Len(s) = 1 + saves
    BY <1>1, <2>1 DEF saves
  <2> QED
    BY <1>1, <2>1, <2>2
<1> HIDE DEF s
<1>3. /\ Safe(y) /\ y.reg["esp"] = esp - Len(s)
      /\ y.locals = x.locals /\ y.descriptors = x.descriptors
  BY <1>2, PushWordsSafe DEF esp
<1> HIDE DEF y
<1>4. esp - 1 \in Mapped
  <2>1. esp - 1 \in Stack
    BY <1>1, <1>8 DEF Stack
  <2> QED
    BY <2>1, Numbers
<1>5. z.reg = y.reg /\ z.locals = x.locals /\ z.descriptors = x.descriptors
  BY <1>3 DEF Safe, Machine
<1> HIDE DEF z
<1>6. ASSUME p.locals > 0
      PROVE  SetupLocalFrame(z, p).status = "ok"
  <2>1. RoomForFrame(z, p)
    BY <1>5, <1>6 DEF RoomForFrame
  <2>2. CanReserve(z.reg["esp"], p.locals + 1)
    <3>1. z.reg["esp"] = esp - (saves + 1)
      BY <1>2, <1>3, <1>5
    <3> QED
      BY <1>1, <1>6, <1>8, <3>1 DEF CanReserve
  <2> QED
    BY <2>1, <2>2 DEF SetupLocalFrame, Ok
<1>7. ~(p.uses # <<>> /\ Len(x.uses) >= FrameCapacity)
  <2>1. Len(x.uses) \in Nat
    BY <1>1, LenProperties DEF Machine
  <2> QED
    BY <2>1, Numbers
<1>9. WriteCallFrame(x, token, p) = IF p.locals > 0 THEN SetupLocalFrame(z, p) ELSE Ok(z)
  BY <1>4, <1>7 DEF WriteCallFrame, z, y, s, esp
<1> QED
  BY <1>6, <1>9 DEF Ok

LEMMA CallKeeps ==
  ASSUME NEW STATE x, Safe(x), Loaded, ip < Count, Len(x.uses) < FrameCapacity
  PROVE  Keeps(CallOutcome(x), x)
<1> DEFINE token == TokenBase + Instr.src.disp
           i == Instr.dst.disp
           p == Callee(i)
<1>1. ASSUME i \in 0 .. Count - 1
      PROVE  Keeps(WriteCallFrame(x, token, p), x)
  <2>1. token \in Int /\ p \in Procedure
    BY <1>1, TargetsTyped
  <2> HIDE DEF token, p
  <2>2. CASE p.locals > 0 /\ ~RoomForFrame(x, p)
    BY <2>2 DEF WriteCallFrame, Keeps, Err
  <2>3. CASE /\ p.uses # <<>> \/ p.locals > 0
             /\ p.locals > 0 => RoomForFrame(x, p)
             /\ CanReserve(x.reg["esp"], Footprint(p))
    BY <2>1, <2>3, WriteCannotFail DEF Keeps
  <2>4. CASE /\ p.uses # <<>> \/ p.locals > 0
             /\ p.locals > 0 => RoomForFrame(x, p)
             /\ ~CanReserve(x.reg["esp"], Footprint(p))
    BY <2>4 DEF WriteCallFrame, Keeps, Err
  <2>5. CASE p.uses = <<>> /\ ~(p.locals > 0)
    BY <2>5 DEF WriteCallFrame, Keeps, Err, Ok
  <2> QED
    BY <2>2, <2>3, <2>4, <2>5
<1> QED
  BY <1>1 DEF CallOutcome, Keeps, Err

LEMMA CommitKeeps ==
  ASSUME NEW STATE x, Safe(x), Loaded, ip < Count, Len(x.uses) < FrameCapacity
  PROVE  Keeps(CommitOutcome(x), x)
<1> DEFINE token == TokenBase + Instr.src.disp
           i == Instr.dst.disp
           p == Callee(i)
           n == Instr.args
           s == [k \in 1 .. n |-> pending[n - k]]
           y == PushWords(x, s)
           ready == /\ i \in 0 .. Count - 1 /\ 0 .. n - 1 \subseteq DOMAIN pending
                    /\ p.locals > 0 => RoomForFrame(x, p)
                    /\ CanReserve(x.reg["esp"], n + Footprint(p))
<1>1. (CommitOutcome(x) = WriteCallFrame(y, token, p) /\ ready) \/ Keeps(CommitOutcome(x), x)
  BY DEF CommitOutcome, Keeps, Err
<1>2. ASSUME ready
      PROVE  WriteCallFrame(y, token, p).status = "ok"
  <2>1. token \in Int /\ p \in Procedure /\ n \in Nat /\ i \in Nat
    BY <1>2, TargetsTyped, OperandsTyped
  <2>2. s \in Seq(Int) /\ Len(s) = n
    <3>1. \A k \in 1 .. n : pending[n - k] \in Int
      <4>1. \A k \in 1 .. n : n - k \in 0 .. n - 1
        BY <2>1
      <4> QED
        BY <1>2, <4>1 DEF Loaded
    <3>2. s \in Seq(Int)
      BY <2>1, <3>1, IsASeq
    <3> QED
      BY <2>1, <3>2
  <2> HIDE DEF s, token, p, n
  <2>3. /\ Safe(y) /\ y.reg["esp"] = x.reg["esp"] - n /\ y.uses = x.uses
        /\ y.locals = x.locals /\ y.descriptors = x.descriptors
    BY <2>2, PushWordsSafe
  <2> HIDE DEF y
  <2>4. p.locals > 0 => RoomForFrame(y, p)
    BY <1>2, <2>3 DEF RoomForFrame
  <2>5. CanReserve(y.reg["esp"], Footprint(p))
    <3>1. /\ x.reg["esp"] \in Int /\ Footprint(p) \in Int /\ StackBase \in Int
          /\ StackLimit \in Int
      BY <2>1, Numbers, LenProperties DEF Safe, Machine, Procedure, Footprint
    <3>2. x.reg["esp"] <= StackLimit /\ StackBase <= x.reg["esp"] - (n + Footprint(p))
      BY <1>2 DEF CanReserve
    <3> DEFINE esp == x.reg["esp"]
               words == Footprint(p)
    <3> HIDE DEF esp, words
    <3>3. esp - n <= StackLimit /\ StackBase <= esp - n - words
      BY <2>1, <3>1, <3>2 DEF esp, words
    <3> QED
      BY <2>3, <3>3 DEF CanReserve, esp, words
  <2> QED
    BY <2>1, <2>3, <2>4, <2>5, WriteCannotFail
<1> QED
  BY <1>1, <1>2 DEF Keeps

-----------------------------------------------------------------------------
(* The entry procedure's own frame is made by the first step or never. *)

Untouched == /\ ~entryFrame /\ status = "ok"
             /\ EntryProc.locals > 0 /\ EntryProc.start < EntryProc.end

FrameStillDue == Untouched => /\ ip = EntryProc.start /\ helpers = 0
                              /\ m.locals = <<>> /\ m.uses = <<>>

LEMMA EntryUnique ==
  ASSUME Loaded, NEW STATE p, p \in ProcSet, p.entry
  PROVE  p = EntryProc
<1>1. PICK k \in DOMAIN image.procs : \A j \in DOMAIN image.procs : image.procs[j].entry <=> j = k
  BY DEF Loaded, Image
<1>2. EntryProc \in ProcSet /\ EntryProc.entry
  BY DEF EntryProc
<1> QED
  BY <1>1, <1>2 DEF ProcSet

\* A first step that gets past the prologue has made the frame.
LEMMA FirstStepMakesFrame ==
  ASSUME Loaded, FrameStillDue, Untouched, Entered.status = "ok"
  PROVE  CreatesEntryFrame
<1>1. EntryProc \in ProcSet /\ EntryProc.entry /\ EntryProc \in Procedure
  <2>1. PICK k \in DOMAIN image.procs : image.procs[k].entry
    BY DEF Loaded, Image
  <2>2. EntryProc \in ProcSet /\ EntryProc.entry
    BY <2>1 DEF EntryProc, ProcSet
  <2> QED
    BY <2>2, ProcsTyped
<1>2. EntryProc \in LocalsHere
  BY <1>1 DEF FrameStillDue, Untouched, LocalsHere, Owner, Inside, Procedure
<1>3. \A q \in LocalsHere : ~FrameReady(q)
  BY DEF FrameStillDue, FrameReady, TopLocalOf
<1> DEFINE q == CHOOSE q \in LocalsHere : TRUE
<1>4. q \in LocalsHere
  BY <1>2
<1>5. /\ ~StartsUsesWithoutFrame /\ FirstEntry(q) /\ CanReserve(m.reg["esp"], q.locals + 1)
  BY <1>2, <1>3 DEF Entered, Err
<1> QED
  BY <1>3, <1>4, <1>5 DEF CreatesEntryFrame

\* What the prologue may have changed.
LEMMA PrologueEffect ==
  ASSUME Loaded, Safe(m), FrameStillDue, status = "ok", Entered.status = "ok"
  PROVE  /\ Entered.m.uses = m.uses
         /\ Entered.m = m \/ (/\ CreatesEntryFrame /\ ~entryFrame /\ m.uses = <<>>
                              /\ Len(Entered.m.locals) = 1)
<1> DEFINE p == CHOOSE p \in LocalsHere : TRUE
<1>1. CASE \A q \in LocalsHere : FrameReady(q)
  BY <1>1 DEF Entered, Ok, Err
<1>2. CASE ~\A q \in LocalsHere : FrameReady(q)
  <2>1. p \in LocalsHere
    BY <1>2
  <2>2. FirstEntry(p) /\ Entered = SetupLocalFrame(m, p)
    BY <1>2 DEF Entered, Err
  <2> HIDE DEF p
  <2>3. p \in ProcSet /\ p \in Procedure /\ p.locals > 0 /\ p.start <= ip /\ ip < p.end
    BY <2>1, OwnersTyped DEF LocalsHere, Owner, Inside
  <2>4. p = EntryProc /\ ~entryFrame /\ ip = p.start
    BY <2>2, <2>3, EntryUnique DEF FirstEntry
  <2>5. Untouched /\ m.uses = <<>> /\ m.locals = <<>>
    BY <2>3, <2>4 DEF FrameStillDue, Untouched
  <2>6. CreatesEntryFrame
    BY <2>5, FirstStepMakesFrame
  <2> DEFINE s == <<m.reg["ebp"]>> \o [k \in 1 .. p.locals |-> 0]
             y == PushWords(m, s)
             f == [start |-> p.start, base |-> m.reg["esp"] - 1, size |-> p.locals,
                   saved |-> m.reg["ebp"], active |-> TRUE]
             z == [y EXCEPT !.reg["ebp"] = m.reg["esp"] - 1, !.locals = Append(@, f),
                            !.descriptors = @ + p.locals]
  <2>7. s \in Seq(Int)
    <3>1. p.locals \in Nat /\ m.reg["ebp"] \in Int
      BY <2>3, Numbers DEF Procedure, Safe, Machine
    <3>2. [k \in 1 .. p.locals |-> 0] \in Seq(Int)
      BY <3>1, IsASeq
    <3>3. <<m.reg["ebp"]>> \in Seq(Int)
      BY <3>1
    <3> QED
      BY <3>2, <3>3, ConcatProperties
  <2>8. Entered.m = z
    BY <2>2 DEF SetupLocalFrame, Err, Ok
  <2> HIDE DEF s
  <2>9. Safe(y) /\ y.uses = m.uses /\ y.locals = m.locals
    BY <2>7, PushWordsSafe
  <2> HIDE DEF y, f
  <2>10. z.uses = y.uses /\ z.locals = Append(y.locals, f)
    BY <2>9 DEF Safe, Machine
  <2> HIDE DEF z
  <2>11. Len(Append(<<>>, f)) = 1
    OBVIOUS
  <2> QED
    BY <2>4, <2>5, <2>6, <2>8, <2>9, <2>10, <2>11
<1> QED
  BY <1>1, <1>2

LEMMA DueAtStart == Init => FrameStillDue
BY DEF Init, FrameStillDue

\* A step that fetches an instruction settles it.
LEMMA FetchSettles ==
  ASSUME Loaded, FrameStillDue, status = "ok", Entered.status = "ok",
         entryFrame' = EntryFrameNow, image' = image
  PROVE  FrameStillDue'
<1>1. CASE entryFrame
  BY <1>1 DEF EntryFrameNow, FrameStillDue, Untouched
<1>2. CASE ~entryFrame /\ Untouched
  BY <1>2, FirstStepMakesFrame DEF EntryFrameNow, FrameStillDue, Untouched
<1>3. CASE ~entryFrame /\ ~Untouched
  BY <1>3 DEF FrameStillDue, Untouched, EntryProc, ProcSet
<1> QED
  BY <1>1, <1>2, <1>3

LEMMA FetchedSteps ==
  ASSUME NEW op, Fetch(op)
  PROVE  status = "ok" /\ Entered.status = "ok"
BY DEF Fetch, MayFetch, MayStep, Running

LEMMA RetireMarks ==
  ASSUME NEW STATE x, NEW STATE next, NEW taken, NEW halts, Retire(x, next, taken, halts)
  PROVE  entryFrame' = EntryFrameNow /\ image' = image
BY DEF Retire, run

LEMMA RefuseMarks ==
  ASSUME NEW STATE o, Refuse(o)
  PROVE  entryFrame' = EntryFrameNow /\ image' = image
BY DEF Refuse, run

LEMMA DueSteps ==
  ASSUME Loaded, FrameStillDue, [Next]_vars
  PROVE  FrameStillDue'
<1>1. ASSUME NEW STATE o, Plain(o)
      PROVE  entryFrame' = EntryFrameNow /\ image' = image
  BY <1>1, RefuseMarks, RetireMarks DEF Plain
<1>2. ASSUME Nop \/ Mov \/ Add \/ Push \/ Pop \/ Leave
      PROVE  FrameStillDue'
  BY <1>1, <1>2, FetchedSteps, FetchSettles DEF Nop, Mov, Add, Push, Pop, Leave
<1>3. ASSUME Call \/ InvokeCapture \/ InvokeCommit
      PROVE  FrameStillDue'
  <2>1. entryFrame' = EntryFrameNow /\ image' = image
    BY <1>3, RefuseMarks, RetireMarks DEF Call, InvokeCapture, InvokeCommit, EnterProcedure
  <2>2. status = "ok" /\ Entered.status = "ok"
    BY <1>3, FetchedSteps DEF Call, InvokeCapture, InvokeCommit
  <2> QED
    BY <2>1, <2>2, FetchSettles
<1>4. ASSUME RootRet \/ HelperRet \/ Exit
      PROVE  FrameStillDue'
  <2>1. entryFrame' = EntryFrameNow /\ image' = image
    BY <1>4, RefuseMarks, RetireMarks DEF RootRet, HelperRet, Exit
  <2>2. status = "ok" /\ Entered.status = "ok"
    BY <1>4, FetchedSteps DEF RootRet, HelperRet, Exit
  <2> QED
    BY <2>1, <2>2, FetchSettles
<1>5. ASSUME Jmp \/ Jcc
      PROVE  FrameStillDue'
  <2>1. ASSUME NEW taken \in BOOLEAN, Jump(taken)
        PROVE  entryFrame' = EntryFrameNow /\ image' = image
    BY <2>1, RefuseMarks, RetireMarks DEF Jump
  <2>2. status = "ok" /\ Entered.status = "ok"
    BY <1>5, FetchedSteps DEF Jmp, Jcc
  <2> QED
    BY <1>5, <2>1, <2>2, FetchSettles DEF Jmp, Jcc
<1>6. ASSUME EntryRefused \/ CodeFellOffEnd \/ LimitExceeded
      PROVE  FrameStillDue'
  BY <1>6 DEF EntryRefused, Refuse, CodeFellOffEnd, LimitExceeded, FrameStillDue, Untouched
<1>7. ASSUME StopAtEntryEnd \/ Finished \/ UNCHANGED vars
      PROVE  FrameStillDue'
  BY <1>7 DEF StopAtEntryEnd, Finished, vars, run, FrameStillDue, Untouched, EntryProc, ProcSet
<1> QED
  BY <1>2, <1>3, <1>4, <1>5, <1>6, <1>7 DEF Next, Step

-----------------------------------------------------------------------------

Refused == /\ status = "ok" /\ status' \notin {"ok", "procedure-fell-through"}
           /\ ip < Count /\ Instr.op \notin {"ret", "exit"} /\ Len(m.uses) < FrameCapacity

Unharmed == \/ m' = m
            \/ entryFrame' /\ ~entryFrame /\ Len(m'.locals) = 1 /\ m'.uses = <<>>

LEMMA RefusalUnharmed ==
  ASSUME Loaded, Safe(m), FrameStillDue, Refused, Entered.status = "ok",
         NEW STATE o, Refuse(o), Keeps(o, Entered.m)
  PROVE  Unharmed
<1>1. m' = Entered.m /\ entryFrame' = EntryFrameNow
  BY DEF Refuse, Keeps
<1> QED
  BY <1>1, PrologueEffect DEF Refused, Unharmed, EntryFrameNow

LEMMA RetiredIsNotRefused ==
  ASSUME NEW STATE x, NEW STATE next, NEW taken, NEW halts, Retire(x, next, taken, halts), Refused
  PROVE  FALSE
BY DEF Retire, Refused

LEMMA RefusalsUnharmed ==
  ASSUME Loaded, Safe(m), FrameStillDue, Refused, [Next]_vars
  PROVE  Unharmed
<1> DEFINE x == Entered.m
<1>1. Safe(x) /\ ip < Count /\ Keeps(Ok(x), x)
  BY EnteredSafe DEF Refused, Keeps, Ok
<1>2. ASSUME Entered.status = "ok"
      PROVE  Len(x.uses) < FrameCapacity
  BY <1>2, PrologueEffect DEF Refused
<1>3. ASSUME NEW STATE o, Plain(o), Keeps(o, x), Entered.status = "ok"
      PROVE  Unharmed
  BY <1>3, RefusalUnharmed, RetiredIsNotRefused DEF Plain
<1>4. ASSUME Nop \/ Mov \/ Add \/ Push \/ Pop \/ Leave
      PROVE  Unharmed
  <2>1. Entered.status = "ok"
    BY <1>4, FetchedSteps DEF Nop, Mov, Add, Push, Pop, Leave
  <2> QED
    BY <1>1, <1>3, <1>4, <2>1, HandlersKeep DEF Nop, Mov, Add, Push, Pop, Leave
<1>5. ASSUME Call
      PROVE  Unharmed
  <2>1. Entered.status = "ok" /\ Keeps(CallOutcome(x), x)
    BY <1>1, <1>2, <1>5, FetchedSteps, CallKeeps DEF Call
  <2> QED
    BY <1>5, <2>1, RefusalUnharmed, RetiredIsNotRefused DEF Call, EnterProcedure
<1>6. ASSUME InvokeCommit
      PROVE  Unharmed
  <2>1. Entered.status = "ok" /\ Keeps(CommitOutcome(x), x)
    BY <1>1, <1>2, <1>6, FetchedSteps, CommitKeeps DEF InvokeCommit
  <2> QED
    BY <1>6, <2>1, RefusalUnharmed, RetiredIsNotRefused DEF InvokeCommit, EnterProcedure
<1>7. ASSUME InvokeCapture
      PROVE  Unharmed
  <2> DEFINE fault == IF Instr.dst.disp \notin 0 .. ArgumentCapacity - 1 THEN "invalid-argument"
                      ELSE ArgumentFault(Instr.src, x)
  <2>1. Entered.status = "ok" /\ Keeps(Err(fault, x), x)
    BY <1>7, FetchedSteps DEF InvokeCapture, Keeps, Err
  <2>2. Refuse(Err(fault, x)) \/ Retire(x, ip + 1, FALSE, FALSE)
    BY <1>7 DEF InvokeCapture
  <2> HIDE DEF fault
  <2> QED
    BY <2>1, <2>2, RefusalUnharmed, RetiredIsNotRefused
<1>8. ASSUME Jmp \/ Jcc
      PROVE  Unharmed
  <2>1. Entered.status = "ok" /\ Keeps(Err("invalid-branch-target", x), x)
    BY <1>8, FetchedSteps DEF Jmp, Jcc, Keeps, Err
  <2>2. ASSUME NEW taken \in BOOLEAN, Jump(taken)
        PROVE  Unharmed
    BY <2>1, <2>2, RefusalUnharmed, RetiredIsNotRefused DEF Jump
  <2> QED
    BY <1>8, <2>2 DEF Jmp, Jcc
<1>9. ASSUME RootRet \/ HelperRet \/ Exit
      PROVE  FALSE
  BY <1>9 DEF RootRet, HelperRet, Exit, Fetch, Refused
<1>10. ASSUME EntryRefused
       PROVE  Unharmed
  <2>1. Entered.status # "ok" => Entered.m = m
    BY DEF Entered, SetupLocalFrame, Ok, Err
  <2> QED
    BY <1>10, <2>1 DEF EntryRefused, Refuse, Unharmed
<1>11. ASSUME StopAtEntryEnd \/ CodeFellOffEnd \/ LimitExceeded \/ Finished \/ UNCHANGED vars
       PROVE  Unharmed
  BY <1>11 DEF StopAtEntryEnd, CodeFellOffEnd, LimitExceeded, Finished, vars, Unharmed
<1> QED
  BY <1>4, <1>5, <1>6, <1>7, <1>8, <1>9, <1>10, <1>11 DEF Next, Step

\* A refused instruction leaves registers, memory and both frame stacks as they were, apart
\* from the entry frame its own step made.
THEOREM RefusalsChangeNothing == Spec => RefusedStepChangesNothing
<1>1. FramesInv /\ FrameStillDue /\ [Next]_vars => [Refused => Unharmed]_vars
  BY RefusalsUnharmed DEF FramesInv
<1>2. FramesInv /\ FrameStillDue /\ [Next]_vars => FrameStillDue'
  BY DueSteps DEF FramesInv
<1>3. RefusedStepChangesNothing <=> [][Refused => Unharmed]_vars
  BY DEF RefusedStepChangesNothing, Refused, Unharmed
<1> QED
  BY <1>1, <1>2, <1>3, DueAtStart, AlwaysFrames, PTL DEF Spec

-----------------------------------------------------------------------------
(* Procedures that keep their own stack, and the activations that nest in it. *)

\* A call as the history keeps it.
Outstanding == [back : Int, args : Nat, callee : Procedure, was : Machine]

FrameOf(p, b, e, up) ==
  [start |-> p.start, base |-> b - 1, size |-> p.locals, saved |-> e, active |-> up]

\* Machine x is before instruction i of p, whose words start below b, over the caller's EBP e
\* and LOCAL frames l.
Within(shape, x, i, p, b, e, l) ==
  LET s == shape[i]
  IN  /\ i \in Body(p) \cap DOMAIN shape /\ (s.framed => p.locals > 0)
      /\ x.reg["esp"] = (IF s.framed THEN b - 1 - p.locals ELSE b) - s.up
      /\ x.reg["ebp"] = IF s.framed THEN b - 1 ELSE e
      /\ StackBase <= x.reg["esp"]
      /\ x.locals = IF p.locals = 0 THEN l
                    ELSE Append(l, FrameOf(p, b, e, s.framed))
      /\ p.locals > 0 => StackBase <= b - 1 - p.locals /\ x.mem[b - 1] = e

\* Where the words of a called procedure start: below its token and the registers it saved.
Bottom(c) == TokenAt(c) - Len(c.callee.uses)

UsesIn(c) == IF c.callee.uses = <<>> THEN c.was.uses
             ELSE Append(c.was.uses, [start |-> c.callee.start, regs |-> c.callee.uses])

\* What a machine inside call c still holds: the token, and the words of the callers.
Holds(x, c) ==
  /\ x.mem[TokenAt(c)] = TokenBase + c.back
  /\ \A a \in c.was.reg["esp"] .. StackLimit - 1 : x.mem[a] = c.was.mem[a]

\* The USES frames are those of procedures.
UsesNamed(g, x) ==
  \A k \in DOMAIN x.uses : \E q \in ProcsOf(g) :
    q.start < q.end /\ q.uses # <<>> /\ x.uses[k].start = q.start

\* The procedure that the first k calls leave running, and what it found.
Runs(g, h, k)     == IF k = 0 THEN EntryOf(g) ELSE h[k].callee
Floor(h, k)       == IF k = 0 THEN StackLimit ELSE Bottom(h[k])
FoundEbp(h, k, e) == IF k = 0 THEN e ELSE h[k].was.reg["ebp"]
FoundLocals(h, k) == IF k = 0 THEN <<>> ELSE h[k].was.locals
FoundUses(h, k)   == IF k = 0 THEN <<>> ELSE UsesIn(h[k])

Level(g, shape, h, k, e, x, i) ==
  /\ Within(shape, x, i, Runs(g, h, k), Floor(h, k), FoundEbp(h, k, e), FoundLocals(h, k))
  /\ x.uses = FoundUses(h, k) /\ UsesNamed(g, x)
  /\ k > 0 => Holds(x, h[k])

\* The RETs of a called procedure take its arguments off.
Returns(g, shape, c) ==
  /\ c.callee \in ProcsOf(g) /\ c.callee.start < c.callee.end
  /\ \A j \in Body(c.callee) \cap DOMAIN shape :
       g.code[j + 1].op = "ret" => g.code[j + 1].src.disp = c.args
  /\ c.was.reg["esp"] <= StackLimit

\* The machine after the first k calls, and where it goes on.
Machines(h, x, k) == IF k = Len(h) THEN x ELSE h[k + 1].was
Places(h, i, k)   == IF k = Len(h) THEN i ELSE h[k + 1].back

\* The activations nest.
Nested(g, shape, h, e, x, i) ==
  /\ \A k \in 0 .. Len(h) : Level(g, shape, h, k, e, Machines(h, x, k), Places(h, i, k))
  /\ \A k \in 1 .. Len(h) : Returns(g, shape, h[k])
  /\ \A k \in 0 .. Len(h) - 1 :
       Runs(g, h, k).locals > 0 => shape[h[k + 1].back].framed

-----------------------------------------------------------------------------
(* Procedures and instructions. *)

LEMMA ProcsApart ==
  ASSUME NEW STATE g, g \in Image
  PROVE  /\ g.code \in Seq(Instruction) /\ ProcsOf(g) \subseteq Procedure
         /\ \A p \in ProcsOf(g) : p.start \in Nat /\ p.end \in Nat /\ p.end <= Len(g.code)
         /\ \A p, q \in ProcsOf(g), i \in Int : i \in Body(p) /\ i \in Body(q) => p = q
<1>1. /\ g.code \in Seq(Instruction) /\ g.procs \in Seq(Procedure)
      /\ \A k \in DOMAIN g.procs : g.procs[k].end <= Len(g.code)
      /\ \A j, k \in DOMAIN g.procs : j < k => g.procs[j].end <= g.procs[k].start
  BY DEF Image
<1>2. DOMAIN g.procs \subseteq Int /\ \A k \in DOMAIN g.procs : g.procs[k] \in Procedure
  BY <1>1
<1>3. \A p \in Procedure : p.start \in Nat /\ p.end \in Nat
  BY DEF Procedure
<1>4. ASSUME NEW p \in ProcsOf(g), NEW q \in ProcsOf(g), NEW i \in Int, i \in Body(p), i \in Body(q)
      PROVE  p = q
  <2>1. PICK j \in DOMAIN g.procs : p = g.procs[j]
    BY DEF ProcsOf
  <2>2. PICK k \in DOMAIN g.procs : q = g.procs[k]
    BY DEF ProcsOf
  <2>3. p.start <= i /\ i < p.end /\ q.start <= i /\ i < q.end
        /\ p.start \in Nat /\ p.end \in Nat /\ q.start \in Nat /\ q.end \in Nat
    BY <1>2, <1>3, <1>4, <2>1, <2>2 DEF Body
  <2>4. ~(j < k) /\ ~(k < j)
    BY <1>1, <2>1, <2>2, <2>3
  <2>5. j = k
    BY <1>2, <2>4
  <2> QED
    BY <2>1, <2>2, <2>5
<1>5. ASSUME NEW p \in ProcsOf(g)
      PROVE  p \in Procedure /\ p.end <= Len(g.code)
  BY <1>1, <1>2 DEF ProcsOf
<1> QED
  BY <1>1, <1>3, <1>4, <1>5

LEMMA EntryIs ==
  ASSUME Loaded
  PROVE  /\ EntryOf(image) = EntryProc /\ EntryProc \in ProcsOf(image) /\ EntryProc.entry
         /\ ProcsOf(image) = ProcSet
<1>1. ProcsOf(image) = ProcSet /\ EntryOf(image) = EntryProc
  BY DEF ProcsOf, ProcSet, EntryOf, EntryProc
<1>2. PICK k \in DOMAIN image.procs : \A j \in DOMAIN image.procs : image.procs[j].entry <=> j = k
  BY DEF Loaded, Image
<1>3. image.procs[k] \in ProcSet /\ image.procs[k].entry
  BY <1>2 DEF ProcSet
<1>4. EntryProc \in ProcSet /\ EntryProc.entry
  BY <1>3 DEF EntryProc
<1> QED
  BY <1>1, <1>4

\* Where ip is.
LEMMA InsideOne ==
  ASSUME Loaded, NEW STATE p, p \in ProcsOf(image), ip \in Body(p)
  PROVE  /\ ip < Count /\ Count \in Nat /\ p \in Procedure /\ Owner(ip) = {p}
         /\ LocalsHere = IF p.locals > 0 THEN {p} ELSE {}
<1>1. image \in Image /\ ip \in Nat
  BY DEF Loaded
<1>2. /\ p \in Procedure /\ p.start \in Nat /\ p.end \in Nat /\ p.end <= Len(image.code)
      /\ image.code \in Seq(Instruction)
  BY <1>1, ProcsApart
<1>3. ip < Count /\ Count \in Nat
  BY <1>1, <1>2 DEF Body, Count
<1>4. Owner(ip) = {p}
  <2>1. ProcsOf(image) = ProcSet
    BY EntryIs
  <2>2. ASSUME NEW q \in ProcSet, Inside(q, ip) PROVE q = p
    <3>1. q \in ProcsOf(image) /\ q.start \in Nat /\ q.end \in Nat
      BY <1>1, <2>1, ProcsApart
    <3>2. ip \in Body(q)
      BY <1>1, <2>2, <3>1 DEF Inside, Body
    <3> QED
      BY <1>1, <3>1, <3>2, ProcsApart
  <2>3. Inside(p, ip)
    BY <1>1, <1>2 DEF Inside, Body
  <2> QED
    BY <2>1, <2>2, <2>3 DEF Owner
<1> QED
  BY <1>2, <1>3, <1>4 DEF LocalsHere

\* The procedure a call enters.
LEMMA EntersCallee ==
  ASSUME Loaded, NEW STATE i, NEW STATE p, Enters(image, i, p)
  PROVE  Callee(i) = p /\ p \in ProcsOf(image) /\ p.start = i /\ p.start < p.end
<1>1. PICK k \in DOMAIN image.procs :
        /\ p = image.procs[k] /\ p.start = i /\ p.start < p.end
        /\ \A j \in DOMAIN image.procs : image.procs[j].start = i => k <= j
  BY DEF Enters
<1>2. DOMAIN image.procs \subseteq Int
  BY DEF Loaded, Image
<1>3. StartingAt(i) = {p}
  <2> DEFINE ks == {j \in DOMAIN image.procs : image.procs[j].start = i}
             first == {l \in ks : \A j \in ks : l <= j}
  <2>1. k \in first
    BY <1>1
  <2>2. ASSUME NEW l \in first PROVE l = k
    <3>1. l \in ks /\ k \in ks /\ l <= k /\ k <= l
      BY <1>1
    <3> QED
      BY <1>2, <3>1
  <2>3. first = {k}
    BY <2>1, <2>2
  <2>4. StartingAt(i) = {image.procs[l] : l \in first}
    BY DEF StartingAt
  <2> QED
    BY <1>1, <2>3, <2>4
<1>4. Callee(i) = p
  BY <1>3 DEF Callee
<1> QED
  BY <1>1, <1>4 DEF ProcsOf

-----------------------------------------------------------------------------
(* What an activation's machine says of its words. *)

\* What Append pushed is what Front and Last take off.
LEMMA OneMore ==
  ASSUME NEW S, NEW STATE s, s \in Seq(S), NEW STATE f, f \in S
  PROVE  /\ Append(s, f) \in Seq(S) /\ Append(s, f) # <<>>
         /\ Front(Append(s, f)) = s /\ Last(Append(s, f)) = f
         /\ Len(Append(s, f)) = Len(s) + 1 /\ Len(s) \in Nat /\ DOMAIN s = 1 .. Len(s)
         /\ DOMAIN Append(s, f) = 1 .. Len(s) + 1
         /\ \A k \in 1 .. Len(s) : Append(s, f)[k] = s[k]
         /\ Append(s, f)[Len(s) + 1] = f
<1> DEFINE t == Append(s, f)
<1>1. /\ t \in Seq(S) /\ Len(t) = Len(s) + 1 /\ t[Len(s) + 1] = f
      /\ \A k \in 1 .. Len(s) : t[k] = s[k]
  BY AppendProperties
<1>2. Len(s) \in Nat /\ DOMAIN s = 1 .. Len(s) /\ DOMAIN t = 1 .. Len(s) + 1
  BY <1>1, LenProperties
<1> HIDE DEF t
<1>3. t # <<>>
  BY <1>1, <1>2
<1>4. /\ Front(t) \in Seq(S) /\ Len(Front(t)) = Len(t) - 1 /\ Last(t) = t[Len(t)]
      /\ \A k \in 1 .. Len(t) - 1 : Front(t)[k] = t[k]
  BY <1>1, <1>3, FrontOf
<1>5. Len(Front(t)) = Len(s) /\ \A k \in 1 .. Len(s) : Front(t)[k] = s[k]
  BY <1>1, <1>2, <1>4
<1>6. Front(t) = s
  BY <1>4, <1>5, SeqEqual
<1> QED
  BY <1>1, <1>2, <1>3, <1>4, <1>6 DEF t

Stands(shape, x, i, p, b, e, l) ==
  /\ shape[i].up \in Nat /\ shape[i].framed \in BOOLEAN /\ p.locals \in Nat
  /\ x.reg["esp"] \in Int /\ x.reg["ebp"] \in Int
  /\ StackBase <= x.reg["esp"] /\ x.reg["esp"] <= b
  /\ (shape[i].framed => x.reg["esp"] <= b - 1 - p.locals)
  /\ p.locals > 0 => /\ x.locals # <<>> /\ Front(x.locals) = l
                     /\ Last(x.locals) = FrameOf(p, b, e, shape[i].framed)
  /\ p.locals = 0 => x.locals = l

LEMMA WithinFacts ==
  ASSUME NEW STATE shape, NEW STATE x, x \in Machine, NEW STATE i, NEW STATE p, p \in Procedure,
         NEW STATE b, b \in Int, NEW STATE e, e \in Int, NEW STATE l, l \in Seq(LocalFrame),
         Within(shape, x, i, p, b, e, l), shape[i] \in OnStack
  PROVE  Stands(shape, x, i, p, b, e, l)
<1>1. shape[i].up \in Nat /\ shape[i].framed \in BOOLEAN /\ p.locals \in Nat
  BY DEF OnStack, Procedure
<1>2. x.reg["esp"] \in Int /\ x.reg["ebp"] \in Int
  BY Numbers DEF Machine
<1>3. StackBase <= x.reg["esp"] /\ x.reg["esp"] <= b /\ (shape[i].framed => x.reg["esp"] <= b - 1 - p.locals)
  BY <1>1, <1>2, Numbers DEF Within
<1>4. ASSUME p.locals > 0
      PROVE  /\ x.locals # <<>> /\ Front(x.locals) = l
             /\ Last(x.locals) = FrameOf(p, b, e, shape[i].framed)
  <2> DEFINE f == FrameOf(p, b, e, shape[i].framed)
  <2>1. x.locals = Append(l, f)
    BY <1>1, <1>4 DEF Within
  <2>2. f \in LocalFrame
    BY <1>1 DEF FrameOf, LocalFrame, Procedure
  <2> HIDE DEF f
  <2>3. x.locals # <<>> /\ Front(x.locals) = l /\ Last(x.locals) = f
    BY <2>1, <2>2, OneMore
  <2> QED
    BY <2>3 DEF f
<1>5. p.locals = 0 => x.locals = l
  BY DEF Within
<1> QED
  BY <1>1, <1>2, <1>3, <1>4, <1>5 DEF Stands

\* The words from b up, and the caller's EBP below b, are as they were.
Above(p, b, x, y) ==
  \A a \in (IF p.locals > 0 THEN b - 1 ELSE b) .. StackLimit - 1 : y.mem[a] = x.mem[a]

\* Where the stack of p stands.
Spot(x, p, b, s) ==
  /\ x.reg["esp"] = (IF s.framed THEN b - 1 - p.locals ELSE b) - s.up
  /\ StackBase <= x.reg["esp"]
  /\ s.framed => x.reg["ebp"] = b - 1 /\ p.locals > 0
  /\ p.locals > 0 => s.framed /\ Last(x.locals).base = b - 1 /\ StackBase <= b - 1

\* Machine x runs the current instruction, of procedure p.
RunsHere(shape, x, p, b, e, l) ==
  /\ Loaded /\ x \in Machine /\ p \in ProcsOf(image) /\ b \in Int /\ b <= StackLimit
  /\ e \in Int /\ l \in Seq(LocalFrame)
  /\ KeepsOwnStack(image, shape, p, ip) /\ Within(shape, x, ip, p, b, e, l)

\* Machine y is where p goes on after x.
GoesOn(shape, x, y, p, b, e, l, j) ==
  Within(shape, y, j, p, b, e, l) /\ y.uses = x.uses /\ Above(p, b, x, y)

LEMMA HereFacts ==
  ASSUME NEW STATE shape, NEW STATE x, NEW STATE p, NEW STATE b, NEW STATE e, NEW STATE l,
         RunsHere(shape, x, p, b, e, l)
  PROVE  /\ ip \in Body(p) /\ ip \in Nat /\ ip < Count /\ Count \in Nat /\ p \in Procedure
         /\ Owner(ip) = {p} /\ LocalsHere = (IF p.locals > 0 THEN {p} ELSE {})
         /\ Instr = image.code[ip + 1] /\ Instr \in Instruction
         /\ Instr.dst \in Operand /\ Instr.src \in Operand
         /\ shape[ip] \in OnStack /\ (p.locals > 0 => shape[ip].framed \/ Instr.op = "ret")
<1>1. ip \in Body(p) /\ Loaded /\ p \in ProcsOf(image)
  BY DEF RunsHere, Within
<1>2. /\ ip < Count /\ Count \in Nat /\ p \in Procedure /\ Owner(ip) = {p}
      /\ LocalsHere = (IF p.locals > 0 THEN {p} ELSE {})
  BY <1>1, InsideOne
<1>3. Instr \in Instruction
  BY <1>1, <1>2, InstrTyped
<1>4. Instr = image.code[ip + 1]
  BY DEF Instr
<1>5. Instr.dst \in Operand /\ Instr.src \in Operand
  BY <1>1, <1>2, OperandsTyped
<1>6. shape[ip] \in OnStack /\ (p.locals > 0 => shape[ip].framed \/ Instr.op = "ret")
  BY <1>4 DEF RunsHere, KeepsOwnStack
<1>7. ip \in Nat
  BY <1>1 DEF Loaded
<1> QED
  BY <1>1, <1>2, <1>3, <1>4, <1>5, <1>6, <1>7

LEMMA HereWithin ==
  ASSUME NEW STATE shape, NEW STATE x, NEW STATE p, NEW STATE b, NEW STATE e, NEW STATE l,
         RunsHere(shape, x, p, b, e, l)
  PROVE  /\ x \in Machine /\ b \in Int /\ b <= StackLimit /\ e \in Int /\ l \in Seq(LocalFrame)
         /\ Within(shape, x, ip, p, b, e, l)
         /\ shape[ip].up \in Nat /\ shape[ip].framed \in BOOLEAN /\ p.locals \in Nat
         /\ x.reg["esp"] \in Int /\ x.reg["ebp"] \in Int
         /\ StackBase <= x.reg["esp"] /\ x.reg["esp"] <= b
         /\ (shape[ip].framed => x.reg["esp"] <= b - 1 - p.locals)
         /\ p.locals > 0 => /\ x.locals # <<>> /\ Front(x.locals) = l
                            /\ Last(x.locals) = FrameOf(p, b, e, shape[ip].framed)
         /\ p.locals = 0 => x.locals = l
<1>1. /\ x \in Machine /\ b \in Int /\ b <= StackLimit /\ e \in Int /\ l \in Seq(LocalFrame)
      /\ Within(shape, x, ip, p, b, e, l)
  BY DEF RunsHere
<1>2. p \in Procedure /\ shape[ip] \in OnStack
  BY HereFacts
<1> QED
  <2>1. Stands(shape, x, ip, p, b, e, l)
    BY <1>1, <1>2, WithinFacts
  <2> QED
    BY <1>1, <2>1 DEF Stands

LEMMA HereSpot ==
  ASSUME NEW STATE shape, NEW STATE x, NEW STATE p, NEW STATE b, NEW STATE e, NEW STATE l,
         RunsHere(shape, x, p, b, e, l), Instr.op # "ret"
  PROVE  Spot(x, p, b, shape[ip])
<1>1. p.locals > 0 => shape[ip].framed /\ Last(x.locals).base = b - 1
  <2>1. p.locals > 0 => shape[ip].framed
    BY HereFacts
  <2>2. ASSUME p.locals > 0 PROVE Last(x.locals).base = b - 1
    <3>1. Last(x.locals) = FrameOf(p, b, e, shape[ip].framed)
      BY <2>2, HereWithin
    <3> QED
      BY <3>1 DEF FrameOf
  <2> QED
    BY <2>1, <2>2
<1>2. Within(shape, x, ip, p, b, e, l) /\ p.locals \in Nat /\ b \in Int
  BY HereWithin
<1>3. p.locals > 0 => StackBase <= b - 1
  BY <1>2, Numbers DEF Within
<1> QED
  BY <1>1, <1>2, <1>3 DEF Within, Spot

\* The stack pointer moves by d words, and p goes on.
LEMMA Shift ==
  ASSUME NEW STATE shape, NEW STATE x, NEW STATE p, NEW STATE b, NEW STATE e, NEW STATE l,
         RunsHere(shape, x, p, b, e, l), NEW STATE d, d \in Int, NEW STATE y, NEW STATE j,
         y.reg["esp"] = x.reg["esp"] - d, y.reg["ebp"] = x.reg["ebp"], y.locals = x.locals,
         y.uses = x.uses, StackBase <= y.reg["esp"], Above(p, b, x, y),
         Leads(shape, p, j, [shape[ip] EXCEPT !.up = @ + d])
  PROVE  GoesOn(shape, x, y, p, b, e, l, j)
<1>1. /\ b \in Int /\ b <= StackLimit /\ p.locals \in Nat /\ Within(shape, x, ip, p, b, e, l)
      /\ shape[ip] \in OnStack
  BY HereFacts, HereWithin
<1>2. /\ shape[j].framed = shape[ip].framed /\ shape[j].up = shape[ip].up + d
      /\ j \in Body(p) \cap DOMAIN shape /\ shape[ip].up \in Int
  BY <1>1 DEF Leads, OnStack
<1>3. p.locals > 0 => y.mem[b - 1] = x.mem[b - 1]
  BY <1>1, Numbers DEF Above
<1>4. Within(shape, y, j, p, b, e, l)
  BY <1>1, <1>2, <1>3, Numbers DEF Within
<1> QED
  BY <1>4 DEF GoesOn

\* A write to its own place leaves the stack of a procedure where it is.
LEMMA OwnStore ==
  ASSUME NEW STATE x, x \in Machine, NEW STATE p, p \in Procedure, NEW STATE b, b \in Int,
         NEW STATE s, s \in OnStack, Spot(x, p, b, s), NEW STATE o, o \in Operand,
         NEW STATE v, OwnPlace(p, o, s), WriteFault(o, x) = "ok"
  PROVE  /\ Store(o, x, v).reg["esp"] = x.reg["esp"] /\ Store(o, x, v).reg["ebp"] = x.reg["ebp"]
         /\ Store(o, x, v).uses = x.uses /\ Store(o, x, v).locals = x.locals
         /\ Above(p, b, x, Store(o, x, v))
<1> DEFINE y == Store(o, x, v)
<1>1. o.kind \in OperandKinds /\ o.reg \in Registers /\ o.disp \in Int /\ p.locals \in Nat
  BY DEF Operand, Procedure
<1>2. x.reg \in [Registers -> Int] /\ x.mem \in [Mapped -> Int]
      /\ DOMAIN x = {"reg", "mem", "uses", "locals", "descriptors"}
  BY DEF Machine
<1>3. CASE o.kind = "reg"
  <2>1. o.reg \in General /\ o.reg # "esp" /\ o.reg # "ebp"
    BY <1>3, ConstantsAssumption DEF OwnPlace
  <2>2. y = [x EXCEPT !.reg[o.reg] = v]
    BY <1>3 DEF Store
  <2>3. y.mem = x.mem /\ y.uses = x.uses /\ y.locals = x.locals
        /\ y.reg["esp"] = x.reg["esp"] /\ y.reg["ebp"] = x.reg["ebp"]
    BY <1>2, <2>1, <2>2
  <2> QED
    BY <2>3 DEF Above
<1>4. CASE o.kind \in {"abs", "ind", "local"}
  <2> DEFINE w == Address(o, x)
             from == IF p.locals > 0 THEN b - 1 ELSE b
  <2>1. y = [x EXCEPT !.mem[w] = v]
    BY <1>4 DEF Store
  <2>2. y.reg = x.reg /\ y.uses = x.uses /\ y.locals = x.locals
        /\ y.mem = [x.mem EXCEPT ![w] = v]
    BY <1>2, <2>1
  <2>3. /\ x.reg["esp"] \in Int /\ from \in Int /\ StackBase \in Int /\ StackLimit \in Int
        /\ s.up \in Nat /\ s.framed \in BOOLEAN
    BY <1>1, <1>2, Numbers DEF OnStack
  <2>4. StackBase <= from /\ x.reg["esp"] + s.up <= from
    BY <1>1, <2>3, Numbers DEF Spot
  <2>5. ASSUME NEW a \in from .. StackLimit - 1 PROVE a # w
    <3>1. CASE o.kind = "abs"
      <4>1. w = o.disp /\ o.disp \notin Stack
        BY <3>1 DEF Address, OwnPlace
      <4> QED
        BY <2>3, <2>4, <4>1 DEF Stack
    <3>2. CASE o.kind = "ind"
      <4>1. w = x.reg[o.reg] + o.disp
        BY <3>2 DEF Address
      <4>2. \/ o.reg = "esp" /\ o.disp \in 0 .. s.up - 1
            \/ o.reg = "ebp" /\ s.framed /\ o.disp \in -p.locals .. -1
        BY <3>2 DEF OwnPlace
      <4>3. s.framed => x.reg["ebp"] = b - 1 /\ from = b - 1
        BY DEF Spot
      <4> HIDE DEF from, w
      <4> QED
        BY <1>1, <2>3, <2>4, <4>1, <4>2, <4>3
    <3>3. CASE o.kind = "local"
      <4>1. w = Last(x.locals).base + o.disp /\ o.disp \in -p.locals .. -1
        BY <3>3 DEF Address, OwnPlace
      <4>2. p.locals > 0 /\ o.disp <= -1
        BY <1>1, <4>1
      <4>3. Last(x.locals).base = b - 1 /\ from = b - 1
        BY <4>2 DEF Spot
      <4> HIDE DEF from, w
      <4> QED
        BY <1>1, <2>3, <4>1, <4>2, <4>3
    <3> QED
      BY <1>4, <3>1, <3>2, <3>3
  <2>6. \A a \in from .. StackLimit - 1 : y.mem[a] = x.mem[a]
    <3> HIDE DEF from, w, y
    <3> TAKE a \in from .. StackLimit - 1
    <3>1. a # w
      BY <2>5
    <3> QED
      BY <2>2, <3>1, <1>2
  <2> QED
    BY <2>2, <2>6 DEF Above
<1>5. CASE o.kind \in {"none", "imm", "addr"}
  BY <1>5 DEF WriteFault, ReadFault
<1> QED
  BY <1>1, <1>3, <1>4, <1>5 DEF OperandKinds

\* The words a push writes.
PushedOnto(x, s, y) ==
  /\ y.reg = [x.reg EXCEPT !["esp"] = x.reg["esp"] - Len(s)]
  /\ y.reg["esp"] = x.reg["esp"] - Len(s) /\ y.reg["ebp"] = x.reg["ebp"]
  /\ y.uses = x.uses /\ y.locals = x.locals /\ y.descriptors = x.descriptors
  /\ \A a \in Mapped : a >= x.reg["esp"] => y.mem[a] = x.mem[a]
  /\ \A k \in 1 .. Len(s) : x.reg["esp"] - k \in Mapped => y.mem[x.reg["esp"] - k] = s[k]

LEMMA Pushed ==
  ASSUME NEW STATE x, x \in Machine, NEW STATE s, Len(s) \in Nat
  PROVE  PushedOnto(x, s, PushWords(x, s))
<1> DEFINE esp == x.reg["esp"]
           w == [a \in DOMAIN x.mem |-> IF esp - a \in 1 .. Len(s) THEN s[esp - a] ELSE x.mem[a]]
           y == PushWords(x, s)
<1>1. /\ x.reg \in [Registers -> Int] /\ DOMAIN x.mem = Mapped /\ esp \in Int
      /\ DOMAIN x = {"reg", "mem", "uses", "locals", "descriptors"} /\ Mapped \subseteq Int
      /\ "esp" \in Registers /\ "ebp" \in Registers
  BY Numbers DEF Machine
<1>2. y = [x EXCEPT !.reg["esp"] = esp - Len(s), !.mem = w]
  BY DEF PushWords
<1> HIDE DEF w, y
<1>3. /\ y.reg = [x.reg EXCEPT !["esp"] = esp - Len(s)] /\ y.mem = w
      /\ y.uses = x.uses /\ y.locals = x.locals /\ y.descriptors = x.descriptors
  BY <1>1, <1>2
<1>4. y.reg["esp"] = esp - Len(s) /\ y.reg["ebp"] = x.reg["ebp"]
  BY <1>1, <1>3
<1> HIDE DEF esp
<1>5. ASSUME NEW a \in Mapped, a >= esp PROVE y.mem[a] = x.mem[a]
  <2>1. esp - a \notin 1 .. Len(s)
    BY <1>1, <1>5
  <2> QED
    BY <1>1, <1>3, <2>1 DEF w
<1>6. ASSUME NEW k \in 1 .. Len(s), esp - k \in Mapped PROVE y.mem[esp - k] = s[k]
  <2>1. esp - (esp - k) = k
    BY <1>1
  <2> QED
    BY <1>1, <1>3, <1>6, <2>1 DEF w
<1> QED
  BY <1>3, <1>4, <1>5, <1>6 DEF y, esp, PushedOnto

-----------------------------------------------------------------------------
(* The steps of an activation on its own stack. *)

\* The stack of p with k words more.
More(s, k) == [s EXCEPT !.up = @ + k]

\* What keeping its own stack asks of the current instruction.
LEMMA Asked ==
  ASSUME NEW STATE shape, NEW STATE x, NEW STATE p, NEW STATE b, NEW STATE e, NEW STATE l,
         RunsHere(shape, x, p, b, e, l)
  PROVE  /\ Instr.op \in {"nop", "capture", "mov", "add"} => Leads(shape, p, ip + 1, shape[ip])
         /\ Instr.op \in {"mov", "add"} => OwnPlace(p, Instr.dst, shape[ip])
         /\ Instr.op = "push" => Leads(shape, p, ip + 1, More(shape[ip], 1))
         /\ Instr.op = "pop" => /\ shape[ip].up > 0 /\ OwnPlace(p, Instr.dst, More(shape[ip], -1))
                                /\ Leads(shape, p, ip + 1, More(shape[ip], -1))
         /\ Instr.op = "leave" => /\ shape[ip].framed
                                  /\ Leads(shape, p, ip + 1, [up |-> 0, framed |-> FALSE])
         /\ Instr.op \in {"call", "commit"} =>
              /\ Instr.src.disp = ip + 1 /\ Leads(shape, p, ip + 1, shape[ip])
              /\ \E q \in ProcsOf(image) : Callable(image, shape, Instr, q)
         /\ Instr.op \in {"jmp", "jcc"} => Leads(shape, p, Instr.dst.disp, shape[ip])
         /\ Instr.op = "jcc" => Leads(shape, p, ip + 1, shape[ip])
         /\ Instr.op = "ret" => shape[ip].framed \/ shape[ip].up = 0
<1>1. KeepsOwnStack(image, shape, p, ip) /\ Instr = image.code[ip + 1]
  BY DEF RunsHere, Instr
<1>2. Instr.op \in {"nop", "capture"} => Leads(shape, p, ip + 1, shape[ip])
  BY <1>1 DEF KeepsOwnStack
<1>3. Instr.op \in {"mov", "add"} =>
        Leads(shape, p, ip + 1, shape[ip]) /\ OwnPlace(p, Instr.dst, shape[ip])
  BY <1>1 DEF KeepsOwnStack
<1>4. Instr.op = "push" => Leads(shape, p, ip + 1, More(shape[ip], 1))
  BY <1>1 DEF KeepsOwnStack, More
<1>5. Instr.op = "pop" => /\ shape[ip].up > 0 /\ OwnPlace(p, Instr.dst, More(shape[ip], -1))
                          /\ Leads(shape, p, ip + 1, More(shape[ip], -1))
  BY <1>1 DEF KeepsOwnStack, More
<1>6. Instr.op = "leave" => /\ shape[ip].framed
                            /\ Leads(shape, p, ip + 1, [up |-> 0, framed |-> FALSE])
  BY <1>1 DEF KeepsOwnStack
<1>7. Instr.op \in {"call", "commit"} =>
        /\ Instr.src.disp = ip + 1 /\ Leads(shape, p, ip + 1, shape[ip])
        /\ \E q \in ProcsOf(image) : Callable(image, shape, Instr, q)
  BY <1>1 DEF KeepsOwnStack
<1>8. Instr.op \in {"jmp", "jcc"} => Leads(shape, p, Instr.dst.disp, shape[ip])
  BY <1>1 DEF KeepsOwnStack
<1>9. Instr.op = "jcc" => Leads(shape, p, ip + 1, shape[ip])
  BY <1>1 DEF KeepsOwnStack
<1>10. Instr.op = "ret" => shape[ip].framed \/ shape[ip].up = 0
  BY <1>1 DEF KeepsOwnStack
<1> QED
  BY <1>2, <1>3, <1>4, <1>5, <1>6, <1>7, <1>8, <1>9, <1>10

\* The same machine, or one that differs elsewhere, at an instruction with the same stack.
LEMMA SameStack ==
  ASSUME NEW STATE shape, NEW STATE x, NEW STATE p, NEW STATE b, NEW STATE e, NEW STATE l,
         RunsHere(shape, x, p, b, e, l), NEW STATE y, NEW STATE j,
         y.reg["esp"] = x.reg["esp"], y.reg["ebp"] = x.reg["ebp"], y.locals = x.locals,
         y.uses = x.uses, Above(p, b, x, y), Leads(shape, p, j, shape[ip])
  PROVE  GoesOn(shape, x, y, p, b, e, l, j)
<1>1. shape[ip] = [shape[ip] EXCEPT !.up = @ + 0]
  <2>1. shape[ip] \in OnStack
    BY HereFacts
  <2>2. shape[ip].up + 0 = shape[ip].up
    BY <2>1 DEF OnStack
  <2> QED
    BY <2>1, <2>2 DEF OnStack
<1>2. Leads(shape, p, j, [shape[ip] EXCEPT !.up = @ + 0])
  BY <1>1
<1>3. x.reg["esp"] \in Int /\ StackBase <= x.reg["esp"]
  BY HereWithin
<1>4. y.reg["esp"] = x.reg["esp"] - 0 /\ StackBase <= y.reg["esp"] /\ 0 \in Int
  BY <1>3
<1> QED
  BY <1>2, <1>4, Shift

LEMMA StaysGoesOn ==
  ASSUME NEW STATE shape, NEW STATE x, NEW STATE p, NEW STATE b, NEW STATE e, NEW STATE l,
         RunsHere(shape, x, p, b, e, l), NEW STATE j, Leads(shape, p, j, shape[ip])
  PROVE  GoesOn(shape, x, x, p, b, e, l, j)
<1>1. Above(p, b, x, x)
  BY DEF Above
<1> QED
  BY <1>1, SameStack

LEMMA MovGoesOn ==
  ASSUME NEW STATE shape, NEW STATE x, NEW STATE p, NEW STATE b, NEW STATE e, NEW STATE l,
         RunsHere(shape, x, p, b, e, l), Instr.op \in {"mov", "add"}, NEW STATE v,
         WriteFault(Instr.dst, x) = "ok"
  PROVE  GoesOn(shape, x, Store(Instr.dst, x, v), p, b, e, l, ip + 1)
<1> DEFINE y == Store(Instr.dst, x, v)
<1>1. /\ p \in Procedure /\ Instr.dst \in Operand /\ shape[ip] \in OnStack
  BY HereFacts
<1>2. x \in Machine /\ b \in Int
  BY HereWithin
<1>3. Spot(x, p, b, shape[ip])
  BY HereSpot
<1>4. OwnPlace(p, Instr.dst, shape[ip]) /\ Leads(shape, p, ip + 1, shape[ip])
  BY Asked
<1>5. /\ y.reg["esp"] = x.reg["esp"] /\ y.reg["ebp"] = x.reg["ebp"]
      /\ y.uses = x.uses /\ y.locals = x.locals /\ Above(p, b, x, y)
  BY <1>1, <1>2, <1>3, <1>4, OwnStore
<1> HIDE DEF y
<1>6. GoesOn(shape, x, y, p, b, e, l, ip + 1)
  BY <1>4, <1>5, SameStack
<1> QED
  BY <1>6 DEF y

\* A word pushed below the stack's words is in the stack.
LEMMA RoomBelow ==
  ASSUME StackBase - 1 \notin DataWords, NEW STATE a, a \in Int, StackBase <= a, a - 1 \in Mapped
  PROVE  StackBase <= a - 1
<1>1. a - 1 # StackBase - 1
  <2>1. StackBase - 1 \notin Stack
    BY Numbers DEF Stack
  <2> QED
    BY <2>1 DEF Mapped
<1> QED
  BY <1>1, Numbers

LEMMA PushGoesOn ==
  ASSUME StackBase - 1 \notin DataWords,
         NEW STATE shape, NEW STATE x, NEW STATE p, NEW STATE b, NEW STATE e, NEW STATE l,
         RunsHere(shape, x, p, b, e, l), Instr.op = "push", PushOutcome(x).status = "ok"
  PROVE  GoesOn(shape, x, PushOutcome(x).m, p, b, e, l, ip + 1)
<1> DEFINE s == <<Value(Instr.src, x)>>
           y == PushWords(x, s)
           esp == x.reg["esp"]
<1>1. PushOutcome(x).m = y /\ esp - 1 \in Mapped
  BY DEF PushOutcome, Ok, Err
<1>2. /\ x \in Machine /\ b \in Int /\ b <= StackLimit /\ p.locals \in Nat
      /\ esp \in Int /\ StackBase <= esp /\ esp <= b
      /\ (shape[ip].framed => esp <= b - 1 - p.locals)
  BY HereWithin
<1>3. Len(s) = 1
  OBVIOUS
<1>4. p.locals > 0 => shape[ip].framed
  BY HereFacts
<1>5. Leads(shape, p, ip + 1, More(shape[ip], 1))
  BY Asked
<1> HIDE DEF s
<1>6. /\ y.reg["esp"] = esp - 1 /\ y.reg["ebp"] = x.reg["ebp"] /\ y.uses = x.uses
      /\ y.locals = x.locals /\ \A a \in Mapped : a >= esp => y.mem[a] = x.mem[a]
  <2>1. PushedOnto(x, s, y)
    BY <1>2, <1>3, Pushed
  <2> QED
    BY <1>3, <2>1 DEF PushedOnto
<1> HIDE DEF y, esp
<1>7. StackBase <= y.reg["esp"]
  BY <1>1, <1>2, <1>6, RoomBelow
<1>8. Above(p, b, x, y)
  <2> SUFFICES ASSUME NEW a \in (IF p.locals > 0 THEN b - 1 ELSE b) .. StackLimit - 1
               PROVE  y.mem[a] = x.mem[a]
    BY DEF Above
  <2>1. a \in Stack /\ a >= esp
    BY <1>2, <1>4, Numbers DEF Stack
  <2> QED
    BY <2>1, <1>6, Numbers
<1>9. Leads(shape, p, ip + 1, [shape[ip] EXCEPT !.up = @ + 1])
  BY <1>5 DEF More
<1>10. GoesOn(shape, x, y, p, b, e, l, ip + 1)
  <2> DEFINE d == 1
  <2>1. d \in Int /\ y.reg["esp"] = x.reg["esp"] - d
        /\ Leads(shape, p, ip + 1, [shape[ip] EXCEPT !.up = @ + d])
    BY <1>6, <1>9 DEF esp
  <2> HIDE DEF d
  <2> QED
    BY <2>1, <1>6, <1>7, <1>8, Shift
<1> QED
  BY <1>1, <1>10

LEMMA PopGoesOn ==
  ASSUME NEW STATE shape, NEW STATE x, NEW STATE p, NEW STATE b, NEW STATE e, NEW STATE l,
         RunsHere(shape, x, p, b, e, l), Instr.op = "pop", PopOutcome(x).status = "ok"
  PROVE  GoesOn(shape, x, PopOutcome(x).m, p, b, e, l, ip + 1)
<1> DEFINE esp == x.reg["esp"]
           z == [x EXCEPT !.reg["esp"] = @ + 1]
           v == x.mem[x.reg["esp"]]
           s == More(shape[ip], -1)
           y == Store(Instr.dst, z, v)
<1>1. PopOutcome(x).m = y /\ WriteFault(Instr.dst, z) = "ok"
  BY DEF PopOutcome, Ok, Err
<1>2. /\ x \in Machine /\ b \in Int /\ b <= StackLimit /\ esp \in Int /\ StackBase <= esp
  BY HereWithin
<1>3. /\ p \in Procedure /\ Instr.dst \in Operand /\ shape[ip] \in OnStack
  BY HereFacts
<1>4. Spot(x, p, b, shape[ip])
  BY HereSpot
<1>5. shape[ip].up > 0 /\ OwnPlace(p, Instr.dst, s) /\ Leads(shape, p, ip + 1, s)
  BY Asked
<1>6. /\ z.reg["esp"] = esp + 1 /\ z.reg["ebp"] = x.reg["ebp"] /\ z.mem = x.mem
      /\ z.uses = x.uses /\ z.locals = x.locals /\ z \in Machine
  <2>1. /\ x.reg \in [Registers -> Int] /\ "esp" \in Registers /\ "ebp" \in Registers
        /\ DOMAIN x = {"reg", "mem", "uses", "locals", "descriptors"}
    BY <1>2, Numbers DEF Machine
  <2>2. /\ z.reg = [x.reg EXCEPT !["esp"] = esp + 1] /\ z.mem = x.mem
        /\ z.uses = x.uses /\ z.locals = x.locals /\ z.descriptors = x.descriptors
    BY <2>1
  <2>3. z.reg["esp"] = esp + 1 /\ z.reg["ebp"] = x.reg["ebp"] /\ z.reg \in [Registers -> Int]
    BY <1>2, <2>1, <2>2
  <2>4. z = [x EXCEPT !.reg = z.reg]
    BY <2>1, <2>2
  <2>5. z \in Machine
    <3> HIDE DEF z
    <3> QED
      BY <1>2, <2>3, <2>4 DEF Machine
  <2> QED
    BY <2>2, <2>3, <2>5
<1>7. s \in OnStack /\ s.up = shape[ip].up - 1 /\ s.framed = shape[ip].framed
  BY <1>3, <1>5 DEF More, OnStack
<1> HIDE DEF z, v, s
<1>8. Spot(z, p, b, s)
  <2>1. p.locals \in Nat /\ shape[ip].up \in Nat
    BY <1>3 DEF Procedure, OnStack
  <2> QED
    BY <1>2, <1>4, <1>6, <1>7, <2>1, Numbers DEF Spot
<1>9. /\ y.reg["esp"] = z.reg["esp"] /\ y.reg["ebp"] = z.reg["ebp"]
      /\ y.uses = z.uses /\ y.locals = z.locals /\ Above(p, b, z, y)
  BY <1>1, <1>2, <1>3, <1>5, <1>6, <1>7, <1>8, OwnStore
<1> HIDE DEF y
<1>10. Above(p, b, x, y)
  BY <1>6, <1>9 DEF Above
<1> DEFINE d == -1
<1>11. d \in Int /\ y.reg["esp"] = x.reg["esp"] - d /\ StackBase <= y.reg["esp"]
  BY <1>2, <1>6, <1>9, Numbers DEF esp
<1>12. Leads(shape, p, ip + 1, [shape[ip] EXCEPT !.up = @ + d])
  BY <1>5 DEF s, More
<1> HIDE DEF d
<1>13. GoesOn(shape, x, y, p, b, e, l, ip + 1)
  BY <1>6, <1>9, <1>10, <1>11, <1>12, Shift
<1> QED
  BY <1>1, <1>13

\* ESP and EBP are the caller's again; the rest but the LOCAL frames is as it was.
GivenBack(x, y, b, e) ==
  /\ y.reg = [x.reg EXCEPT !["esp"] = b, !["ebp"] = e]
  /\ y.reg["esp"] = b /\ y.reg["ebp"] = e
  /\ \A r \in Registers \ {"esp", "ebp"} : y.reg[r] = x.reg[r]
  /\ y.mem = x.mem /\ y.uses = x.uses

LEMMA TopHere ==
  ASSUME NEW STATE shape, NEW STATE x, NEW STATE p, NEW STATE b, NEW STATE e, NEW STATE l,
         RunsHere(shape, x, p, b, e, l), p.locals > 0, NEW STATE a, shape[ip].framed = a
  PROVE  /\ x.locals # <<>> /\ Front(x.locals) = l /\ Last(x.locals) = FrameOf(p, b, e, a)
<1>1. x.locals # <<>> /\ Front(x.locals) = l /\ Last(x.locals) = FrameOf(p, b, e, shape[ip].framed)
  BY HereWithin
<1> QED
  BY <1>1

\* Releasing the frame of the current procedure.
LEMMA ReleasesOwn ==
  ASSUME NEW STATE shape, NEW STATE x, NEW STATE p, NEW STATE b, NEW STATE e, NEW STATE l,
         RunsHere(shape, x, p, b, e, l), shape[ip].framed
  PROVE  /\ ActiveFrame(x) /\ TopLocalOf(x, p) /\ p.locals > 0
         /\ ReleaseLocalFrame(x, p, FALSE).status = "ok" /\ ReleaseLocalFrame(x, p, TRUE).status = "ok"
         /\ GivenBack(x, ReleaseLocalFrame(x, p, FALSE).m, b, e)
         /\ ReleaseLocalFrame(x, p, FALSE).m.locals = Append(l, FrameOf(p, b, e, FALSE))
         /\ GivenBack(x, ReleaseLocalFrame(x, p, TRUE).m, b, e)
         /\ ReleaseLocalFrame(x, p, TRUE).m.locals = l
<1> DEFINE f == Last(x.locals)
           y == [x EXCEPT !.reg["esp"] = f.base + 1, !.reg["ebp"] = f.saved,
                          !.locals = Append(Front(@), [f EXCEPT !.active = FALSE])]
<1>1. /\ x \in Machine /\ b \in Int /\ e \in Int /\ l \in Seq(LocalFrame)
      /\ Within(shape, x, ip, p, b, e, l) /\ p.locals \in Nat
  BY HereWithin
<1>2. /\ p.locals > 0 /\ x.reg["ebp"] = b - 1 /\ x.mem[b - 1] = e
  BY <1>1 DEF Within
<1>3. x.locals # <<>> /\ Front(x.locals) = l /\ f = FrameOf(p, b, e, TRUE)
  <2> DEFINE t == TRUE
  <2>1. shape[ip].framed = t
    BY HereWithin
  <2>2. p.locals > 0
    BY <1>2
  <2> HIDE DEF t
  <2>3. x.locals # <<>> /\ Front(x.locals) = l /\ f = FrameOf(p, b, e, t)
    BY <2>1, <2>2, TopHere
  <2> QED
    BY <2>3 DEF t
<1>4. /\ f.start = p.start /\ f.base = b - 1 /\ f.size = p.locals /\ f.saved = e /\ f.active = TRUE
      /\ [f EXCEPT !.active = FALSE] = FrameOf(p, b, e, FALSE)
  <2> HIDE DEF f
  <2>1. f = [start |-> p.start, base |-> b - 1, size |-> p.locals, saved |-> e, active |-> TRUE]
    BY <1>3 DEF FrameOf
  <2>2. [f EXCEPT !.active = FALSE]
          = [start |-> p.start, base |-> b - 1, size |-> p.locals, saved |-> e, active |-> FALSE]
    <3> DEFINE d == [f EXCEPT !.active = FALSE]
    <3>1. DOMAIN f = {"start", "base", "size", "saved", "active"}
      BY <2>1
    <3>2. /\ DOMAIN d = {"start", "base", "size", "saved", "active"}
          /\ d.start = f.start /\ d.base = f.base /\ d.size = f.size /\ d.saved = f.saved
      BY <3>1
    <3>3. d.active = FALSE
      BY <3>1
    <3>4. d = [a \in {"start", "base", "size", "saved", "active"} |-> d[a]]
      BY <3>2, <3>1
    <3> HIDE DEF d
    <3>5. d = [start |-> p.start, base |-> b - 1, size |-> p.locals, saved |-> e, active |-> FALSE]
      BY <2>1, <3>2, <3>3, <3>4
    <3> QED
      BY <3>5 DEF d
  <2> QED
    BY <2>1, <2>2 DEF FrameOf
<1>5. TopLocalOf(x, p)
  BY <1>3, <1>4 DEF TopLocalOf
<1>6. ActiveFrame(x)
  <2>1. Owner(ip) = {p}
    BY HereFacts
  <2> QED
    BY <1>3, <1>4, <1>5, <2>1 DEF ActiveFrame
<1>7. /\ y.reg = [x.reg EXCEPT !["esp"] = b, !["ebp"] = e]
      /\ y.mem = x.mem /\ y.uses = x.uses
      /\ y.locals = Append(l, FrameOf(p, b, e, FALSE))
      /\ DOMAIN y = {"reg", "mem", "uses", "locals", "descriptors"}
  <2>1. DOMAIN x = {"reg", "mem", "uses", "locals", "descriptors"}
    BY <1>1 DEF Machine
  <2>2. b - 1 + 1 = b
    BY <1>1
  <2> HIDE DEF f
  <2>3. /\ y.reg = [[x.reg EXCEPT !["esp"] = f.base + 1] EXCEPT !["ebp"] = f.saved]
        /\ y.mem = x.mem /\ y.uses = x.uses
        /\ y.locals = Append(Front(x.locals), [f EXCEPT !.active = FALSE])
        /\ DOMAIN y = {"reg", "mem", "uses", "locals", "descriptors"}
    BY <2>1
  <2>4. f.base + 1 = b
    BY <1>4, <2>2
  <2> QED
    BY <1>3, <1>4, <2>3, <2>4
<1>8. GivenBack(x, y, b, e)
  <2>1. x.reg \in [Registers -> Int] /\ "esp" \in Registers /\ "ebp" \in Registers
    BY <1>1, Numbers DEF Machine
  <2> HIDE DEF y
  <2>2. y.reg["esp"] = b /\ y.reg["ebp"] = e /\ \A r \in Registers \ {"esp", "ebp"} : y.reg[r] = x.reg[r]
    BY <1>7, <2>1
  <2> QED
    BY <1>7, <2>2 DEF GivenBack
<1>9. ~(x.reg["ebp"] # f.base \/ x.mem[f.base] # f.saved)
  BY <1>2, <1>4
<1>10. /\ ReleaseLocalFrame(x, p, FALSE) = Ok(y)
       /\ ReleaseLocalFrame(x, p, TRUE) = Ok(DropLocalFrame(y))
  <2> HIDE DEF y
  <2>1. f.active
    BY <1>4
  <2> HIDE DEF f
  <2> QED
    BY <1>5, <1>9, <2>1 DEF ReleaseLocalFrame, f, y
<1>11. GivenBack(x, DropLocalFrame(y), b, e) /\ DropLocalFrame(y).locals = l
  <2> DEFINE z == DropLocalFrame(y)
  <2>1. FrameOf(p, b, e, FALSE) \in LocalFrame
    <3>1. p \in Procedure
      BY HereFacts
    <3> QED
      BY <1>1, <3>1 DEF FrameOf, LocalFrame, Procedure
  <2>2. Front(y.locals) = l
    <3> DEFINE d == FrameOf(p, b, e, FALSE)
    <3>1. d \in LocalFrame /\ y.locals = Append(l, d)
      BY <1>7, <2>1
    <3> HIDE DEF y, d
    <3>2. Front(Append(l, d)) = l
      BY <1>1, <3>1, OneMore
    <3> QED
      BY <3>1, <3>2
  <2> HIDE DEF y
  <2>3. z.reg = y.reg /\ z.mem = y.mem /\ z.uses = y.uses /\ z.locals = Front(y.locals)
    BY <1>7 DEF DropLocalFrame
  <2> HIDE DEF z
  <2> QED
    BY <1>8, <2>2, <2>3 DEF GivenBack, z
<1> HIDE DEF y
<1>12. Ok(y).m = y /\ Ok(y).status = "ok" /\ Ok(DropLocalFrame(y)).m = DropLocalFrame(y)
       /\ Ok(DropLocalFrame(y)).status = "ok"
  BY DEF Ok
<1> QED
  BY <1>2, <1>5, <1>6, <1>7, <1>8, <1>10, <1>11, <1>12

LEMMA LeaveGoesOn ==
  ASSUME NEW STATE shape, NEW STATE x, NEW STATE p, NEW STATE b, NEW STATE e, NEW STATE l,
         RunsHere(shape, x, p, b, e, l), Instr.op = "leave"
  PROVE  /\ LeaveOutcome(x).status = "ok"
         /\ GoesOn(shape, x, LeaveOutcome(x).m, p, b, e, l, ip + 1)
<1> DEFINE o == ReleaseLocalFrame(x, p, FALSE)
           y == o.m
<1>1. shape[ip].framed /\ Leads(shape, p, ip + 1, [up |-> 0, framed |-> FALSE])
  BY Asked
<1>2. /\ ActiveFrame(x) /\ TopLocalOf(x, p) /\ p.locals > 0 /\ o.status = "ok"
      /\ GivenBack(x, y, b, e) /\ y.locals = Append(l, FrameOf(p, b, e, FALSE))
  BY <1>1, ReleasesOwn
<1>3. LeaveOutcome(x) = o
  <2>1. Owner(ip) = {p}
    BY HereFacts
  <2>2. (CHOOSE q \in Owner(ip) : TopLocalOf(x, q)) = p
    BY <1>2, <2>1
  <2> HIDE DEF o
  <2> QED
    BY <1>2, <2>2 DEF LeaveOutcome, o
<1> HIDE DEF y
<1>4. /\ b \in Int /\ p.locals \in Nat /\ Within(shape, x, ip, p, b, e, l)
      /\ StackBase <= x.reg["esp"] /\ x.reg["esp"] <= b /\ x.reg["esp"] \in Int
  BY HereWithin
<1>5. /\ shape[ip + 1].up = 0 /\ shape[ip + 1].framed = FALSE
      /\ ip + 1 \in Body(p) \cap DOMAIN shape
  BY <1>1 DEF Leads
<1>6. StackBase <= y.reg["esp"] /\ y.reg["esp"] = b - 0 /\ y.reg["ebp"] = e /\ y.mem = x.mem
      /\ y.uses = x.uses
  BY <1>2, <1>4, Numbers DEF GivenBack
<1>7. Within(shape, y, ip + 1, p, b, e, l)
  <2>1. y.locals = Append(l, FrameOf(p, b, e, shape[ip + 1].framed))
    BY <1>2, <1>5
  <2>2. p.locals > 0 => StackBase <= b - 1 - p.locals /\ y.mem[b - 1] = e
    BY <1>4, <1>6 DEF Within
  <2> QED
    <3>1. ~shape[ip + 1].framed
      BY <1>5
    <3>2. y.reg["esp"] = (IF shape[ip + 1].framed THEN b - 1 - p.locals ELSE b) - shape[ip + 1].up
      BY <1>5, <1>6, <3>1
    <3>3. y.reg["ebp"] = IF shape[ip + 1].framed THEN b - 1 ELSE e
      BY <1>6, <3>1
    <3>4. y.locals = IF p.locals = 0 THEN l ELSE Append(l, FrameOf(p, b, e, shape[ip + 1].framed))
      <4>1. p.locals # 0
        BY <1>2, <1>4
      <4> QED
        BY <2>1, <4>1
    <3> QED
      BY <1>5, <1>6, <2>2, <3>1, <3>2, <3>3, <3>4 DEF Within
<1>8. Above(p, b, x, y)
  BY <1>6 DEF Above
<1> QED
  BY <1>2, <1>3, <1>6, <1>7, <1>8 DEF GoesOn, y

\* RET and EXIT give the caller's ESP, EBP and frames back.
LEMMA ReleasesHere ==
  ASSUME NEW STATE shape, NEW STATE x, NEW STATE p, NEW STATE b, NEW STATE e, NEW STATE l,
         RunsHere(shape, x, p, b, e, l), Instr.op = "ret"
  PROVE  /\ ReleaseHere(x).status = "ok" /\ GivenBack(x, ReleaseHere(x).m, b, e)
         /\ ReleaseHere(x).m.locals = l
<1>1. shape[ip].framed \/ shape[ip].up = 0
  BY Asked
<1>2. LocalsHere = (IF p.locals > 0 THEN {p} ELSE {}) /\ p \in Procedure
  BY HereFacts
<1>3. /\ x \in Machine /\ b \in Int /\ p.locals \in Nat /\ Within(shape, x, ip, p, b, e, l)
      /\ shape[ip].framed \in BOOLEAN /\ e \in Int
  BY HereWithin
<1>4. ASSUME ~shape[ip].framed, NEW STATE y, y.reg = x.reg, y.mem = x.mem, y.uses = x.uses
      PROVE  GivenBack(x, y, b, e)
  <2>1. x.reg["esp"] = b /\ x.reg["ebp"] = e
    BY <1>1, <1>3, <1>4 DEF Within
  <2>2. x.reg \in [Registers -> Int]
    BY <1>3 DEF Machine
  <2>3. x.reg = [x.reg EXCEPT !["esp"] = b, !["ebp"] = e]
    BY <2>1, <2>2
  <2> QED
    BY <1>4, <2>1, <2>3 DEF GivenBack
<1>5. CASE p.locals = 0
  <2>1. LocalsHere = {} /\ ~shape[ip].framed
    BY <1>2, <1>3, <1>5 DEF Within
  <2>2. ReleaseHere(x) = Ok(x)
    BY <2>1 DEF ReleaseHere
  <2>3. ReleaseHere(x).status = "ok" /\ ReleaseHere(x).m = x
    BY <2>2 DEF Ok
  <2>4. x.locals = l
    BY <1>5, HereWithin
  <2>5. GivenBack(x, x, b, e)
    BY <1>4, <2>1
  <2> QED
    BY <2>3, <2>4, <2>5
<1>6. CASE p.locals > 0
  <2>1. ReleaseHere(x) = ReleaseLocalFrame(x, p, TRUE)
    BY <1>2, <1>6 DEF ReleaseHere
  <2>2. CASE shape[ip].framed
    BY <2>1, <2>2, ReleasesOwn
  <2>3. CASE ~shape[ip].framed
    <3> DEFINE z == DropLocalFrame(x)
               f == Last(x.locals)
    <3>1. shape[ip].framed = FALSE
      BY <1>3, <2>3
    <3>2. x.locals # <<>> /\ Front(x.locals) = l /\ f = FrameOf(p, b, e, FALSE)
      <4>1. x.locals # <<>> /\ Front(x.locals) = l /\ f = FrameOf(p, b, e, shape[ip].framed)
        BY <1>6, HereWithin
      <4> QED
        BY <3>1, <4>1
    <3>3. f.active = FALSE /\ f.start = p.start
      BY <3>2 DEF FrameOf
    <3>4. TopLocalOf(x, p)
      BY <3>2, <3>3 DEF TopLocalOf
    <3>5. ReleaseLocalFrame(x, p, TRUE) = Ok(z)
      <4> HIDE DEF z, f
      <4> QED
        BY <3>3, <3>4 DEF ReleaseLocalFrame, f, z
    <3>6. z.reg = x.reg /\ z.mem = x.mem /\ z.uses = x.uses /\ z.locals = Front(x.locals)
      <4>1. DOMAIN x = {"reg", "mem", "uses", "locals", "descriptors"}
        BY <1>3 DEF Machine
      <4> QED
        BY <4>1 DEF DropLocalFrame
    <3> HIDE DEF z
    <3>7. GivenBack(x, z, b, e)
      BY <1>4, <2>3, <3>6
    <3>8. Ok(z).m = z /\ Ok(z).status = "ok"
      BY DEF Ok
    <3> QED
      BY <2>1, <3>2, <3>5, <3>6, <3>7, <3>8
  <2> QED
    BY <2>2, <2>3
<1> QED
  BY <1>3, <1>5, <1>6

\* Whatever it releases, it leaves memory and USES frames alone.
LEMMA ReleaseIsQuiet ==
  ASSUME NEW STATE x, x \in Machine
  PROVE  ReleaseHere(x).m.mem = x.mem /\ ReleaseHere(x).m.uses = x.uses
<1>1. DOMAIN x = {"reg", "mem", "uses", "locals", "descriptors"}
  BY DEF Machine
<1> DEFINE f == Last(x.locals)
           y == [x EXCEPT !.reg["esp"] = f.base + 1, !.reg["ebp"] = f.saved,
                          !.locals = Append(Front(@), [f EXCEPT !.active = FALSE])]
<1>2. y.mem = x.mem /\ y.uses = x.uses /\ DOMAIN y = {"reg", "mem", "uses", "locals", "descriptors"}
  BY <1>1
<1>3. DropLocalFrame(x).mem = x.mem /\ DropLocalFrame(x).uses = x.uses
  BY <1>1 DEF DropLocalFrame
<1> HIDE DEF y
<1>4. DropLocalFrame(y).mem = x.mem /\ DropLocalFrame(y).uses = x.uses
  BY <1>2 DEF DropLocalFrame
<1>5. ASSUME NEW p
      PROVE  ReleaseLocalFrame(x, p, TRUE).m \in {x, DropLocalFrame(x), DropLocalFrame(y)}
  BY DEF ReleaseLocalFrame, Ok, Err, y
<1>6. ReleaseHere(x).m \in {x, DropLocalFrame(x), DropLocalFrame(y)}
  BY <1>5 DEF ReleaseHere, Ok
<1> QED
  BY <1>3, <1>4, <1>6

-----------------------------------------------------------------------------
(* Calling and returning. *)

\* Machine x runs the current instruction, inside call c.
RunsCall(shape, x, c) ==
  /\ c \in Outstanding /\ Returns(image, shape, c)
  /\ RunsHere(shape, x, c.callee, Bottom(c), c.was.reg["ebp"], c.was.locals)
  /\ x.uses = UsesIn(c) /\ UsesNamed(image, x) /\ Holds(x, c)

LEMMA CallTyped ==
  ASSUME NEW STATE c, c \in Outstanding
  PROVE  /\ c.back \in Int /\ c.args \in Nat /\ c.callee \in Procedure /\ c.was \in Machine
         /\ c.callee.uses \in Seq(General) /\ Len(c.callee.uses) \in Nat
         /\ DOMAIN c.callee.uses = 1 .. Len(c.callee.uses)
         /\ c.was.reg \in [Registers -> Int] /\ c.was.reg["esp"] \in Int /\ c.was.reg["ebp"] \in Int
         /\ c.was.mem \in [Mapped -> Int] /\ c.was.uses \in Seq(UsesFrame)
         /\ c.was.locals \in Seq(LocalFrame)
         /\ TokenAt(c) \in Int /\ Bottom(c) \in Int /\ Bottom(c) = TokenAt(c) - Len(c.callee.uses)
         /\ TokenAt(c) = c.was.reg["esp"] - c.args - 1
         /\ Bottom(c) <= TokenAt(c) /\ TokenAt(c) < c.was.reg["esp"]
<1>1. c.back \in Int /\ c.args \in Nat /\ c.callee \in Procedure /\ c.was \in Machine
  BY DEF Outstanding
<1>2. c.callee.uses \in Seq(General)
  BY <1>1 DEF Procedure
<1>3. Len(c.callee.uses) \in Nat /\ DOMAIN c.callee.uses = 1 .. Len(c.callee.uses)
  BY <1>2, LenProperties
<1>4. /\ c.was.reg \in [Registers -> Int] /\ c.was.reg["esp"] \in Int /\ c.was.reg["ebp"] \in Int
      /\ c.was.mem \in [Mapped -> Int] /\ c.was.uses \in Seq(UsesFrame)
      /\ c.was.locals \in Seq(LocalFrame)
  BY <1>1, Numbers DEF Machine
<1>5. /\ TokenAt(c) = c.was.reg["esp"] - c.args - 1
      /\ Bottom(c) = TokenAt(c) - Len(c.callee.uses)
  BY DEF TokenAt, Bottom
<1> QED
  BY <1>1, <1>2, <1>3, <1>4, <1>5

\* The token of a call is in the stack, above all that the callee has.
LEMMA TokenInStack ==
  ASSUME NEW STATE shape, NEW STATE x, NEW STATE c, RunsCall(shape, x, c)
  PROVE  /\ StackBase <= x.reg["esp"] /\ x.reg["esp"] <= Bottom(c) /\ x.reg["esp"] \in Int
         /\ c.was.reg["esp"] <= StackLimit /\ TokenAt(c) \in Stack
         /\ Bottom(c) .. TokenAt(c) - 1 \subseteq Stack
<1>1. /\ RunsHere(shape, x, c.callee, Bottom(c), c.was.reg["ebp"], c.was.locals)
      /\ c \in Outstanding /\ c.was.reg["esp"] <= StackLimit
  BY DEF RunsCall, Returns
<1>2. StackBase <= x.reg["esp"] /\ x.reg["esp"] <= Bottom(c) /\ x.reg["esp"] \in Int
  BY <1>1, HereWithin
<1> QED
  BY <1>1, <1>2, CallTyped, Numbers DEF Stack

\* A USES frame on top bears the start of the current procedure only if it is its own.
LEMMA RestoresOwn ==
  ASSUME NEW STATE shape, NEW STATE x, NEW STATE c, RunsCall(shape, x, c),
         NEW STATE y, y.uses = x.uses
  PROVE  /\ RestoredBy(y) = c.callee.uses
         /\ c.callee.uses = <<>> => y.uses = c.was.uses
         /\ c.callee.uses # <<>> => y.uses # <<>> /\ Front(y.uses) = c.was.uses
<1> DEFINE p == c.callee
<1>1. /\ c \in Outstanding /\ Returns(image, shape, c) /\ x.uses = UsesIn(c) /\ UsesNamed(image, x)
      /\ RunsHere(shape, x, p, Bottom(c), c.was.reg["ebp"], c.was.locals)
  BY DEF RunsCall
<1>2. /\ p \in Procedure /\ p.uses \in Seq(General) /\ c.was.uses \in Seq(UsesFrame)
  BY <1>1, CallTyped
<1>3. Owner(ip) = {p}
  BY <1>1, HereFacts
<1>4. CASE p.uses = <<>>
  <2>1. y.uses = c.was.uses
    BY <1>1, <1>4 DEF UsesIn
  <2>2. ~TopUsesOf(y, p)
    <3> SUFFICES ASSUME y.uses # <<>>, Last(y.uses).start = p.start PROVE FALSE
      BY DEF TopUsesOf
    <3>1. Len(y.uses) \in DOMAIN x.uses /\ Last(y.uses) = x.uses[Len(y.uses)]
      <4> DEFINE u == y.uses
      <4>1. u \in Seq(UsesFrame) /\ u # <<>> /\ x.uses = u
        BY <1>2, <2>1
      <4> HIDE DEF u
      <4>2. Len(u) \in Nat \ {0} /\ DOMAIN u = 1 .. Len(u) /\ Last(u) = u[Len(u)]
        BY <4>1, FrontOf
      <4>3. Len(u) \in DOMAIN u
        BY <4>2
      <4> QED
        BY <4>1, <4>2, <4>3 DEF u
    <3>2. PICK q \in ProcsOf(image) : q.start < q.end /\ q.uses # <<>> /\ q.start = p.start
      BY <1>1, <3>1 DEF UsesNamed
    <3>3. p \in ProcsOf(image) /\ p.start < p.end
      BY <1>1 DEF Returns
    <3>4. image \in Image
      BY <1>1 DEF RunsHere, Loaded
    <3>5. /\ q.start \in Int /\ q.end \in Int /\ p.end \in Int
      BY <3>2, <3>3, <3>4, ProcsApart
    <3>6. q.start \in Body(p) /\ q.start \in Body(q)
      BY <3>2, <3>3, <3>5 DEF Body
    <3>7. q = p
      BY <3>2, <3>3, <3>4, <3>5, <3>6, ProcsApart
    <3> QED
      BY <1>4, <3>2, <3>7
  <2>3. RestoredBy(y) = <<>>
    BY <1>3, <2>2 DEF RestoredBy
  <2> QED
    BY <1>4, <2>1, <2>3
<1>5. CASE p.uses # <<>>
  <2> DEFINE f == [start |-> p.start, regs |-> p.uses]
  <2>1. y.uses = Append(c.was.uses, f)
    BY <1>1, <1>5 DEF UsesIn
  <2>2. f \in UsesFrame
    BY <1>2 DEF UsesFrame, Procedure
  <2>3. f.start = p.start /\ f.regs = p.uses
    OBVIOUS
  <2> HIDE DEF f
  <2>4. y.uses # <<>> /\ Front(y.uses) = c.was.uses /\ Last(y.uses) = f
    BY <1>2, <2>1, <2>2, OneMore
  <2>5. TopUsesOf(y, p)
    BY <2>3, <2>4 DEF TopUsesOf
  <2>6. RestoredBy(y) = p.uses
    BY <1>3, <2>3, <2>4, <2>5 DEF RestoredBy
  <2> QED
    BY <1>5, <2>4, <2>6
<1> QED
  BY <1>4, <1>5

\* The machine z that a RET of call c leaves: the caller's stack, frames and EBP again, and the
\* registers it saved as they are found in memory.
Resumes(x, c, z) ==
  /\ z.reg["esp"] = c.was.reg["esp"] /\ z.reg["ebp"] = c.was.reg["ebp"]
  /\ z.locals = c.was.locals /\ z.uses = c.was.uses /\ z.mem = x.mem
  /\ \A r \in ToSet(c.callee.uses) : z.reg[r] = x.mem[SavedAt(c, r)]

LEMMA RetResumes ==
  ASSUME NEW STATE shape, NEW STATE x, NEW STATE c, RunsCall(shape, x, c),
         Safe(x), Instr.op = "ret", c.back \in 0 .. Count - 1
  PROVE  /\ HelperRetOutcome(x).status = "ok" /\ ReturnIndex(x) = c.back
         /\ Resumes(x, c, HelperRetOutcome(x).m)
<1> DEFINE p == c.callee
           b == Bottom(c)
           r == ReleaseHere(x)
           y == r.m
           regs == RestoredBy(y)
           n == Len(regs)
           esp == y.reg["esp"]
           token == esp + n
           final == token + 1 + Instr.src.disp
           Restored(q) == \E k \in 1 .. n : regs[k] = q
           At(q) == esp + n - CHOOSE k \in 1 .. n : regs[k] = q
           z == [y EXCEPT !.reg = [q \in Registers |-> IF q = "esp" THEN final
                                     ELSE IF Restored(q) THEN y.mem[At(q)] ELSE y.reg[q]],
                          !.uses = IF n = 0 THEN @ ELSE Front(@)]
<1>1. /\ c \in Outstanding /\ Returns(image, shape, c) /\ x.uses = UsesIn(c)
      /\ RunsHere(shape, x, p, b, c.was.reg["ebp"], c.was.locals) /\ Holds(x, c)
  BY DEF RunsCall
<1>2. /\ r.status = "ok" /\ GivenBack(x, y, b, c.was.reg["ebp"]) /\ y.locals = c.was.locals
  BY <1>1, ReleasesHere
<1>3. y.uses = x.uses /\ y.mem = x.mem /\ esp = b /\ y.reg["ebp"] = c.was.reg["ebp"]
  BY <1>2 DEF GivenBack
<1>4. /\ regs = p.uses /\ (p.uses = <<>> => y.uses = c.was.uses)
      /\ (p.uses # <<>> => y.uses # <<>> /\ Front(y.uses) = c.was.uses)
  <2> HIDE DEF y, p
  <2>1. y.uses = x.uses
    BY <1>3
  <2> QED
    BY <2>1, RestoresOwn DEF p
<1>5. /\ n \in Nat /\ token = TokenAt(c) /\ DOMAIN p.uses = 1 .. n /\ p.uses \in Seq(General)
      /\ TokenAt(c) \in Int /\ c.was.reg["esp"] \in Int /\ c.args \in Nat /\ b \in Int
      /\ TokenAt(c) = c.was.reg["esp"] - c.args - 1
  BY <1>1, <1>3, <1>4, CallTyped
<1>6. /\ StackBase <= b /\ TokenAt(c) \in Mapped /\ b .. TokenAt(c) - 1 \subseteq Mapped
      /\ c.was.reg["esp"] <= StackLimit /\ StackBase <= c.was.reg["esp"]
  <2>1. /\ StackBase <= x.reg["esp"] /\ x.reg["esp"] <= b /\ x.reg["esp"] \in Int
        /\ c.was.reg["esp"] <= StackLimit /\ TokenAt(c) \in Stack
        /\ b .. TokenAt(c) - 1 \subseteq Stack
    BY TokenInStack
  <2>2. b <= TokenAt(c) /\ TokenAt(c) < c.was.reg["esp"]
    BY <1>1, CallTyped
  <2> QED
    BY <1>5, <2>1, <2>2, Numbers
<1>7. Instr.src.disp = c.args
  <2>1. ip \in Body(p) \cap DOMAIN shape
    BY <1>1 DEF RunsHere, Within
  <2>2. Instr = image.code[ip + 1]
    BY DEF Instr
  <2> QED
    BY <1>1, <2>1, <2>2 DEF Returns
<1>8. final = c.was.reg["esp"]
  BY <1>5, <1>7
<1>9. y.mem[token] = TokenBase + c.back
  BY <1>1, <1>3, <1>5 DEF Holds
<1>10. y.mem[token] - TokenBase = c.back
  <2>1. c.back \in Int /\ TokenBase \in Int
    BY <1>1, CallTyped, Numbers
  <2> QED
    BY <1>9, <2>1
<1>11. HelperRetOutcome(x) = Ok(z)
  <2>1. esp .. token - 1 \subseteq Mapped /\ token \in Mapped
    BY <1>3, <1>5, <1>6
  <2>2. y.mem[token] - TokenBase \in 0 .. Count - 1
    BY <1>10
  <2>3. final \in StackBase .. StackLimit
    BY <1>5, <1>6, <1>8, Numbers
  <2>4. HelperRetOutcome(x) =
          IF r.status # "ok" THEN r
          ELSE IF ~(esp .. token - 1 \subseteq Mapped) THEN Err("stack-underflow", y)
          ELSE IF token \notin Mapped THEN Err("memory-error", y)
          ELSE IF y.mem[token] - TokenBase \notin 0 .. Count - 1 THEN Err("invalid-return-address", y)
          ELSE IF final \notin StackBase .. StackLimit THEN Err("ret-stack-cleanup-out-of-range", y)
          ELSE Ok(z)
    BY DEF HelperRetOutcome
  <2> HIDE DEF z, final, token, esp, y, r
  <2> QED
    BY <1>2, <2>1, <2>2, <2>3, <2>4
<1>12. ReturnIndex(x) = c.back
  <2>1. ReturnIndex(x) = y.mem[token] - TokenBase
    BY DEF ReturnIndex
  <2> QED
    BY <1>10, <2>1
<1>13. DOMAIN y = {"reg", "mem", "uses", "locals", "descriptors"}
  <2>1. y \in Machine
    BY ReleaseHereSafe DEF Safe
  <2> QED
    BY <2>1 DEF Machine
<1>14. /\ z.reg = [q \in Registers |-> IF q = "esp" THEN final
                     ELSE IF Restored(q) THEN y.mem[At(q)] ELSE y.reg[q]]
       /\ z.uses = (IF n = 0 THEN y.uses ELSE Front(y.uses)) /\ z.mem = y.mem /\ z.locals = y.locals
  <2> HIDE DEF y, final, n, Restored, At
  <2> QED
    BY <1>13
<1> HIDE DEF z
<1>15. z.uses = c.was.uses
  <2>1. n = 0 <=> p.uses = <<>>
    BY <1>4, <1>5, EmptySeq
  <2> QED
    BY <1>4, <1>14, <2>1
<1>16. z.reg["esp"] = c.was.reg["esp"]
  BY <1>8, <1>14, Numbers
<1>17. z.reg["ebp"] = c.was.reg["ebp"]
  <2>1. ~Restored("ebp")
    <3>1. \A k \in 1 .. n : p.uses[k] \in General
      BY <1>4, <1>5, ElementOfSeq
    <3> QED
      BY <1>4, <3>1, ConstantsAssumption
  <2>2. "ebp" \in Registers /\ "ebp" # "esp"
    BY Numbers
  <2> HIDE DEF Restored, At, final, y
  <2> QED
    BY <1>3, <1>14, <2>1, <2>2
<1>18. ASSUME NEW q \in ToSet(p.uses)
       PROVE  z.reg[q] = x.mem[SavedAt(c, q)]
  <2>1. Restored(q) /\ q \in General
    <3>1. \E k \in 1 .. n : p.uses[k] = q
      BY <1>5 DEF ToSet
    <3>2. q \in General
      BY <3>1, <1>4, <1>5, ElementOfSeq
    <3> QED
      BY <1>4, <3>1, <3>2
  <2>2. q \in Registers /\ q # "esp"
    BY <2>1, ConstantsAssumption DEF Registers
  <2>3. At(q) = SavedAt(c, q)
    <3>1. SavedAt(c, q) = TokenAt(c) - CHOOSE k \in DOMAIN p.uses : p.uses[k] = q
      BY DEF SavedAt
    <3> DEFINE j == CHOOSE k \in 1 .. n : regs[k] = q
    <3>2. j \in 1 .. n
      BY <2>1
    <3>3. At(q) = esp + (n - j)
      OBVIOUS
    <3>4. j = CHOOSE k \in DOMAIN p.uses : p.uses[k] = q
      <4> HIDE DEF n, regs
      <4> QED
        BY <1>4, <1>5
    <3>5. token = esp + n
      OBVIOUS
    <3> HIDE DEF At, token, n, regs, j, esp
    <3> QED
      BY <1>3, <1>5, <3>1, <3>2, <3>3, <3>4, <3>5
  <2> HIDE DEF Restored, At, final, y
  <2> QED
    BY <1>3, <1>14, <2>1, <2>2, <2>3
<1>19. Resumes(x, c, z)
  BY <1>2, <1>3, <1>14, <1>15, <1>16, <1>17, <1>18 DEF Resumes
<1> QED
  BY <1>11, <1>12, <1>19 DEF Ok

\* A LOCAL frame of p on top of x.
FramePut(x, p, y) ==
  /\ y.reg["esp"] = x.reg["esp"] - (p.locals + 1) /\ y.reg["ebp"] = x.reg["esp"] - 1
  /\ y.locals = Append(x.locals, FrameOf(p, x.reg["esp"], x.reg["ebp"], TRUE))
  /\ y.uses = x.uses /\ y.mem[x.reg["esp"] - 1] = x.reg["ebp"]
  /\ \A a \in Mapped : a >= x.reg["esp"] => y.mem[a] = x.mem[a]

LEMMA PutsFrame ==
  ASSUME NEW STATE x, x \in Machine, NEW STATE p, p \in Procedure, RoomForFrame(x, p),
         CanReserve(x.reg["esp"], p.locals + 1)
  PROVE  SetupLocalFrame(x, p).status = "ok" /\ FramePut(x, p, SetupLocalFrame(x, p).m)
<1> DEFINE zeros == [k \in 1 .. p.locals |-> 0]
           s == <<x.reg["ebp"]>> \o zeros
           esp == x.reg["esp"]
           base == x.reg["esp"] - 1
           y == PushWords(x, s)
           f == [start |-> p.start, base |-> base, size |-> p.locals,
                 saved |-> x.reg["ebp"], active |-> TRUE]
           z == [y EXCEPT !.reg["ebp"] = base, !.locals = Append(@, f),
                          !.descriptors = @ + p.locals]
<1>1. /\ x.reg \in [Registers -> Int] /\ esp \in Int /\ x.reg["ebp"] \in Int /\ p.locals \in Nat
      /\ DOMAIN x = {"reg", "mem", "uses", "locals", "descriptors"}
      /\ "esp" \in Registers /\ "ebp" \in Registers
  BY Numbers DEF Machine, Procedure
<1>2. Len(s) = p.locals + 1 /\ s[1] = x.reg["ebp"]
  <2>1. zeros \in Seq(Int) /\ Len(zeros) = p.locals
    BY <1>1, IsASeq
  <2> DEFINE t == <<x.reg["ebp"]>>
  <2>2. t \in Seq(Int) /\ Len(t) = 1 /\ t[1] = x.reg["ebp"]
    BY <1>1
  <2> HIDE DEF zeros, t
  <2>3. /\ Len(t \o zeros) = Len(t) + Len(zeros)
        /\ \A i \in 1 .. Len(t) + Len(zeros) :
             (t \o zeros)[i] = IF i <= Len(t) THEN t[i] ELSE zeros[i - Len(t)]
    BY <2>1, <2>2, ConcatProperties
  <2>4. Len(t \o zeros) = p.locals + 1 /\ (t \o zeros)[1] = t[1]
    BY <1>1, <2>1, <2>2, <2>3
  <2> QED
    BY <2>2, <2>4 DEF t, zeros
<1> HIDE DEF s
<1>3. PushedOnto(x, s, y)
  BY <1>1, <1>2, Pushed
<1>4. SetupLocalFrame(x, p) = Ok(z)
  BY DEF SetupLocalFrame, s, y
<1>5. base \in Mapped
  BY <1>1, Numbers DEF CanReserve, Mapped, Stack
<1>6. DOMAIN y = {"reg", "mem", "uses", "locals", "descriptors"}
  <2>1. y = [[x EXCEPT !.reg["esp"] = x.reg["esp"] - Len(s)] EXCEPT !.mem =
               [a \in DOMAIN x.mem |-> IF x.reg["esp"] - a \in 1 .. Len(s) THEN s[x.reg["esp"] - a] ELSE x.mem[a]]]
    BY DEF PushWords
  <2> QED
    BY <1>1, <2>1
<1> HIDE DEF y
<1>7. /\ z.reg = [y.reg EXCEPT !["ebp"] = base] /\ z.mem = y.mem /\ z.uses = y.uses
      /\ z.locals = Append(y.locals, f)
  <2> HIDE DEF f, base
  <2> QED
    BY <1>6
<1> HIDE DEF z
<1>8. z.reg["esp"] = esp - (p.locals + 1) /\ z.reg["ebp"] = base
  <2>1. y.reg = [x.reg EXCEPT !["esp"] = esp - Len(s)]
    BY <1>3 DEF PushedOnto
  <2> QED
    BY <1>1, <1>2, <1>7, <2>1
<1>9. f = FrameOf(p, esp, x.reg["ebp"], TRUE)
  BY DEF FrameOf
<1> HIDE DEF f
<1>10. z.locals = Append(x.locals, FrameOf(p, esp, x.reg["ebp"], TRUE)) /\ z.uses = x.uses
  BY <1>3, <1>7, <1>9 DEF PushedOnto
<1>11. z.mem[base] = x.reg["ebp"]
  <2>1. 1 \in 1 .. Len(s) /\ esp - 1 \in Mapped
    BY <1>1, <1>2, <1>5
  <2> QED
    BY <1>2, <1>3, <1>7, <2>1 DEF PushedOnto
<1>12. \A a \in Mapped : a >= esp => z.mem[a] = x.mem[a]
  BY <1>3, <1>7 DEF PushedOnto
<1>13. FramePut(x, p, z)
  BY <1>8, <1>10, <1>11, <1>12 DEF FramePut
<1> QED
  BY <1>4, <1>13 DEF Ok

\* What a CALL of q with a token writes on top of x.
CallPut(x, token, q, y) ==
  LET t == x.reg["esp"] - 1
      b == t - Len(q.uses)
  IN  /\ y.reg["esp"] = IF q.locals > 0 THEN b - 1 - q.locals ELSE b
      /\ y.reg["ebp"] = IF q.locals > 0 THEN b - 1 ELSE x.reg["ebp"]
      /\ StackBase <= y.reg["esp"]
      /\ y.mem[t] = token /\ (q.locals > 0 => y.mem[b - 1] = x.reg["ebp"])
      /\ \A k \in 1 .. Len(q.uses) : y.mem[t - k] = x.reg[q.uses[k]]
      /\ \A a \in Mapped : a >= x.reg["esp"] => y.mem[a] = x.mem[a]
      /\ y.uses = IF q.uses = <<>> THEN x.uses
                  ELSE Append(x.uses, [start |-> q.start, regs |-> q.uses])
      /\ y.locals = IF q.locals > 0
                    THEN Append(x.locals, FrameOf(q, b, x.reg["ebp"], TRUE)) ELSE x.locals

LEMMA PutsCall ==
  ASSUME StackBase - 1 \notin DataWords,
         NEW STATE x, Safe(x), StackBase <= x.reg["esp"], x.reg["esp"] <= StackLimit,
         NEW STATE token, token \in Int, NEW STATE q, q \in Procedure,
         WriteCallFrame(x, token, q).status = "ok"
  PROVE  CallPut(x, token, q, WriteCallFrame(x, token, q).m)
<1> DEFINE n == Len(q.uses)
           w == [k \in 1 .. n |-> x.reg[q.uses[k]]]
           s == <<token>> \o w
           y == PushWords(x, s)
           f == [start |-> q.start, regs |-> q.uses]
           z == IF q.uses = <<>> THEN y ELSE [y EXCEPT !.uses = Append(@, f)]
           esp == x.reg["esp"]
           t == esp - 1
           b == t - n
<1>1. /\ x \in Machine /\ x.reg \in [Registers -> Int] /\ esp \in Int /\ x.reg["ebp"] \in Int
      /\ q.locals \in Nat /\ q.uses \in Seq(General) /\ n \in Nat
      /\ DOMAIN x = {"reg", "mem", "uses", "locals", "descriptors"}
      /\ "esp" \in Registers /\ "ebp" \in Registers
  BY Numbers, LenProperties DEF Safe, Machine, Procedure
<1>2. s \in Seq(Int)
  BY CallWords
<1>3. /\ Len(s) = 1 + n /\ s[1] = token /\ \A k \in 1 .. n : s[k + 1] = x.reg[q.uses[k]]
  <2> DEFINE u == <<token>>
  <2>1. \A k \in 1 .. n : x.reg[q.uses[k]] \in Int
    <3>1. \A k \in 1 .. n : q.uses[k] \in General
      BY <1>1, ElementOfSeq
    <3>2. General \subseteq Registers
      BY DEF Registers
    <3> QED
      BY <1>1, <3>1, <3>2
  <2>2. w \in Seq(Int) /\ Len(w) = n /\ \A k \in 1 .. n : w[k] = x.reg[q.uses[k]]
    BY <1>1, <2>1, IsASeq
  <2>3. u \in Seq(Int) /\ Len(u) = 1 /\ u[1] = token
    OBVIOUS
  <2> HIDE DEF u, w, n
  <2>4. /\ Len(u \o w) = Len(u) + Len(w)
        /\ \A i \in 1 .. Len(u) + Len(w) : (u \o w)[i] = IF i <= Len(u) THEN u[i] ELSE w[i - Len(u)]
    BY <2>2, <2>3, ConcatProperties
  <2>5. ASSUME NEW k \in 1 .. n PROVE (u \o w)[k + 1] = x.reg[q.uses[k]]
    <3>1. k + 1 \in 1 .. 1 + n /\ ~(k + 1 <= 1) /\ (k + 1) - 1 = k
      BY <1>1
    <3> QED
      BY <2>2, <2>3, <2>4, <3>1
  <2>6. Len(u \o w) = 1 + n /\ (u \o w)[1] = token
    BY <1>1, <2>2, <2>3, <2>4
  <2> QED
    BY <2>5, <2>6 DEF u
<1> HIDE DEF s, w
<1>4. PushedOnto(x, s, y) /\ Safe(y)
  <2>1. Len(s) \in Nat
    BY <1>1, <1>3
  <2> QED
    BY <1>1, <1>2, <2>1, Pushed, PushWordsSafe
<1>5. DOMAIN y = {"reg", "mem", "uses", "locals", "descriptors"} /\ y \in Machine
  BY <1>4 DEF Safe, Machine
<1>6. /\ (q.locals > 0 => RoomForFrame(x, q))
      /\ (q.uses # <<>> \/ q.locals > 0 => CanReserve(esp, Footprint(q)))
      /\ esp - 1 \in Mapped
      /\ ~(q.uses # <<>> /\ Len(x.uses) >= FrameCapacity)
      /\ WriteCallFrame(x, token, q) = IF q.locals > 0 THEN SetupLocalFrame(z, q) ELSE Ok(z)
  <2>1. WriteCallFrame(x, token, q) =
          IF q.locals > 0 /\ ~RoomForFrame(x, q) THEN Err("invalid-frame-state", x)
          ELSE IF (q.uses # <<>> \/ q.locals > 0) /\ ~CanReserve(esp, Footprint(q)) THEN Err("stack-overflow", x)
          ELSE IF esp - 1 \notin Mapped THEN Err("memory-error", x)
          ELSE IF q.uses # <<>> /\ Len(x.uses) >= FrameCapacity THEN Err("invalid-argument", y)
          ELSE IF q.locals > 0 THEN SetupLocalFrame(z, q) ELSE Ok(z)
    BY DEF WriteCallFrame, s, w
  <2> HIDE DEF z, y, esp
  <2> QED
    BY <2>1 DEF Err
<1> DEFINE u == IF q.uses = <<>> THEN x.uses ELSE Append(x.uses, f)
<1>7. /\ z.reg = y.reg /\ z.mem = y.mem /\ z.locals = y.locals /\ z.descriptors = y.descriptors
      /\ z.uses = u
  <2>1. y.uses = x.uses
    BY <1>4 DEF PushedOnto
  <2> HIDE DEF y, f
  <2> QED
    BY <1>5, <2>1
<1>8. /\ y.reg["esp"] = b /\ y.reg["ebp"] = x.reg["ebp"] /\ y.locals = x.locals
      /\ y.descriptors = x.descriptors
      /\ \A a \in Mapped : a >= esp => y.mem[a] = x.mem[a]
      /\ \A k \in 1 .. n + 1 : esp - k \in Mapped => y.mem[esp - k] = s[k]
  <2>1. esp - (1 + n) = b /\ 1 + n = n + 1
    BY <1>1
  <2> HIDE DEF y, b, esp, n
  <2> QED
    BY <1>3, <1>4, <2>1 DEF PushedOnto, esp
<1>9. y.mem[t] = token /\ t \in Stack
  <2>1. StackBase <= t
    BY <1>1, <1>6, RoomBelow
  <2>2. t \in Stack
    BY <1>1, <2>1, Numbers DEF Stack
  <2>3. 1 \in 1 .. n + 1
    BY <1>1
  <2> QED
    BY <1>3, <1>6, <1>8, <2>2, <2>3
<1>10. StackBase <= b - (IF q.locals > 0 THEN q.locals + 1 ELSE 0)
  <2>1. CASE q.uses = <<>> /\ ~(q.locals > 0)
    <3>1. n = 0
      BY <2>1
    <3> HIDE DEF n
    <3> QED
      BY <1>1, <1>9, <2>1, <3>1, Numbers DEF Stack
  <2>2. CASE q.uses # <<>> \/ q.locals > 0
    <3>1. StackBase <= esp - Footprint(q)
      BY <1>6, <2>2 DEF CanReserve
    <3>2. Footprint(q) = 1 + n + (IF q.locals > 0 THEN q.locals + 1 ELSE 0)
      BY DEF Footprint
    <3> DEFINE v == IF q.locals > 0 THEN q.locals + 1 ELSE 0
    <3>3. v \in Int /\ Footprint(q) = 1 + n + v
      BY <1>1, <3>2
    <3> HIDE DEF n, esp, v
    <3>4. esp - (1 + n + v) = (esp - 1 - n) - v
      BY <1>1, <3>3
    <3>5. StackBase <= b - v
      BY <3>1, <3>3, <3>4
    <3> QED
      BY <3>5 DEF v
  <2> QED
    BY <2>1, <2>2
<1>11. \A k \in 1 .. n : y.mem[t - k] = x.reg[q.uses[k]]
  <2> TAKE k \in 1 .. n
  <2> HIDE DEF n, y
  <2>1. k + 1 \in 1 .. n + 1 /\ esp - (k + 1) = t - k
    BY <1>1
  <2>2. t - k \in Mapped
    BY <1>1, <1>10, Numbers DEF Stack, Mapped
  <2> QED
    BY <1>3, <1>8, <2>1, <2>2
<1> DEFINE o == WriteCallFrame(x, token, q).m
<1>12. CASE ~(q.locals > 0)
  <2>1. o = z
    BY <1>6, <1>12 DEF Ok
  <2>2. /\ o.reg["esp"] = b /\ o.reg["ebp"] = x.reg["ebp"] /\ o.mem = y.mem
        /\ o.uses = u /\ o.locals = x.locals
    BY <1>7, <1>8, <2>1
  <2>3. StackBase <= b
    BY <1>1, <1>10, <1>12
  <2> HIDE DEF o, z, y, u, f
  <2>4. o.uses = IF q.uses = <<>> THEN x.uses
                 ELSE Append(x.uses, [start |-> q.start, regs |-> q.uses])
    BY <2>2 DEF u, f
  <2>5. \A a \in Mapped : a >= esp => o.mem[a] = x.mem[a]
    BY <1>8, <2>2
  <2>6. o.mem[t] = token /\ \A k \in 1 .. n : o.mem[t - k] = x.reg[q.uses[k]]
    BY <1>9, <1>11, <2>2
  <2>7. CallPut(x, token, q, o)
    BY <1>12, <2>2, <2>3, <2>4, <2>5, <2>6 DEF CallPut
  <2> QED
    BY <2>7 DEF o
<1>13. CASE q.locals > 0
  <2>1. o = SetupLocalFrame(z, q).m
    BY <1>6, <1>13
  <2>2. z \in Machine
    <3>1. u \in Seq(UsesFrame)
      <4>1. f \in UsesFrame /\ x.uses \in Seq(UsesFrame)
        BY <1>1 DEF UsesFrame, Procedure, Machine
      <4> HIDE DEF f
      <4>2. Append(x.uses, f) \in Seq(UsesFrame)
        BY <4>1, AppendProperties
      <4> QED
        BY <4>1, <4>2
    <3>2. z = [y EXCEPT !.uses = u]
      <4>1. y.uses = x.uses
        BY <1>4 DEF PushedOnto
      <4> HIDE DEF y, f
      <4>2. CASE q.uses = <<>>
        <5>1. [y EXCEPT !.uses = y.uses] = y
          BY <1>5 DEF Machine
        <5> QED
          BY <4>1, <4>2, <5>1
      <4>3. CASE q.uses # <<>>
        BY <1>5, <4>1, <4>3
      <4> QED
        BY <4>2, <4>3
    <3> HIDE DEF z, y, u
    <3> QED
      BY <1>5, <3>1, <3>2 DEF Machine
  <2> HIDE DEF z, y
  <2>3. RoomForFrame(z, q)
    BY <1>6, <1>7, <1>8, <1>13 DEF RoomForFrame
  <2>4. CanReserve(z.reg["esp"], q.locals + 1)
    BY <1>1, <1>7, <1>8, <1>10, <1>13, Numbers DEF CanReserve
  <2>5. FramePut(z, q, o)
    BY <2>1, <2>2, <2>3, <2>4, PutsFrame
  <2> HIDE DEF o
  <2>6. /\ z.reg["esp"] = b /\ z.reg["ebp"] = x.reg["ebp"] /\ z.locals = x.locals
    BY <1>7, <1>8
  <2>7. /\ o.reg["esp"] = b - (q.locals + 1) /\ o.reg["ebp"] = b - 1
        /\ o.locals = Append(x.locals, FrameOf(q, b, x.reg["ebp"], TRUE))
        /\ o.uses = u /\ o.mem[b - 1] = x.reg["ebp"]
        /\ \A a \in Mapped : a >= b => o.mem[a] = y.mem[a]
    BY <1>7, <2>5, <2>6 DEF FramePut
  <2>8. /\ b <= t /\ t \in Mapped /\ b \in Int
        /\ \A k \in 1 .. n : t - k \in Mapped /\ t - k >= b
    <3> HIDE DEF n, esp
    <3>0. StackBase <= b - (q.locals + 1) /\ n \in Nat /\ esp \in Int /\ q.locals \in Nat
      BY <1>1, <1>10, <1>13
    <3>1. b \in Int /\ b <= t /\ StackBase <= b
      BY <3>0, Numbers
    <3>2. t \in Stack /\ StackLimit \in Int /\ StackBase \in Int
      BY <1>9, Numbers
    <3>3. \A k \in 1 .. n : t - k \in Stack /\ t - k >= b
      BY <1>1, <3>1, <3>2 DEF Stack
    <3> QED
      BY <3>1, <3>2, <3>3, Numbers
  <2>9. o.mem[t] = token /\ \A k \in 1 .. n : o.mem[t - k] = x.reg[q.uses[k]]
    <3> HIDE DEF n, b, t
    <3> QED
      BY <1>9, <1>11, <2>7, <2>8
  <2>10. \A a \in Mapped : a >= esp => o.mem[a] = x.mem[a]
    <3> SUFFICES ASSUME NEW a \in Mapped, a >= esp PROVE o.mem[a] = x.mem[a]
      OBVIOUS
    <3>1. a >= b
      BY <1>1, <2>8, Numbers
    <3> HIDE DEF b, esp
    <3> QED
      BY <1>8, <2>7, <3>1
  <2>11. o.reg["esp"] = b - 1 - q.locals /\ StackBase <= o.reg["esp"]
    <3>1. StackBase <= b - (q.locals + 1) /\ q.locals \in Nat /\ b \in Int
      BY <1>1, <1>10, <1>13, <2>8
    <3> HIDE DEF o, b
    <3>2. b - (q.locals + 1) = b - 1 - q.locals
      BY <3>1
    <3> QED
      BY <2>7, <3>1, <3>2
  <2> HIDE DEF u, f
  <2>12. o.uses = IF q.uses = <<>> THEN x.uses
                  ELSE Append(x.uses, [start |-> q.start, regs |-> q.uses])
    BY <2>7 DEF u, f
  <2>13. CallPut(x, token, q, o)
    BY <1>13, <2>7, <2>9, <2>10, <2>11, <2>12 DEF CallPut
  <2> QED
    BY <2>13 DEF o
<1> QED
  BY <1>12, <1>13

\* Machine y is what the call c left behind, at the callee's first instruction.
CallMade(shape, y, c) ==
  /\ c \in Outstanding /\ Returns(image, shape, c)
  /\ Within(shape, y, c.callee.start, c.callee, Bottom(c), c.was.reg["ebp"], c.was.locals)
  /\ y.uses = UsesIn(c) /\ UsesNamed(image, y) /\ Holds(y, c)
  /\ \A r \in ToSet(c.callee.uses) : y.mem[SavedAt(c, r)] = c.was.reg[r]

\* Machine z is x with the arguments of c pushed.
ArgumentsOn(x, c, z) ==
  /\ z.reg["esp"] = x.reg["esp"] - c.args /\ z.reg["ebp"] = x.reg["ebp"]
  /\ \A r \in General : z.reg[r] = x.reg[r]
  /\ z.locals = x.locals /\ z.uses = x.uses
  /\ \A a \in Mapped : a >= x.reg["esp"] => z.mem[a] = x.mem[a]

\* Call c enters its callee, as the current instruction asks for it.
Asks(shape, c) ==
  /\ Enters(image, c.callee.start, c.callee)
  /\ Leads(shape, c.callee, c.callee.start, Resting(c.callee))
  /\ \A j \in Body(c.callee) \cap DOMAIN shape :
       image.code[j + 1].op = "ret" => image.code[j + 1].src.disp = c.args

LEMMA UsesStayNamed ==
  ASSUME NEW STATE x, x \in Machine, UsesNamed(image, x), NEW STATE q, q \in Procedure,
         q \in ProcsOf(image), q.start < q.end, NEW STATE y,
         y.uses = IF q.uses = <<>> THEN x.uses
                  ELSE Append(x.uses, [start |-> q.start, regs |-> q.uses])
  PROVE  UsesNamed(image, y)
<1>1. CASE q.uses = <<>>
  BY <1>1 DEF UsesNamed
<1>2. CASE q.uses # <<>>
  <2> DEFINE f == [start |-> q.start, regs |-> q.uses]
  <2>1. y.uses = Append(x.uses, f) /\ f.start = q.start /\ f \in UsesFrame
        /\ x.uses \in Seq(UsesFrame)
    BY <1>2 DEF UsesFrame, Procedure, Machine
  <2> DEFINE u == x.uses
             w == Append(u, f)
  <2>11. u \in Seq(UsesFrame) /\ f \in UsesFrame
    BY <2>1
  <2> HIDE DEF f, u
  <2>12. /\ DOMAIN u = 1 .. Len(u) /\ Len(u) \in Nat
         /\ DOMAIN w = 1 .. Len(u) + 1
         /\ \A k \in 1 .. Len(u) : w[k] = u[k]
         /\ w[Len(u) + 1] = f
    BY <2>11, OneMore
  <2> HIDE DEF w
  <2>13. y.uses = w
    BY <2>1 DEF u, w
  <2>14. u = x.uses
    BY DEF u
  <2> SUFFICES ASSUME NEW k \in DOMAIN y.uses
               PROVE  \E r \in ProcsOf(image) :
                        r.start < r.end /\ r.uses # <<>> /\ y.uses[k].start = r.start
    BY DEF UsesNamed
  <2>2. k \in 1 .. Len(u) + 1
    BY <2>12, <2>13
  <2>3. CASE k = Len(u) + 1
    <3>1. y.uses[k].start = q.start
      <4>1. y.uses[k] = w[Len(u) + 1]
        BY <2>13, <2>3
      <4>2. w[Len(u) + 1] = f
        BY <2>12
      <4>3. f.start = q.start
        BY <2>1
      <4> QED
        BY <4>1, <4>2, <4>3
    <3> QED
      BY <1>2, <3>1
  <2>4. CASE k # Len(u) + 1
    <3>1. k \in 1 .. Len(u)
      BY <2>2, <2>4, <2>12
    <3>2. k \in DOMAIN x.uses /\ y.uses[k] = x.uses[k]
      BY <3>1, <2>12, <2>13, <2>14
    <3> QED
      BY <3>2 DEF UsesNamed
  <2> QED
    BY <2>3, <2>4
<1> QED
  BY <1>1, <1>2

LEMMA CallIsMade ==
  ASSUME StackBase - 1 \notin DataWords, Loaded, NEW STATE shape,
         NEW STATE c, c \in Outstanding, Asks(shape, c), c.was.reg["esp"] <= StackLimit,
         UsesNamed(image, c.was), NEW STATE z, ArgumentsOn(c.was, c, z),
         NEW STATE y, CallPut(z, TokenBase + c.back, c.callee, y)
  PROVE  CallMade(shape, y, c)
<1> DEFINE x == c.was
           q == c.callee
           t == z.reg["esp"] - 1
           b == t - Len(q.uses)
           e == x.reg["ebp"]
<1>1. /\ c.back \in Int /\ c.args \in Nat /\ q \in Procedure /\ x \in Machine
      /\ Len(q.uses) \in Nat /\ x.reg["esp"] \in Int /\ q.locals \in Nat
  BY CallTyped DEF Procedure
<1>2. t = TokenAt(c) /\ b = Bottom(c) /\ t \in Int /\ b \in Int /\ b <= t
      /\ t < x.reg["esp"]
  BY <1>1 DEF TokenAt, Bottom, ArgumentsOn
<1>3. q \in ProcsOf(image) /\ q.start < q.end
  BY DEF Asks, Enters, ProcsOf
<1>4. Returns(image, shape, c)
  BY <1>3 DEF Returns, Asks
<1>5. /\ y.reg["esp"] = (IF q.locals > 0 THEN b - 1 - q.locals ELSE b)
      /\ y.reg["ebp"] = (IF q.locals > 0 THEN b - 1 ELSE e)
      /\ StackBase <= y.reg["esp"]
      /\ y.mem[t] = TokenBase + c.back /\ (q.locals > 0 => y.mem[b - 1] = e)
      /\ \A a \in Mapped : a >= x.reg["esp"] => y.mem[a] = x.mem[a]
      /\ y.uses = (IF q.uses = <<>> THEN x.uses
                   ELSE Append(x.uses, [start |-> q.start, regs |-> q.uses]))
      /\ y.locals = IF q.locals > 0 THEN Append(x.locals, FrameOf(q, b, e, TRUE)) ELSE x.locals
  <2>1. /\ z.reg["ebp"] = e /\ z.locals = x.locals /\ z.uses = x.uses
        /\ \A a \in Mapped : a >= x.reg["esp"] => z.mem[a] = x.mem[a]
    BY DEF ArgumentsOn
  <2>2. z.reg["esp"] = x.reg["esp"] - c.args
    BY DEF ArgumentsOn
  <2>3. \A a \in Mapped : a >= z.reg["esp"] => y.mem[a] = z.mem[a]
    BY DEF CallPut
  <2>4. \A a \in Mapped : a >= x.reg["esp"] => y.mem[a] = x.mem[a]
    <3> SUFFICES ASSUME NEW a \in Mapped, a >= x.reg["esp"] PROVE y.mem[a] = x.mem[a]
      OBVIOUS
    <3>1. a >= z.reg["esp"]
      BY <1>1, <2>2, Numbers
    <3> QED
      BY <2>1, <2>3, <3>1
  <2>5. /\ y.reg["esp"] = (IF q.locals > 0 THEN b - 1 - q.locals ELSE b)
        /\ y.reg["ebp"] = (IF q.locals > 0 THEN b - 1 ELSE e)
        /\ StackBase <= y.reg["esp"]
        /\ y.mem[t] = TokenBase + c.back /\ (q.locals > 0 => y.mem[b - 1] = e)
    BY <2>1 DEF CallPut
  <2>6. y.uses = (IF q.uses = <<>> THEN x.uses
                  ELSE Append(x.uses, [start |-> q.start, regs |-> q.uses]))
    BY <2>1 DEF CallPut
  <2>7. y.locals = IF q.locals > 0 THEN Append(x.locals, FrameOf(q, b, e, TRUE)) ELSE x.locals
    BY <2>1 DEF CallPut
  <2> QED
    BY <2>4, <2>5, <2>6, <2>7
<1> HIDE DEF b, t
<1>6. y.uses = UsesIn(c)
  BY <1>5 DEF UsesIn
<1>7. UsesNamed(image, y)
  BY <1>1, <1>3, <1>5, UsesStayNamed
<1>8. Holds(y, c)
  <2> SUFFICES ASSUME NEW a \in x.reg["esp"] .. StackLimit - 1 PROVE y.mem[a] = x.mem[a]
    BY <1>2, <1>5 DEF Holds
  <2>1. StackBase <= x.reg["esp"]
    <3>1. StackBase <= b
      BY <1>1, <1>2, <1>5, Numbers
    <3> QED
      BY <1>1, <1>2, <3>1, Numbers
  <2>2. a \in Mapped /\ a >= x.reg["esp"]
    BY <1>1, <2>1, Numbers DEF Stack
  <2> QED
    BY <1>5, <2>2
<1>9. Within(shape, y, q.start, q, b, e, x.locals)
  <2>1. /\ q.start \in Body(q) \cap DOMAIN shape
        /\ shape[q.start].up = 0 /\ shape[q.start].framed = (q.locals > 0)
    BY DEF Asks, Leads, Resting
  <2>2. y.locals = IF q.locals = 0 THEN x.locals
                   ELSE Append(x.locals, FrameOf(q, b, e, shape[q.start].framed))
    <3>1. CASE q.locals = 0
      BY <1>5, <3>1
    <3>2. CASE q.locals # 0
      <4>1. q.locals > 0
        BY <1>1, <3>2
      <4>2. shape[q.start].framed = TRUE
        BY <2>1, <4>1
      <4>3. y.locals = Append(x.locals, FrameOf(q, b, e, TRUE))
        BY <1>5, <4>1
      <4> QED
        BY <3>2, <4>2, <4>3
    <3> QED
      BY <3>1, <3>2
  <2>3. y.reg["esp"] = (IF shape[q.start].framed THEN b - 1 - q.locals ELSE b) - shape[q.start].up
    <3>1. shape[q.start].framed <=> q.locals > 0
      BY <2>1
    <3>2. CASE q.locals > 0
      <4>1. b - 1 - q.locals - 0 = b - 1 - q.locals
        BY <1>1, <1>2
      <4> QED
        BY <1>5, <2>1, <3>1, <3>2, <4>1
    <3>3. CASE ~(q.locals > 0)
      BY <1>2, <1>5, <2>1, <3>1, <3>3
    <3> QED
      BY <3>2, <3>3
  <2>4. y.reg["ebp"] = IF shape[q.start].framed THEN b - 1 ELSE e
    BY <1>5, <2>1
  <2>5. q.locals > 0 => StackBase <= b - 1 - q.locals /\ y.mem[b - 1] = e
    BY <1>5
  <2>6. shape[q.start].framed => q.locals > 0
    BY <2>1
  <2> QED
    BY <1>5, <2>1, <2>2, <2>3, <2>4, <2>5, <2>6 DEF Within
<1>10. \A r \in ToSet(q.uses) : y.mem[SavedAt(c, r)] = x.reg[r]
  <2> SUFFICES ASSUME NEW r \in ToSet(q.uses) PROVE y.mem[SavedAt(c, r)] = x.reg[r]
    OBVIOUS
  <2> DEFINE k == CHOOSE k \in DOMAIN q.uses : q.uses[k] = r
  <2>1. q.uses \in Seq(General)
    BY CallTyped
  <2>2. \E j \in DOMAIN q.uses : q.uses[j] = r
    BY DEF ToSet
  <2>3. k \in DOMAIN q.uses /\ q.uses[k] = r
    BY <2>2
  <2>4. SavedAt(c, r) = TokenAt(c) - k
    BY DEF SavedAt
  <2> HIDE DEF k
  <2>5. k \in 1 .. Len(q.uses) /\ r \in General
    BY <2>1, <2>3
  <2>6. y.mem[t - k] = z.reg[q.uses[k]]
    BY <2>5 DEF CallPut, t
  <2>7. z.reg[r] = x.reg[r]
    BY <2>5 DEF ArgumentsOn
  <2> QED
    BY <1>2, <2>3, <2>4, <2>6, <2>7
<1> QED
  BY <1>2, <1>4, <1>6, <1>7, <1>8, <1>9, <1>10 DEF CallMade

\* The call the current instruction makes from machine x.
CallFrom(x) == [back |-> Instr.src.disp, args |-> IF Instr.op = "commit" THEN Instr.args ELSE 0,
                callee |-> Callee(Instr.dst.disp), was |-> x]

LEMMA CallAsks ==
  ASSUME NEW STATE shape, NEW STATE x, NEW STATE p, NEW STATE b, NEW STATE e, NEW STATE l,
         RunsHere(shape, x, p, b, e, l), Instr.op \in {"call", "commit"}
  PROVE  /\ CallFrom(x) \in Outstanding /\ Asks(shape, CallFrom(x))
         /\ CallFrom(x).back = ip + 1 /\ CallFrom(x).was = x
         /\ CallFrom(x).callee = Callee(Instr.dst.disp)
         /\ CallFrom(x).callee.start = Instr.dst.disp
         /\ CallFrom(x).args = ArgsOf(Instr)
         /\ Leads(shape, p, ip + 1, shape[ip])
<1>1. /\ Instr.src.disp = ip + 1 /\ Leads(shape, p, ip + 1, shape[ip])
      /\ \E q \in ProcsOf(image) : Callable(image, shape, Instr, q)
  BY Asked
<1>2. Loaded /\ ip \in Nat /\ Instr \in Instruction /\ x \in Machine
  BY HereFacts DEF RunsHere
<1>3. PICK q \in ProcsOf(image) : Callable(image, shape, Instr, q)
  BY <1>1
<1>4. /\ Enters(image, Instr.dst.disp, q) /\ Leads(shape, q, q.start, Resting(q))
      /\ \A j \in Body(q) \cap DOMAIN shape :
           image.code[j + 1].op = "ret" => image.code[j + 1].src.disp = ArgsOf(Instr)
  BY <1>3 DEF Callable
<1> DEFINE i == Instr.dst.disp
           c == CallFrom(x)
<1>5. Callee(i) = q /\ q.start = i
  BY <1>2, <1>4, EntersCallee
<1>6. /\ c.back = ip + 1 /\ c.was = x /\ c.callee = q /\ c.args = ArgsOf(Instr)
      /\ DOMAIN c = {"back", "args", "callee", "was"}
  BY <1>1, <1>5 DEF CallFrom, ArgsOf
<1>7. q \in Procedure /\ ArgsOf(Instr) \in Nat
  <2>1. q \in Procedure
    <3>1. image \in Image
      BY <1>2 DEF Loaded
    <3> QED
      BY <1>3, <3>1, ProcsApart
  <2> QED
    BY <1>2, <2>1 DEF ArgsOf, Instruction
<1>8. c \in Outstanding
  <2>1. c = [back |-> ip + 1, args |-> ArgsOf(Instr), callee |-> q, was |-> x]
    BY <1>1, <1>5 DEF CallFrom, ArgsOf
  <2> QED
    BY <1>2, <1>7, <2>1 DEF Outstanding
<1> HIDE DEF c
<1>9. Asks(shape, c)
  BY <1>4, <1>5, <1>6 DEF Asks
<1> QED
  BY <1>1, <1>5, <1>6, <1>8, <1>9 DEF c

LEMMA CallCalls ==
  ASSUME StackBase - 1 \notin DataWords,
         NEW STATE shape, NEW STATE x, NEW STATE p, NEW STATE b, NEW STATE e, NEW STATE l,
         RunsHere(shape, x, p, b, e, l), Instr.op = "call", Safe(x), UsesNamed(image, x),
         CallOutcome(x).status = "ok"
  PROVE  CallMade(shape, CallOutcome(x).m, CallFrom(x))
<1> DEFINE c == CallFrom(x)
           q == Callee(Instr.dst.disp)
           token == TokenBase + Instr.src.disp
           y == WriteCallFrame(x, token, q).m
<1>1. /\ c \in Outstanding /\ Asks(shape, c) /\ c.back = ip + 1 /\ c.was = x
      /\ c.callee = q /\ c.args = ArgsOf(Instr)
  BY CallAsks
<1>2. Loaded /\ StackBase <= x.reg["esp"] /\ x.reg["esp"] <= StackLimit /\ x \in Machine
      /\ x.reg["esp"] \in Int
  <2>1. Loaded /\ b \in Int /\ b <= StackLimit
    BY DEF RunsHere
  <2>2. StackBase <= x.reg["esp"] /\ x.reg["esp"] <= b /\ x.reg["esp"] \in Int /\ x \in Machine
    BY HereWithin
  <2> QED
    BY <2>1, <2>2, Numbers
<1>3. CallOutcome(x) = WriteCallFrame(x, token, q)
  BY DEF CallOutcome, Err
<1>4. Instr.src.disp = c.back /\ c.args = 0
  <2>1. Instr.src.disp = ip + 1
    BY Asked
  <2> QED
    BY <1>1, <2>1 DEF ArgsOf
<1>5. token \in Int /\ q \in Procedure
  BY <1>1, <1>4, CallTyped, Numbers
<1>6. CallPut(x, token, q, y)
  BY <1>2, <1>3, <1>5, PutsCall
<1> HIDE DEF c, q, y
<1>7. ArgumentsOn(x, c, x)
  BY <1>2, <1>4 DEF ArgumentsOn
<1>8. CallMade(shape, y, c)
  <2>1. CallPut(x, TokenBase + c.back, c.callee, y)
    BY <1>1, <1>4, <1>6
  <2> QED
    BY <1>1, <1>2, <1>7, <2>1, CallIsMade
<1> QED
  BY <1>3, <1>8 DEF c, y

LEMMA CommitCalls ==
  ASSUME StackBase - 1 \notin DataWords,
         NEW STATE shape, NEW STATE x, NEW STATE p, NEW STATE b, NEW STATE e, NEW STATE l,
         RunsHere(shape, x, p, b, e, l), Instr.op = "commit", Safe(x), UsesNamed(image, x),
         CommitOutcome(x).status = "ok"
  PROVE  CallMade(shape, CommitOutcome(x).m, CallFrom(x))
<1> DEFINE c == CallFrom(x)
           q == Callee(Instr.dst.disp)
           n == Instr.args
           s == [k \in 1 .. n |-> pending[n - k]]
           z == PushWords(x, s)
           token == TokenBase + Instr.src.disp
           y == WriteCallFrame(z, token, q).m
<1>1. /\ c \in Outstanding /\ Asks(shape, c) /\ c.back = ip + 1 /\ c.was = x
      /\ c.callee = q /\ c.args = ArgsOf(Instr)
  BY CallAsks
<1>2. Loaded /\ StackBase <= x.reg["esp"] /\ x.reg["esp"] <= StackLimit /\ x \in Machine
      /\ x.reg["esp"] \in Int
  <2>1. Loaded /\ b \in Int /\ b <= StackLimit
    BY DEF RunsHere
  <2>2. StackBase <= x.reg["esp"] /\ x.reg["esp"] <= b /\ x.reg["esp"] \in Int /\ x \in Machine
    BY HereWithin
  <2> QED
    BY <2>1, <2>2, Numbers
<1>3. /\ CommitOutcome(x) = WriteCallFrame(z, token, q)
      /\ n \in 1 .. ArgumentCapacity /\ 0 .. n - 1 \subseteq DOMAIN pending
      /\ CanReserve(x.reg["esp"], n + Footprint(q))
  <2> HIDE DEF z, q
  <2> QED
    BY DEF CommitOutcome, Err, z, q
<1>4. Instr.src.disp = c.back /\ c.args = n /\ n \in Nat
  <2>1. Instr.src.disp = ip + 1 /\ Instr \in Instruction
    BY Asked, HereFacts
  <2> QED
    BY <1>1, <2>1 DEF ArgsOf, Instruction
<1>5. token \in Int /\ q \in Procedure /\ Len(q.uses) \in Nat /\ q.locals \in Nat
  BY <1>1, <1>4, CallTyped, Numbers DEF Procedure
<1>6. s \in Seq(Int) /\ Len(s) = n
  <2>1. ASSUME NEW k \in 1 .. n PROVE pending[n - k] \in Int
    <3>1. n - k \in DOMAIN pending
      BY <1>3, <1>4
    <3> QED
      BY <1>2, <3>1 DEF Loaded
  <2> QED
    BY <1>4, <2>1, IsASeq
<1> HIDE DEF s
<1>7. Safe(z) /\ PushedOnto(x, s, z)
  BY <1>2, <1>4, <1>6, PushWordsSafe, Pushed
<1> HIDE DEF z, n
<1>8. ArgumentsOn(x, c, z)
  <2>1. z.reg = [x.reg EXCEPT !["esp"] = x.reg["esp"] - Len(s)] /\ x.reg \in [Registers -> Int]
    BY <1>2, <1>7, MachineFields DEF PushedOnto
  <2>2. \A r \in General : z.reg[r] = x.reg[r]
    BY <2>1, ConstantsAssumption DEF Registers
  <2> QED
    BY <1>4, <1>6, <1>7, <2>2 DEF PushedOnto, ArgumentsOn
<1>9. StackBase <= z.reg["esp"] /\ z.reg["esp"] <= StackLimit
  <2> DEFINE v == IF q.locals > 0 THEN q.locals + 1 ELSE 0
  <2>1. v \in Nat /\ Footprint(q) = 1 + Len(q.uses) + v
    BY <1>5 DEF Footprint
  <2> HIDE DEF v
  <2>2. StackBase <= x.reg["esp"] - (n + Footprint(q))
    BY <1>3 DEF CanReserve
  <2>3. z.reg["esp"] = x.reg["esp"] - n
    BY <1>6, <1>7 DEF PushedOnto
  <2> HIDE DEF q
  <2> QED
    BY <1>2, <1>4, <1>5, <2>1, <2>2, <2>3, Numbers
<1>10. CallPut(z, token, q, y)
  <2> HIDE DEF q
  <2> QED
    BY <1>3, <1>5, <1>7, <1>9, PutsCall
<1> HIDE DEF c, q, y
<1>11. CallMade(shape, y, c)
  <2>1. CallPut(z, TokenBase + c.back, c.callee, y)
    BY <1>1, <1>4, <1>10
  <2> QED
    BY <1>1, <1>2, <1>8, <2>1, CallIsMade
<1> QED
  BY <1>3, <1>11 DEF c, y

-----------------------------------------------------------------------------
(* Activations nest. *)

\* The innermost activation of h is at the current instruction, with machine x.
Innermost(shape, h, e, x) ==
  LET n == Len(h)
  IN  RunsHere(shape, x, Runs(image, h, n), Floor(h, n), FoundEbp(h, n, e), FoundLocals(h, n))

\* Machine y is where it goes on at j.
InnermostGoesOn(shape, h, e, x, y, j) ==
  LET n == Len(h)
  IN  GoesOn(shape, x, y, Runs(image, h, n), Floor(h, n), FoundEbp(h, n, e), FoundLocals(h, n), j)

LEMMA CallsTyped ==
  ASSUME NEW STATE h, h \in Seq(Outstanding)
  PROVE  /\ Len(h) \in Nat /\ DOMAIN h = 1 .. Len(h) /\ \A k \in 1 .. Len(h) : h[k] \in Outstanding
         /\ Floor(h, 0) = StackLimit /\ FoundLocals(h, 0) = <<>> /\ FoundUses(h, 0) = <<>>
         /\ Runs(image, h, 0) = EntryOf(image)
<1>1. Len(h) \in Nat /\ DOMAIN h = 1 .. Len(h)
  BY LenProperties
<1>2. \A k \in 1 .. Len(h) : h[k] \in Outstanding
  BY ElementOfSeq
<1> QED
  BY <1>1, <1>2 DEF Floor, FoundLocals, FoundUses, Runs

LEMMA AtCall ==
  ASSUME NEW STATE h, NEW STATE k, k # 0
  PROVE  /\ Runs(image, h, k) = h[k].callee /\ Floor(h, k) = Bottom(h[k])
         /\ FoundLocals(h, k) = h[k].was.locals /\ FoundUses(h, k) = UsesIn(h[k])
         /\ \A e : FoundEbp(h, k, e) = h[k].was.reg["ebp"]
BY DEF Runs, Floor, FoundLocals, FoundUses, FoundEbp

\* What the first k calls leave is read off the last of them.
LEMMA LevelByCall ==
  ASSUME NEW STATE shape, NEW STATE h, NEW STATE g, NEW STATE k, k = 0 \/ g[k] = h[k],
         NEW STATE e, NEW STATE x, NEW STATE i, Level(image, shape, h, k, e, x, i)
  PROVE  Level(image, shape, g, k, e, x, i)
<1>1. /\ Runs(image, g, k) = Runs(image, h, k) /\ Floor(g, k) = Floor(h, k)
      /\ FoundEbp(g, k, e) = FoundEbp(h, k, e) /\ FoundLocals(g, k) = FoundLocals(h, k)
      /\ FoundUses(g, k) = FoundUses(h, k)
  BY DEF Runs, Floor, FoundEbp, FoundLocals, FoundUses
<1>2. k > 0 => k # 0
  OBVIOUS
<1>3. k > 0 => Holds(x, g[k])
  BY <1>2 DEF Level
<1> QED
  BY <1>1, <1>3 DEF Level

LEMMA NestedTop ==
  ASSUME Loaded, NEW STATE shape, KeepsStack(image, shape), NEW STATE h, h \in Seq(Outstanding),
         NEW STATE e, e \in Int, NEW STATE x, x \in Machine, Nested(image, shape, h, e, x, ip)
  PROVE  /\ Innermost(shape, h, e, x) /\ UsesNamed(image, x) /\ x.uses = FoundUses(h, Len(h))
         /\ Len(h) > 0 => RunsCall(shape, x, h[Len(h)])
<1> DEFINE n == Len(h)
           p == Runs(image, h, n)
           b == Floor(h, n)
           d == FoundEbp(h, n, e)
           l == FoundLocals(h, n)
<1>1. n \in Nat /\ \A k \in 1 .. n : h[k] \in Outstanding
  BY CallsTyped
<1>2. Level(image, shape, h, n, e, x, ip)
  <2>1. Machines(h, x, n) = x /\ Places(h, ip, n) = ip
    BY DEF Machines, Places
  <2>2. n \in 0 .. Len(h)
    BY <1>1
  <2> HIDE DEF n
  <2>3. Level(image, shape, h, n, e, Machines(h, x, n), Places(h, ip, n))
    BY <2>2 DEF Nested
  <2> QED
    BY <2>1, <2>3
<1>3. /\ Within(shape, x, ip, p, b, d, l) /\ x.uses = FoundUses(h, n) /\ UsesNamed(image, x)
      /\ n > 0 => Holds(x, h[n])
  BY <1>2 DEF Level
<1>4. p \in ProcsOf(image) /\ b \in Int /\ b <= StackLimit /\ d \in Int /\ l \in Seq(LocalFrame)
  <2>1. CASE n = 0
    <3>1. b = StackLimit /\ l = <<>> /\ p = EntryOf(image) /\ d = e
      BY <2>1, CallsTyped DEF FoundEbp
    <3> HIDE DEF n, b, l, p, d
    <3> QED
      BY <3>1, EntryIs, Numbers
  <2>2. CASE n # 0
    <3>1. n \in 1 .. n /\ h[n] \in Outstanding
      BY <1>1, <2>2
    <3>2. /\ p = h[n].callee /\ b = Bottom(h[n]) /\ d = h[n].was.reg["ebp"]
          /\ l = h[n].was.locals
      BY <2>2, AtCall
    <3>3. h[n].callee \in ProcsOf(image) /\ h[n].was.reg["esp"] <= StackLimit
      BY <3>1 DEF Nested, Returns
    <3> HIDE DEF n, p, b, d, l
    <3>4. /\ Bottom(h[n]) \in Int /\ TokenAt(h[n]) \in Int /\ h[n].was.reg["esp"] \in Int
          /\ Bottom(h[n]) <= TokenAt(h[n]) /\ TokenAt(h[n]) < h[n].was.reg["esp"]
          /\ h[n].was.reg["ebp"] \in Int /\ h[n].was.locals \in Seq(LocalFrame)
      BY <3>1, CallTyped
    <3>5. Bottom(h[n]) <= StackLimit
      BY <3>3, <3>4, Numbers
    <3> QED
      BY <3>2, <3>3, <3>4, <3>5
  <2> QED
    BY <2>1, <2>2
<1>5. KeepsOwnStack(image, shape, p, ip)
  <2>1. ip \in Body(p) \cap DOMAIN shape
    BY <1>3 DEF Within
  <2> QED
    BY <1>4, <2>1 DEF KeepsStack
<1>6. RunsHere(shape, x, p, b, d, l)
  BY <1>3, <1>4, <1>5 DEF RunsHere
<1>7. ASSUME n > 0 PROVE RunsCall(shape, x, h[n])
  <2>1. n # 0 /\ n \in 1 .. n
    BY <1>1, <1>7
  <2>2. /\ p = h[n].callee /\ b = Bottom(h[n]) /\ d = h[n].was.reg["ebp"]
        /\ l = h[n].was.locals /\ FoundUses(h, n) = UsesIn(h[n])
    BY <2>1, AtCall
  <2>3. h[n] \in Outstanding /\ Returns(image, shape, h[n])
    BY <1>1, <2>1 DEF Nested
  <2> HIDE DEF n, p, b, d, l
  <2> QED
    BY <1>3, <1>6, <1>7, <2>2, <2>3 DEF RunsCall
<1> QED
  BY <1>3, <1>6, <1>7 DEF Innermost

\* Working on within the innermost activation.
LEMMA WorkNests ==
  ASSUME Loaded, NEW STATE shape, KeepsStack(image, shape), NEW STATE h, h \in Seq(Outstanding),
         NEW STATE e, e \in Int, NEW STATE x, x \in Machine, Nested(image, shape, h, e, x, ip),
         NEW STATE y, NEW STATE j, InnermostGoesOn(shape, h, e, x, y, j)
  PROVE  Nested(image, shape, h, e, y, j)
<1> DEFINE n == Len(h)
           p == Runs(image, h, n)
           b == Floor(h, n)
           d == FoundEbp(h, n, e)
           l == FoundLocals(h, n)
<1>1. n \in Nat /\ \A k \in 1 .. n : h[k] \in Outstanding
  BY CallsTyped
<1>2. UsesNamed(image, x) /\ x.uses = FoundUses(h, n) /\ (n > 0 => RunsCall(shape, x, h[n]))
  BY NestedTop
<1>3. Within(shape, y, j, p, b, d, l) /\ y.uses = x.uses /\ Above(p, b, x, y)
  BY DEF InnermostGoesOn, GoesOn
<1>4. UsesNamed(image, y)
  BY <1>2, <1>3 DEF UsesNamed
<1>5. ASSUME n > 0 PROVE Holds(y, h[n])
  <2> DEFINE c == h[n]
  <2>1. c \in Outstanding /\ RunsCall(shape, x, c)
    BY <1>1, <1>2, <1>5
  <2>2. b = Bottom(c)
    <3>1. n # 0
      BY <1>5
    <3> HIDE DEF n
    <3> QED
      BY <3>1, AtCall
  <2> HIDE DEF c, n, b, p
  <2>3. /\ Bottom(c) \in Int /\ TokenAt(c) \in Int /\ c.was.reg["esp"] \in Int
        /\ Bottom(c) <= TokenAt(c) /\ TokenAt(c) < c.was.reg["esp"]
    BY <2>1, CallTyped
  <2>4. c.was.reg["esp"] <= StackLimit
    BY <2>1 DEF RunsCall, Returns
  <2>5. \A a \in b .. StackLimit - 1 : y.mem[a] = x.mem[a]
    <3> SUFFICES ASSUME NEW a \in b .. StackLimit - 1 PROVE y.mem[a] = x.mem[a]
      OBVIOUS
    <3>1. a \in (IF p.locals > 0 THEN b - 1 ELSE b) .. StackLimit - 1
      BY <2>2, <2>3, Numbers
    <3> QED
      BY <1>3, <3>1 DEF Above
  <2>6. y.mem[TokenAt(c)] = x.mem[TokenAt(c)]
    BY <2>2, <2>3, <2>4, <2>5, Numbers
  <2>7. \A a \in c.was.reg["esp"] .. StackLimit - 1 : y.mem[a] = x.mem[a]
    BY <2>2, <2>3, <2>4, <2>5, Numbers
  <2>8. Holds(x, c)
    BY <2>1 DEF RunsCall
  <2>9. Holds(y, c)
    BY <2>6, <2>7, <2>8 DEF Holds
  <2> QED
    BY <2>9 DEF c
<1>6. Level(image, shape, h, n, e, y, j)
  BY <1>2, <1>3, <1>4, <1>5 DEF Level
<1>7. ASSUME NEW k \in 0 .. n
      PROVE  Level(image, shape, h, k, e, Machines(h, y, k), Places(h, j, k))
  <2>1. CASE k = n
    <3>1. Machines(h, y, k) = y /\ Places(h, j, k) = j
      BY <2>1 DEF Machines, Places
    <3> HIDE DEF n
    <3> QED
      BY <1>6, <2>1, <3>1
  <2>2. CASE k # n
    <3>1. Machines(h, y, k) = Machines(h, x, k) /\ Places(h, j, k) = Places(h, ip, k)
      BY <2>2 DEF Machines, Places
    <3>2. Level(image, shape, h, k, e, Machines(h, x, k), Places(h, ip, k))
      BY DEF Nested
    <3> QED
      BY <3>1, <3>2
  <2> QED
    BY <2>1, <2>2
<1> QED
  BY <1>7 DEF Nested

\* A call opens an activation.
LEMMA CallNests ==
  ASSUME Loaded, NEW STATE shape, KeepsStack(image, shape), NEW STATE h, h \in Seq(Outstanding),
         NEW STATE e, e \in Int, NEW STATE x, x \in Machine, Nested(image, shape, h, e, x, ip),
         Instr.op # "ret", NEW STATE c, NEW STATE y, CallMade(shape, y, c), c.was = x,
         c.back = ip + 1, Leads(shape, Runs(image, h, Len(h)), ip + 1, shape[ip])
  PROVE  Nested(image, shape, Append(h, c), e, y, c.callee.start)
<1> DEFINE n == Len(h)
           g == Append(h, c)
           p == Runs(image, h, n)
           b == Floor(h, n)
           d == FoundEbp(h, n, e)
           l == FoundLocals(h, n)
<1>1. n \in Nat /\ \A k \in 1 .. n : h[k] \in Outstanding
  BY CallsTyped
<1>2. c \in Outstanding /\ Returns(image, shape, c)
  BY DEF CallMade
<1>3. Len(g) = n + 1 /\ g[n + 1] = c /\ \A k \in 1 .. n : g[k] = h[k]
  BY <1>2, OneMore
<1> HIDE DEF g
<1>4. Innermost(shape, h, e, x) /\ UsesNamed(image, x) /\ x.uses = FoundUses(h, n)
      /\ (n > 0 => RunsCall(shape, x, h[n]))
  BY NestedTop
<1>5. RunsHere(shape, x, p, b, d, l)
  BY <1>4 DEF Innermost
<1>6. p.locals > 0 => shape[ip].framed
  BY <1>5, HereFacts
<1>7. Level(image, shape, h, n, e, x, ip + 1) /\ shape[ip + 1] = shape[ip]
  <2>1. Within(shape, x, ip, p, b, d, l)
    BY <1>5 DEF RunsHere
  <2>2. ip + 1 \in Body(p) \cap DOMAIN shape /\ shape[ip + 1] = shape[ip]
    BY DEF Leads
  <2>3. Within(shape, x, ip + 1, p, b, d, l)
    BY <2>1, <2>2 DEF Within
  <2>4. n > 0 => Holds(x, h[n])
    BY <1>4 DEF RunsCall
  <2> QED
    BY <1>4, <2>2, <2>3, <2>4 DEF Level
<1>8. Level(image, shape, g, n + 1, e, y, c.callee.start)
  <2>1. n + 1 # 0
    BY <1>1
  <2> DEFINE k == n + 1
  <2>2. k # 0 /\ g[k] = c
    BY <1>3, <2>1
  <2> HIDE DEF k
  <2>3. /\ Runs(image, g, k) = c.callee /\ Floor(g, k) = Bottom(c)
        /\ FoundLocals(g, k) = c.was.locals /\ FoundUses(g, k) = UsesIn(c)
        /\ FoundEbp(g, k, e) = c.was.reg["ebp"]
    BY <2>2, AtCall
  <2>4. Level(image, shape, g, k, e, y, c.callee.start)
    BY <2>2, <2>3 DEF Level, CallMade
  <2> QED
    BY <2>4 DEF k
<1>9. ASSUME NEW k \in 0 .. n + 1
      PROVE  Level(image, shape, g, k, e, Machines(g, y, k), Places(g, c.callee.start, k))
  <2>1. CASE k = n + 1
    <3>1. Machines(g, y, k) = y /\ Places(g, c.callee.start, k) = c.callee.start
      BY <1>3, <2>1 DEF Machines, Places
    <3> QED
      BY <1>8, <2>1, <3>1
  <2>2. CASE k = n
    <3>1. k # n + 1 /\ (k = 0 \/ k \in 1 .. n)
      BY <1>1, <2>2
    <3>2. Machines(g, y, k) = x /\ Places(g, c.callee.start, k) = ip + 1
      BY <1>3, <2>2, <3>1 DEF Machines, Places
    <3>3. k = 0 \/ g[k] = h[k]
      BY <1>3, <3>1
    <3>4. Level(image, shape, h, k, e, x, ip + 1)
      BY <1>7, <2>2
    <3>5. Level(image, shape, g, k, e, x, ip + 1)
      <4> DEFINE i == ip + 1
      <4>1. Level(image, shape, h, k, e, x, i)
        BY <3>4
      <4> HIDE DEF i
      <4>2. Level(image, shape, g, k, e, x, i)
        BY <3>3, <4>1, LevelByCall
      <4> QED
        BY <4>2 DEF i
    <3> QED
      BY <3>2, <3>5
  <2>3. CASE k < n
    <3>1. k # n + 1 /\ k # n /\ k + 1 \in 1 .. n /\ k \in 0 .. n /\ (k = 0 \/ k \in 1 .. n)
      BY <1>1, <2>3
    <3>2. /\ Machines(g, y, k) = Machines(h, x, k)
          /\ Places(g, c.callee.start, k) = Places(h, ip, k)
      BY <1>3, <3>1 DEF Machines, Places
    <3>3. Level(image, shape, h, k, e, Machines(h, x, k), Places(h, ip, k))
      BY <3>1 DEF Nested
    <3>4. k = 0 \/ g[k] = h[k]
      BY <1>3, <3>1
    <3>5. Level(image, shape, g, k, e, Machines(h, x, k), Places(h, ip, k))
      <4> DEFINE z == Machines(h, x, k)
                 i == Places(h, ip, k)
      <4>1. Level(image, shape, h, k, e, z, i)
        BY <3>3
      <4> HIDE DEF z, i
      <4>2. Level(image, shape, g, k, e, z, i)
        BY <3>4, <4>1, LevelByCall
      <4> QED
        BY <4>2 DEF z, i
    <3> QED
      BY <3>2, <3>5
  <2> QED
    BY <1>1, <2>1, <2>2, <2>3
<1>10. ASSUME NEW k \in 1 .. n + 1 PROVE Returns(image, shape, g[k])
  <2>1. CASE k = n + 1
    BY <1>2, <1>3, <2>1
  <2>2. CASE k # n + 1
    <3>1. k \in 1 .. n
      BY <1>1, <2>2
    <3> QED
      BY <1>3, <3>1 DEF Nested
  <2> QED
    BY <2>1, <2>2
<1>11. ASSUME NEW k \in 0 .. n, Runs(image, g, k).locals > 0
       PROVE  shape[g[k + 1].back].framed
  <2>1. Runs(image, g, k) = Runs(image, h, k)
    <3>1. k = 0 \/ k \in 1 .. n
      BY <1>1
    <3> QED
      BY <1>3, <3>1 DEF Runs
  <2>2. CASE k = n
    BY <1>3, <1>6, <1>7, <1>11, <2>1, <2>2
  <2>3. CASE k # n
    <3>1. k \in 0 .. n - 1 /\ k + 1 \in 1 .. n
      BY <1>1, <2>3
    <3> QED
      BY <1>3, <1>11, <2>1, <3>1 DEF Nested
  <2> QED
    BY <2>2, <2>3
<1>12. Len(g) = n + 1 /\ Len(g) - 1 = n
  BY <1>1, <1>3
<1>13. Nested(image, shape, g, e, y, c.callee.start)
  <2> HIDE DEF n
  <2>1. \A k \in 0 .. Len(g) :
          Level(image, shape, g, k, e, Machines(g, y, k), Places(g, c.callee.start, k))
    BY <1>9, <1>12
  <2>2. \A k \in 1 .. Len(g) : Returns(image, shape, g[k])
    BY <1>10, <1>12
  <2>3. \A k \in 0 .. Len(g) - 1 : Runs(image, g, k).locals > 0 => shape[g[k + 1].back].framed
    BY <1>11, <1>12
  <2> QED
    BY <2>1, <2>2, <2>3 DEF Nested
<1> QED
  BY <1>13 DEF g

\* The lowest word that the activation after k calls needs, of those it did not push itself.
Edge(g, h, k) == IF Runs(g, h, k).locals > 0 THEN Floor(h, k) - 1 ELSE Floor(h, k)

\* What each activation is made of.
LevelTyped(shape, h, k, e, x, i) ==
  /\ Runs(image, h, k) \in ProcsOf(image) /\ Runs(image, h, k) \in Procedure
  /\ Floor(h, k) \in Int /\ Floor(h, k) <= StackLimit
  /\ FoundEbp(h, k, e) \in Int /\ FoundLocals(h, k) \in Seq(LocalFrame)
  /\ FoundUses(h, k) \in Seq(UsesFrame)
  /\ x \in Machine /\ shape[i] \in OnStack
  /\ Within(shape, x, i, Runs(image, h, k), Floor(h, k), FoundEbp(h, k, e), FoundLocals(h, k))
  /\ x.uses = FoundUses(h, k) /\ UsesNamed(image, x)
  /\ Edge(image, h, k) \in Int /\ Edge(image, h, k) <= Floor(h, k)
  /\ k > 0 => Holds(x, h[k]) /\ h[k] \in Outstanding /\ Returns(image, shape, h[k])

LEMMA LevelsTyped ==
  ASSUME Loaded, NEW STATE shape, KeepsStack(image, shape), NEW STATE h, h \in Seq(Outstanding),
         NEW STATE e, e \in Int, NEW STATE x, x \in Machine, NEW STATE i,
         Nested(image, shape, h, e, x, i), NEW STATE k, k \in 0 .. Len(h)
  PROVE  LevelTyped(shape, h, k, e, Machines(h, x, k), Places(h, i, k))
<1> DEFINE n == Len(h)
           z == Machines(h, x, k)
           j == Places(h, i, k)
           p == Runs(image, h, k)
           b == Floor(h, k)
           d == FoundEbp(h, k, e)
           l == FoundLocals(h, k)
<1>1. n \in Nat /\ k \in Nat /\ \A a \in 1 .. n : h[a] \in Outstanding
  BY CallsTyped
<1>2. Level(image, shape, h, k, e, z, j)
  BY DEF Nested
<1>3. k > 0 => k # 0 /\ h[k] \in Outstanding /\ Returns(image, shape, h[k])
  <2> SUFFICES ASSUME k > 0 PROVE k # 0 /\ h[k] \in Outstanding /\ Returns(image, shape, h[k])
    OBVIOUS
  <2>1. k \in 1 .. n
    BY <1>1
  <2> QED
    BY <1>1, <2>1 DEF Nested
<1>4. z \in Machine
  <2>1. CASE k = n
    BY <2>1 DEF Machines
  <2>2. CASE k # n
    <3>1. k + 1 \in 1 .. n
      BY <1>1, <2>2
    <3>2. z = h[k + 1].was /\ h[k + 1] \in Outstanding
      BY <1>1, <2>2, <3>1 DEF Machines
    <3> HIDE DEF z
    <3> QED
      BY <3>2, CallTyped
  <2> QED
    BY <2>1, <2>2
<1>5. /\ p \in ProcsOf(image) /\ b \in Int /\ b <= StackLimit /\ d \in Int /\ l \in Seq(LocalFrame)
      /\ FoundUses(h, k) \in Seq(UsesFrame)
  <2>1. CASE k = 0
    <3>1. b = StackLimit /\ l = <<>> /\ p = EntryOf(image) /\ d = e /\ FoundUses(h, k) = <<>>
      BY <2>1, CallsTyped DEF FoundEbp
    <3> HIDE DEF b, l, p, d
    <3> QED
      BY <3>1, EntryIs, Numbers
  <2>2. CASE k # 0
    <3>1. h[k] \in Outstanding /\ Returns(image, shape, h[k])
      BY <1>1, <1>3, <2>2
    <3>2. /\ p = h[k].callee /\ b = Bottom(h[k]) /\ d = h[k].was.reg["ebp"]
          /\ l = h[k].was.locals /\ FoundUses(h, k) = UsesIn(h[k])
      BY <2>2, AtCall
    <3>3. h[k].callee \in ProcsOf(image) /\ h[k].was.reg["esp"] <= StackLimit
      BY <3>1 DEF Returns
    <3> HIDE DEF n, p, b, d, l
    <3>4. /\ Bottom(h[k]) \in Int /\ TokenAt(h[k]) \in Int /\ h[k].was.reg["esp"] \in Int
          /\ Bottom(h[k]) <= TokenAt(h[k]) /\ TokenAt(h[k]) < h[k].was.reg["esp"]
          /\ h[k].was.reg["ebp"] \in Int /\ h[k].was.locals \in Seq(LocalFrame)
          /\ h[k].was.uses \in Seq(UsesFrame) /\ h[k].callee \in Procedure
      BY <3>1, CallTyped
    <3>5. Bottom(h[k]) <= StackLimit
      BY <3>3, <3>4, Numbers
    <3>6. UsesIn(h[k]) \in Seq(UsesFrame)
      <4> DEFINE f == [start |-> h[k].callee.start, regs |-> h[k].callee.uses]
      <4>1. f \in UsesFrame
        BY <3>4 DEF UsesFrame, Procedure
      <4> HIDE DEF f
      <4>2. Append(h[k].was.uses, f) \in Seq(UsesFrame)
        BY <3>4, <4>1, AppendProperties
      <4> QED
        BY <3>4, <4>2 DEF UsesIn, f
    <3> QED
      BY <3>2, <3>3, <3>4, <3>5, <3>6
  <2> QED
    BY <2>1, <2>2
<1>6. p \in Procedure
  <2>1. image \in Image
    BY DEF Loaded
  <2> QED
    BY <1>5, <2>1, ProcsApart
<1>7. /\ Within(shape, z, j, p, b, d, l) /\ z.uses = FoundUses(h, k) /\ UsesNamed(image, z)
      /\ k > 0 => Holds(z, h[k])
  BY <1>2 DEF Level
<1>8. shape[j] \in OnStack
  <2>1. j \in Body(p) \cap DOMAIN shape
    BY <1>7 DEF Within
  <2> QED
    BY <1>5, <2>1 DEF KeepsStack, KeepsOwnStack
<1>9. Edge(image, h, k) \in Int /\ Edge(image, h, k) <= b
  BY <1>5 DEF Edge
<1> HIDE DEF z, j
<1> QED
  <2>1. LevelTyped(shape, h, k, e, z, j)
    BY <1>3, <1>4, <1>5, <1>6, <1>7, <1>8, <1>9 DEF LevelTyped
  <2> QED
    BY <2>1 DEF z, j

\* The k-th call of h, made from below its caller's own words.
MadeBelow(h, x, i, k) ==
  /\ k - 1 \in 0 .. Len(h) /\ k \in 0 .. Len(h) /\ h[k] \in Outstanding
  /\ Machines(h, x, k - 1) = h[k].was /\ Places(h, i, k - 1) = h[k].back
  /\ Floor(h, k) = Bottom(h[k])
  /\ Bottom(h[k]) \in Int /\ TokenAt(h[k]) \in Int /\ h[k].was.reg["esp"] \in Int
  /\ Edge(image, h, k) \in Int /\ Edge(image, h, k - 1) \in Int
  /\ Edge(image, h, k) <= Bottom(h[k]) /\ Bottom(h[k]) <= TokenAt(h[k])
  /\ TokenAt(h[k]) < h[k].was.reg["esp"]
  /\ h[k].was.reg["esp"] <= Edge(image, h, k - 1)
  /\ h[k].was.reg["esp"] <= StackLimit

LEMMA CallerAbove ==
  ASSUME Loaded, NEW STATE shape, KeepsStack(image, shape), NEW STATE h, h \in Seq(Outstanding),
         NEW STATE e, e \in Int, NEW STATE x, x \in Machine, NEW STATE i,
         Nested(image, shape, h, e, x, i), NEW STATE k, k \in 1 .. Len(h)
  PROVE  MadeBelow(h, x, i, k)
<1> DEFINE n == Len(h)
           a == k - 1
           c == h[k]
<1>1. n \in Nat /\ a \in 0 .. n /\ a # n /\ a + 1 = k /\ k \in 0 .. n /\ k # 0 /\ k > 0
      /\ c \in Outstanding /\ a \in 0 .. n - 1
  BY CallsTyped
<1>2. Machines(h, x, a) = c.was /\ Places(h, i, a) = c.back
  BY <1>1 DEF Machines, Places
<1>3. LevelTyped(shape, h, a, e, c.was, c.back)
  <2> HIDE DEF a, n, c
  <2>1. LevelTyped(shape, h, a, e, Machines(h, x, a), Places(h, i, a))
    BY <1>1, LevelsTyped DEF n
  <2> QED
    BY <1>2, <2>1
<1>4. LevelTyped(shape, h, k, e, Machines(h, x, k), Places(h, i, k))
  BY <1>1, LevelsTyped
<1>5. Floor(h, k) = Bottom(c)
  BY <1>1, AtCall
<1> HIDE DEF a, n
<1>6. Runs(image, h, a).locals > 0 => shape[c.back].framed
  BY <1>1 DEF Nested, n
<1> DEFINE p == Runs(image, h, a)
           b == Floor(h, a)
           d == FoundEbp(h, a, e)
           l == FoundLocals(h, a)
<1>7. /\ p \in Procedure /\ b \in Int /\ b <= StackLimit /\ d \in Int /\ l \in Seq(LocalFrame)
      /\ c.was \in Machine /\ shape[c.back] \in OnStack /\ Within(shape, c.was, c.back, p, b, d, l)
      /\ Edge(image, h, a) \in Int
  BY <1>3 DEF LevelTyped
<1>8. Edge(image, h, a) = IF p.locals > 0 THEN b - 1 ELSE b
  BY DEF Edge
<1> HIDE DEF p, b, d, l, c
<1>9. Stands(shape, c.was, c.back, p, b, d, l)
  BY <1>7, WithinFacts
<1>10. c.was.reg["esp"] \in Int /\ c.was.reg["esp"] <= Edge(image, h, a)
       /\ c.was.reg["esp"] <= StackLimit
  <2>1. /\ c.was.reg["esp"] \in Int /\ c.was.reg["esp"] <= b /\ p.locals \in Nat
        /\ (shape[c.back].framed => c.was.reg["esp"] <= b - 1 - p.locals)
    BY <1>9 DEF Stands
  <2>2. p.locals > 0 => shape[c.back].framed
    BY <1>6 DEF p
  <2> QED
    BY <1>7, <1>8, <2>1, <2>2, Numbers
<1>11. /\ Bottom(c) \in Int /\ TokenAt(c) \in Int /\ Bottom(c) <= TokenAt(c)
       /\ TokenAt(c) < c.was.reg["esp"]
  BY <1>1, CallTyped
<1>12. Edge(image, h, k) \in Int /\ Edge(image, h, k) <= Floor(h, k)
  BY <1>4 DEF LevelTyped
<1> QED
  BY <1>1, <1>2, <1>5, <1>7, <1>10, <1>11, <1>12 DEF a, n, c, MadeBelow

\* A return gives its caller's activation back.
LEMMA ReturnNests ==
  ASSUME Loaded, NEW STATE shape, KeepsStack(image, shape), NEW STATE h, h \in Seq(Outstanding),
         NEW STATE e, e \in Int, NEW STATE x, x \in Machine, NEW STATE i,
         Nested(image, shape, h, e, x, i), h # <<>>,
         NEW STATE y, Resumes(x, Last(h), y)
  PROVE  Nested(image, shape, Front(h), e, y, Last(h).back)
<1> DEFINE n == Len(h)
           g == Front(h)
           c == Last(h)
<1>1. /\ n \in Nat \ {0} /\ c = h[n] /\ Len(g) = n - 1 /\ \A k \in 1 .. n - 1 : g[k] = h[k]
  BY FrontOf
<1> HIDE DEF g, c
<1> DEFINE a == n - 1
<1>2. a \in 0 .. n /\ a \in Nat /\ a + 1 = n /\ n \in 1 .. n /\ n > 0
  BY <1>1
<1>3. /\ c \in Outstanding /\ Machines(h, x, a) = c.was /\ Places(h, i, a) = c.back
      /\ Bottom(c) \in Int /\ TokenAt(c) \in Int /\ c.was.reg["esp"] \in Int
      /\ Edge(image, h, a) \in Int /\ c.was.reg["esp"] <= Edge(image, h, a)
      /\ c.was.reg["esp"] <= StackLimit
  <2> DEFINE k == n
  <2>1. k \in 1 .. Len(h) /\ c = h[k] /\ a = k - 1
    BY <1>1, <1>2
  <2> HIDE DEF k, a
  <2>2. /\ h[k] \in Outstanding
        /\ Machines(h, x, k - 1) = h[k].was /\ Places(h, i, k - 1) = h[k].back
        /\ Bottom(h[k]) \in Int /\ TokenAt(h[k]) \in Int /\ h[k].was.reg["esp"] \in Int
        /\ Edge(image, h, k - 1) \in Int
        /\ h[k].was.reg["esp"] <= Edge(image, h, k - 1)
        /\ h[k].was.reg["esp"] <= StackLimit
    <3>1. MadeBelow(h, x, i, k)
      BY <2>1, CallerAbove
    <3> QED
      BY <3>1 DEF MadeBelow
  <2> QED
    BY <2>1, <2>2
<1>4. LevelTyped(shape, h, a, e, c.was, c.back)
  <2> HIDE DEF a, n
  <2>1. LevelTyped(shape, h, a, e, Machines(h, x, a), Places(h, i, a))
    BY <1>2, LevelsTyped DEF n
  <2> QED
    BY <1>3, <2>1
<1>5. Holds(x, c)
  <2>1. LevelTyped(shape, h, n, e, Machines(h, x, n), Places(h, i, n)) /\ Machines(h, x, n) = x
    <3>1. n \in 0 .. Len(h)
      BY <1>1
    <3>2. Machines(h, x, n) = x
      BY DEF Machines
    <3> HIDE DEF n
    <3> QED
      BY <3>1, <3>2, LevelsTyped
  <2> QED
    BY <1>1, <1>2, <2>1 DEF LevelTyped
<1>6. /\ y.reg["esp"] = c.was.reg["esp"] /\ y.reg["ebp"] = c.was.reg["ebp"]
      /\ y.locals = c.was.locals /\ y.uses = c.was.uses /\ y.mem = x.mem
  BY DEF Resumes, c
<1>7. \A w \in c.was.reg["esp"] .. StackLimit - 1 : y.mem[w] = c.was.mem[w]
  BY <1>5, <1>6 DEF Holds
<1> DEFINE p == Runs(image, h, a)
           b == Floor(h, a)
           d == FoundEbp(h, a, e)
           l == FoundLocals(h, a)
<1>8. /\ p \in Procedure /\ b \in Int /\ b <= StackLimit
      /\ Within(shape, c.was, c.back, p, b, d, l) /\ c.was.uses = FoundUses(h, a)
      /\ UsesNamed(image, c.was) /\ (a > 0 => Holds(c.was, h[a]))
  BY <1>4 DEF LevelTyped
<1>9. Edge(image, h, a) = (IF p.locals > 0 THEN b - 1 ELSE b) /\ Edge(image, h, a) <= b
  <2>1. Edge(image, h, a) <= b
    BY <1>4 DEF LevelTyped
  <2> QED
    BY <2>1 DEF Edge
<1> HIDE DEF p, b, d, l
<1>10. Within(shape, y, c.back, p, b, d, l)
  <2>1. p.locals > 0 => y.mem[b - 1] = c.was.mem[b - 1]
    <3> SUFFICES ASSUME p.locals > 0 PROVE y.mem[b - 1] = c.was.mem[b - 1]
      OBVIOUS
    <3>1. b - 1 \in c.was.reg["esp"] .. StackLimit - 1
      BY <1>3, <1>8, <1>9, Numbers
    <3> QED
      BY <1>7, <3>1
  <2> QED
    BY <1>6, <1>8, <2>1 DEF Within
<1>11. a > 0 => Holds(y, h[a])
  <2> SUFFICES ASSUME a > 0 PROVE Holds(y, h[a])
    OBVIOUS
  <2> DEFINE f == h[a]
  <2>1. /\ Floor(h, a) = Bottom(f)
        /\ Bottom(f) \in Int /\ TokenAt(f) \in Int /\ f.was.reg["esp"] \in Int
        /\ Bottom(f) <= TokenAt(f) /\ TokenAt(f) < f.was.reg["esp"]
        /\ f.was.reg["esp"] <= StackLimit
    <3>1. a \in 1 .. Len(h)
      BY <1>2
    <3> HIDE DEF a
    <3>2. MadeBelow(h, x, i, a)
      BY <3>1, CallerAbove
    <3> QED
      BY <3>2 DEF MadeBelow
  <2>2. Holds(c.was, f)
    BY <1>8
  <2>3. b = Bottom(f)
    BY <2>1 DEF b
  <2> HIDE DEF f, a
  <2>4. y.mem[TokenAt(f)] = c.was.mem[TokenAt(f)]
    <3>1. TokenAt(f) \in c.was.reg["esp"] .. StackLimit - 1
      BY <1>3, <1>8, <1>9, <2>1, <2>3, Numbers
    <3> QED
      BY <1>7, <3>1
  <2>5. \A w \in f.was.reg["esp"] .. StackLimit - 1 : y.mem[w] = c.was.mem[w]
    <3> SUFFICES ASSUME NEW w \in f.was.reg["esp"] .. StackLimit - 1
                 PROVE  y.mem[w] = c.was.mem[w]
      OBVIOUS
    <3>1. c.was.reg["esp"] <= b
      BY <1>3, <1>8, <1>9
    <3>2. b <= w
      BY <2>1, <2>3, Numbers
    <3>3. w \in c.was.reg["esp"] .. StackLimit - 1
      <4>1. w \in Int /\ w <= StackLimit - 1 /\ c.was.reg["esp"] \in Int /\ b \in Int
        BY <1>3, <1>8, <2>1, Numbers
      <4> QED
        BY <3>1, <3>2, <4>1, Numbers
    <3> QED
      BY <1>7, <3>3
  <2>6. Holds(y, f)
    BY <2>2, <2>4, <2>5 DEF Holds
  <2> QED
    BY <2>6 DEF f
<1>12. Level(image, shape, h, a, e, y, c.back)
  <2>1. UsesNamed(image, y) /\ y.uses = FoundUses(h, a)
    BY <1>6, <1>8 DEF UsesNamed
  <2>2. Within(shape, y, c.back, Runs(image, h, a), Floor(h, a), FoundEbp(h, a, e), FoundLocals(h, a))
    BY <1>10 DEF p, b, d, l
  <2> HIDE DEF a
  <2> QED
    BY <1>11, <2>1, <2>2 DEF Level
<1>13. ASSUME NEW k \in 0 .. a
       PROVE  Level(image, shape, g, k, e, Machines(g, y, k), Places(g, c.back, k))
  <2>1. k = 0 \/ g[k] = h[k]
    <3>1. k = 0 \/ k \in 1 .. n - 1
      BY <1>2
    <3> QED
      BY <1>1, <3>1
  <2>2. CASE k = a
    <3>1. Machines(g, y, k) = y /\ Places(g, c.back, k) = c.back
      BY <1>1, <2>2 DEF Machines, Places
    <3> DEFINE j == c.back
    <3>2. Level(image, shape, h, k, e, y, j)
      BY <1>12, <2>2
    <3> HIDE DEF a, j
    <3>3. Level(image, shape, g, k, e, y, j)
      BY <2>1, <3>2, LevelByCall
    <3> QED
      BY <3>1, <3>3 DEF j
  <2>3. CASE k # a
    <3>1. k # n - 1 /\ k # n /\ k + 1 \in 1 .. n - 1 /\ k \in 0 .. Len(h)
      BY <1>1, <1>2, <2>3
    <3>2. Machines(g, y, k) = Machines(h, x, k) /\ Places(g, c.back, k) = Places(h, i, k)
      BY <1>1, <3>1 DEF Machines, Places
    <3> DEFINE z == Machines(h, x, k)
               j == Places(h, i, k)
    <3>3. Level(image, shape, h, k, e, z, j)
      BY <3>1 DEF Nested
    <3> HIDE DEF a, z, j
    <3>4. Level(image, shape, g, k, e, z, j)
      BY <2>1, <3>3, LevelByCall
    <3> QED
      BY <3>2, <3>4 DEF z, j
  <2> QED
    BY <2>2, <2>3
<1>14. ASSUME NEW k \in 1 .. a PROVE Returns(image, shape, g[k])
  <2>1. k \in 1 .. Len(h) /\ g[k] = h[k]
    BY <1>1, <1>2
  <2> QED
    BY <2>1 DEF Nested
<1>15. ASSUME NEW k \in 0 .. a - 1, Runs(image, g, k).locals > 0
       PROVE  shape[g[k + 1].back].framed
  <2>1. k \in 0 .. Len(h) - 1 /\ k + 1 \in 1 .. n - 1 /\ (k = 0 \/ k \in 1 .. n - 1)
    BY <1>2
  <2>2. Runs(image, g, k) = Runs(image, h, k) /\ g[k + 1] = h[k + 1]
    BY <1>1, <2>1 DEF Runs
  <2> QED
    BY <1>15, <2>1, <2>2 DEF Nested
<1>16. Nested(image, shape, g, e, y, c.back)
  <2>1. Len(g) = a /\ Len(g) - 1 = a - 1
    BY <1>1
  <2> HIDE DEF a
  <2>2. \A k \in 0 .. Len(g) : Level(image, shape, g, k, e, Machines(g, y, k), Places(g, c.back, k))
    BY <1>13, <2>1
  <2>3. \A k \in 1 .. Len(g) : Returns(image, shape, g[k])
    BY <1>14, <2>1
  <2>4. \A k \in 0 .. Len(g) - 1 : Runs(image, g, k).locals > 0 => shape[g[k + 1].back].framed
    BY <1>15, <2>1
  <2> QED
    BY <2>2, <2>3, <2>4 DEF Nested
<1> QED
  BY <1>16 DEF g, c

\* Counting up in steps.
StepsUp(f, Q, n, c) ==
  /\ n \in Nat /\ c \in Nat /\ Q \subseteq 1 .. n /\ f[0] = c
  /\ \A k \in 1 .. n : f[k] = f[k - 1] + (IF k \in Q THEN 1 ELSE 0)

LEMMA CountsUp ==
  ASSUME NEW STATE n, NEW STATE Q, NEW STATE f, NEW STATE c, StepsUp(f, Q, n, c)
  PROVE  f[n] = Cardinality(Q) + c
<1>0. n \in Nat /\ c \in Nat /\ Q \subseteq 1 .. n
  BY DEF StepsUp
<1> DEFINE T(k) == Q \cap (1 .. k)
           S == {k \in 0 .. n : f[k] = Cardinality(T(k)) + c /\ Cardinality(T(k)) \in Nat
                                  /\ IsFiniteSet(T(k))}
<1>1. 0 \in S
  <2>1. T(0) = {}
    BY <1>0
  <2>2. Cardinality(T(0)) = 0 /\ IsFiniteSet(T(0))
    BY <2>1, FS_EmptySet
  <2>3. f[0] = c
    BY DEF StepsUp
  <2> HIDE DEF T
  <2> QED
    BY <1>0, <2>2, <2>3
<1>2. ASSUME NEW k \in 0 .. n - 1, k \in S PROVE k + 1 \in S
  <2> DEFINE j == k + 1
  <2>1. j \in 1 .. n /\ j - 1 = k /\ k \in Nat
    BY <1>0, <1>2
  <2>2. f[k] = Cardinality(T(k)) + c /\ Cardinality(T(k)) \in Nat /\ IsFiniteSet(T(k))
    BY <1>2
  <2>3. f[j] = f[k] + (IF j \in Q THEN 1 ELSE 0)
    BY <2>1 DEF StepsUp
  <2>4. CASE j \in Q
    <3>1. T(j) = T(k) \cup {j} /\ j \notin T(k)
      BY <1>0, <2>1, <2>4
    <3> HIDE DEF T, j
    <3>2. IsFiniteSet(T(j)) /\ Cardinality(T(j)) = Cardinality(T(k)) + 1
      BY <2>2, <3>1, FS_AddElement
    <3>3. f[j] = Cardinality(T(j)) + c
      BY <1>0, <2>2, <2>3, <2>4, <3>2
    <3> QED
      BY <2>1, <2>2, <3>2, <3>3 DEF j
  <2>5. CASE j \notin Q
    <3>1. T(j) = T(k)
      BY <1>0, <2>1, <2>5
    <3> HIDE DEF T, j
    <3>2. f[j] = Cardinality(T(j)) + c
      BY <1>0, <2>2, <2>3, <2>5, <3>1
    <3> QED
      BY <2>1, <2>2, <3>1, <3>2 DEF j
  <2> QED
    BY <2>4, <2>5
<1> HIDE DEF S
<1>3. \A k \in 0 .. n : k \in S
  BY <1>0, <1>1, <1>2, Induction
<1>4. n \in S
  BY <1>0, <1>3
<1>5. T(n) = Q
  BY <1>0
<1> QED
  BY <1>4, <1>5 DEF S

\* Every token is where its call wrote it, and no activation reaches down to another's.
TokensKept(h, x, k) ==
  \A j \in 1 .. k : /\ Edge(image, h, k) <= Edge(image, h, j)
                    /\ x.mem[TokenAt(h[j])] = TokenBase + h[j].back

LEMMA TokensStay ==
  ASSUME Loaded, NEW STATE shape, KeepsStack(image, shape), NEW STATE h, h \in Seq(Outstanding),
         NEW STATE e, e \in Int, NEW STATE x, x \in Machine, NEW STATE i,
         Nested(image, shape, h, e, x, i)
  PROVE  TokensKept(h, x, Len(h))
<1> DEFINE n == Len(h)
           S == {k \in 0 .. n : TokensKept(h, Machines(h, x, k), k)}
<1>1. n \in Nat
  BY CallsTyped
<1>2. 0 \in S
  BY <1>1 DEF TokensKept
<1>3. ASSUME NEW k \in 0 .. n - 1, k \in S PROVE k + 1 \in S
  <2> DEFINE d == k + 1
             z == Machines(h, x, d)
             c == h[d]
  <2>1. d \in 1 .. n /\ d - 1 = k /\ k \in Nat /\ d > 0 /\ d \in 0 .. n
    BY <1>1, <1>3
  <2>2. /\ Machines(h, x, k) = c.was
        /\ Bottom(c) \in Int /\ TokenAt(c) \in Int /\ c.was.reg["esp"] \in Int
        /\ Edge(image, h, d) \in Int /\ Edge(image, h, k) \in Int
        /\ Edge(image, h, d) <= Bottom(c) /\ Bottom(c) <= TokenAt(c)
        /\ TokenAt(c) < c.was.reg["esp"]
        /\ c.was.reg["esp"] <= Edge(image, h, k)
        /\ c.was.reg["esp"] <= StackLimit
    <3>1. d \in 1 .. Len(h)
      BY <2>1
    <3> HIDE DEF d, z
    <3>2. /\ Machines(h, x, d - 1) = c.was
          /\ Bottom(c) \in Int /\ TokenAt(c) \in Int /\ c.was.reg["esp"] \in Int
          /\ Edge(image, h, d) \in Int /\ Edge(image, h, d - 1) \in Int
          /\ Edge(image, h, d) <= Bottom(c) /\ Bottom(c) <= TokenAt(c)
          /\ TokenAt(c) < c.was.reg["esp"]
          /\ c.was.reg["esp"] <= Edge(image, h, d - 1)
          /\ c.was.reg["esp"] <= StackLimit
      <4>1. MadeBelow(h, x, i, d)
        BY <3>1, CallerAbove
      <4> QED
        BY <4>1 DEF MadeBelow
    <3> QED
      BY <2>1, <3>2
  <2>3. Holds(z, c)
    <3> HIDE DEF d, n
    <3>1. LevelTyped(shape, h, d, e, z, Places(h, i, d))
      BY <2>1, LevelsTyped DEF n
    <3> QED
      BY <2>1, <3>1 DEF LevelTyped
  <2>4. TokensKept(h, c.was, k)
    BY <1>3, <2>2
  <2> HIDE DEF z, c
  <2>5. ASSUME NEW j \in 1 .. d
        PROVE  /\ Edge(image, h, d) <= Edge(image, h, j)
               /\ z.mem[TokenAt(h[j])] = TokenBase + h[j].back
    <3>1. CASE j = d
      BY <2>2, <2>3, <3>1 DEF Holds, c
    <3>2. CASE j # d
      <4>1. j \in 1 .. k /\ j \in 1 .. Len(h)
        BY <1>1, <2>1, <3>2
      <4>2. Edge(image, h, k) <= Edge(image, h, j) /\ c.was.mem[TokenAt(h[j])] = TokenBase + h[j].back
        BY <2>4, <4>1 DEF TokensKept
      <4> HIDE DEF d, n
      <4>3. /\ Edge(image, h, j) \in Int /\ Bottom(h[j]) \in Int /\ TokenAt(h[j]) \in Int
            /\ h[j].was.reg["esp"] \in Int
            /\ Edge(image, h, j) <= Bottom(h[j]) /\ Bottom(h[j]) <= TokenAt(h[j])
            /\ TokenAt(h[j]) < h[j].was.reg["esp"] /\ h[j].was.reg["esp"] <= StackLimit
        <5>1. MadeBelow(h, x, i, j)
          BY <4>1, CallerAbove
        <5> QED
          BY <5>1 DEF MadeBelow
      <4>4. Edge(image, h, d) <= Edge(image, h, j)
        BY <2>2, <4>2, <4>3
      <4>5. TokenAt(h[j]) \in c.was.reg["esp"] .. StackLimit - 1
        <5>1. c.was.reg["esp"] <= TokenAt(h[j])
          BY <2>2, <4>2, <4>3
        <5>2. TokenAt(h[j]) <= StackLimit - 1
          BY <4>3, Numbers
        <5> QED
          BY <2>2, <4>3, <5>1, <5>2, Numbers
      <4>6. z.mem[TokenAt(h[j])] = c.was.mem[TokenAt(h[j])]
        BY <2>3, <4>5 DEF Holds
      <4> QED
        BY <4>2, <4>4, <4>6
    <3> QED
      BY <3>1, <3>2
  <2>6. TokensKept(h, z, d)
    BY <2>5 DEF TokensKept
  <2> QED
    BY <2>1, <2>6 DEF z
<1> HIDE DEF S
<1>4. \A k \in 0 .. n : k \in S
  <2> HIDE DEF n
  <2> QED
    BY <1>1, <1>2, <1>3, Induction
<1>5. n \in S
  BY <1>1, <1>4
<1>6. Machines(h, x, n) = x
  BY DEF Machines
<1> QED
  BY <1>5, <1>6 DEF S

\* The frame stacks count the calls.
LEMMA UsesCount ==
  ASSUME Loaded, NEW STATE shape, KeepsStack(image, shape), NEW STATE h, h \in Seq(Outstanding),
         NEW STATE e, e \in Int, NEW STATE x, x \in Machine, NEW STATE i,
         Nested(image, shape, h, e, x, i)
  PROVE  Len(x.uses) = Cardinality({k \in DOMAIN h : h[k].callee.uses # <<>>})
<1> DEFINE n == Len(h)
           Q == {k \in DOMAIN h : h[k].callee.uses # <<>>}
           f == [k \in 0 .. n |-> Len(FoundUses(h, k))]
<1>1. n \in Nat /\ DOMAIN h = 1 .. n /\ FoundUses(h, 0) = <<>>
  BY CallsTyped
<1>2. Q \subseteq 1 .. n
  BY <1>1
<1>3. f[0] = 0
  <2>1. 0 \in 0 .. n /\ Len(<<>>) = 0
    BY <1>1
  <2> QED
    BY <1>1, <2>1
<1>4. ASSUME NEW k \in 1 .. n
      PROVE  f[k] = f[k - 1] + (IF k \in Q THEN 1 ELSE 0)
  <2> DEFINE c == h[k]
             u == FoundUses(h, k - 1)
             a == k - 1
             g == [start |-> c.callee.start, regs |-> c.callee.uses]
  <2>1. k \in 1 .. Len(h) /\ k \in 0 .. n /\ a \in 0 .. n /\ k # 0 /\ k \in DOMAIN h /\ a \in 0 .. Len(h)
    BY <1>1
  <2>2. Machines(h, x, a) = c.was /\ c \in Outstanding
    <3>1. MadeBelow(h, x, i, k)
      BY <2>1, CallerAbove
    <3> QED
      BY <3>1 DEF MadeBelow
  <2>3. c.was.uses = u
    <3> DEFINE y == Machines(h, x, a)
    <3> HIDE DEF a, y
    <3>1. LevelTyped(shape, h, a, e, y, Places(h, i, a))
      BY <2>1, LevelsTyped DEF y
    <3>2. y.uses = FoundUses(h, a)
      BY <3>1 DEF LevelTyped
    <3> QED
      BY <2>2, <3>2 DEF y, a
  <2>4. FoundUses(h, k) = UsesIn(c)
    BY <2>1, AtCall
  <2>5. u \in Seq(UsesFrame) /\ g \in UsesFrame
    <3>1. c.was.uses \in Seq(UsesFrame) /\ c.callee \in Procedure
      BY <2>2, CallTyped
    <3> QED
      BY <2>3, <3>1 DEF UsesFrame, Procedure
  <2>6. Len(Append(u, g)) = Len(u) + 1 /\ Len(u) \in Nat
    <3> HIDE DEF u, g
    <3> QED
      BY <2>5, OneMore
  <2>7. f[k] = Len(UsesIn(c)) /\ f[k - 1] = Len(u)
    BY <2>1, <2>4
  <2>8. CASE k \in Q
    <3>1. UsesIn(c) = Append(u, g)
      BY <2>3, <2>8 DEF UsesIn
    <3> HIDE DEF f, u, g, c
    <3> QED
      BY <2>6, <2>7, <2>8, <3>1
  <2>9. CASE k \notin Q
    <3>1. UsesIn(c) = u
      BY <2>1, <2>3, <2>9 DEF UsesIn
    <3> HIDE DEF f, u, g, c
    <3> QED
      BY <2>6, <2>7, <2>9, <3>1
  <2> QED
    BY <2>8, <2>9
<1> DEFINE z == 0
<1>5. z \in Nat /\ f[0] = z
  BY <1>3
<1> HIDE DEF f, Q, z
<1>6. f[n] = Cardinality(Q) + z
  <2> HIDE DEF n
  <2>1. StepsUp(f, Q, n, z) /\ Q \in SUBSET (1 .. n)
    BY <1>1, <1>2, <1>4, <1>5 DEF StepsUp
  <2> QED
    BY <2>1, CountsUp
<1>7. x.uses = FoundUses(h, n)
  <2>1. n \in 0 .. Len(h) /\ Machines(h, x, n) = x
    BY <1>1 DEF Machines
  <2> HIDE DEF n
  <2>2. LevelTyped(shape, h, n, e, x, Places(h, i, n))
    BY <2>1, LevelsTyped
  <2> QED
    BY <2>2 DEF LevelTyped
<1>8. Cardinality(Q) + z = Cardinality(Q)
  <2>1. Cardinality(Q) \in Nat
    <3>1. IsFiniteSet(1 .. n)
      BY <1>1, FS_Interval
    <3> QED
      BY <1>2, <3>1, FS_Subset, FS_CardinalityType
  <2> QED
    BY <2>1 DEF z
<1>9. f[n] = Len(x.uses)
  BY <1>1, <1>7 DEF f
<1> QED
  BY <1>6, <1>8, <1>9 DEF Q

\* One LOCAL frame, if the procedure has locals, on top of what the activation found.
LEMMA LocalsOf ==
  ASSUME NEW STATE shape, NEW STATE h, NEW STATE k, NEW STATE e, NEW STATE x, NEW STATE i,
         LevelTyped(shape, h, k, e, x, i)
  PROVE  /\ Len(x.locals) = Len(FoundLocals(h, k)) + (IF Runs(image, h, k).locals > 0 THEN 1 ELSE 0)
         /\ Len(FoundLocals(h, k)) \in Nat
<1> DEFINE p == Runs(image, h, k)
           l == FoundLocals(h, k)
           f == FrameOf(p, Floor(h, k), FoundEbp(h, k, e), shape[i].framed)
<1>1. /\ l \in Seq(LocalFrame) /\ p \in Procedure /\ shape[i] \in OnStack
      /\ Floor(h, k) \in Int /\ FoundEbp(h, k, e) \in Int
      /\ Within(shape, x, i, p, Floor(h, k), FoundEbp(h, k, e), l)
  BY DEF LevelTyped
<1>2. x.locals = IF p.locals = 0 THEN l ELSE Append(l, f)
  BY <1>1 DEF Within
<1>3. f \in LocalFrame /\ p.locals \in Nat
  BY <1>1 DEF FrameOf, LocalFrame, Procedure, OnStack
<1> HIDE DEF f, l, p
<1>4. Len(Append(l, f)) = Len(l) + 1 /\ Len(l) \in Nat
  BY <1>1, <1>3, OneMore
<1>5. CASE p.locals = 0
  BY <1>2, <1>4, <1>5 DEF l, p
<1>6. CASE p.locals # 0
  <2>1. p.locals > 0
    BY <1>3, <1>6
  <2>2. Len(x.locals) = Len(l) + 1
    BY <1>2, <1>4, <1>6
  <2> QED
    BY <1>4, <2>1, <2>2 DEF l, p
<1> QED
  BY <1>5, <1>6

LEMMA LocalsCount ==
  ASSUME Loaded, NEW STATE shape, KeepsStack(image, shape), NEW STATE h, h \in Seq(Outstanding),
         NEW STATE e, e \in Int, NEW STATE x, x \in Machine, NEW STATE i,
         Nested(image, shape, h, e, x, i)
  PROVE  Len(x.locals) = Cardinality({k \in DOMAIN h : h[k].callee.locals > 0})
                           + (IF EntryOf(image).locals > 0 THEN 1 ELSE 0)
<1> DEFINE n == Len(h)
           Q == {k \in DOMAIN h : h[k].callee.locals > 0}
           f == [k \in 0 .. n |-> Len(Machines(h, x, k).locals)]
           z == IF EntryOf(image).locals > 0 THEN 1 ELSE 0
<1>1. n \in Nat /\ DOMAIN h = 1 .. n /\ FoundLocals(h, 0) = <<>> /\ Runs(image, h, 0) = EntryOf(image)
  BY CallsTyped
<1>2. Q \subseteq 1 .. n
  BY <1>1
<1>3. ASSUME NEW k \in 0 .. n
      PROVE  /\ f[k] = Len(FoundLocals(h, k)) + (IF Runs(image, h, k).locals > 0 THEN 1 ELSE 0)
             /\ Len(FoundLocals(h, k)) \in Nat
  <2> DEFINE y == Machines(h, x, k)
             j == Places(h, i, k)
  <2>1. LevelTyped(shape, h, k, e, y, j)
    BY LevelsTyped
  <2>2. f[k] = Len(y.locals)
    OBVIOUS
  <2> HIDE DEF y, j, f, n
  <2>3. /\ Len(y.locals) = Len(FoundLocals(h, k)) + (IF Runs(image, h, k).locals > 0 THEN 1 ELSE 0)
        /\ Len(FoundLocals(h, k)) \in Nat
    BY <2>1, LocalsOf
  <2> QED
    BY <2>2, <2>3
<1>4. f[0] = z
  <2>1. 0 \in 0 .. n /\ Len(<<>>) = 0
    BY <1>1
  <2>2. f[0] = Len(FoundLocals(h, 0)) + (IF Runs(image, h, 0).locals > 0 THEN 1 ELSE 0)
    BY <1>3, <2>1
  <2> HIDE DEF f
  <2> QED
    BY <1>1, <2>1, <2>2
<1>5. ASSUME NEW k \in 1 .. n
      PROVE  f[k] = f[k - 1] + (IF k \in Q THEN 1 ELSE 0)
  <2>1. k \in 1 .. Len(h) /\ k \in 0 .. n /\ k - 1 \in 0 .. n /\ k # 0 /\ k \in DOMAIN h
    BY <1>1
  <2>2. Machines(h, x, k - 1) = h[k].was
    <3>1. MadeBelow(h, x, i, k)
      BY <2>1, CallerAbove
    <3> QED
      BY <3>1 DEF MadeBelow
  <2>3. f[k - 1] = Len(h[k].was.locals)
    BY <2>1, <2>2
  <2>4. FoundLocals(h, k) = h[k].was.locals /\ Runs(image, h, k) = h[k].callee
    BY <2>1, AtCall
  <2>5. k \in Q <=> h[k].callee.locals > 0
    BY <2>1
  <2>6. f[k] = Len(FoundLocals(h, k)) + (IF Runs(image, h, k).locals > 0 THEN 1 ELSE 0)
    BY <1>3, <2>1
  <2> HIDE DEF f, Q, n
  <2> QED
    BY <2>3, <2>4, <2>5, <2>6
<1>6. z \in Nat
  OBVIOUS
<1> HIDE DEF f, Q, z
<1>7. f[n] = Cardinality(Q) + z
  <2> HIDE DEF n
  <2>1. StepsUp(f, Q, n, z)
    BY <1>1, <1>2, <1>4, <1>5, <1>6 DEF StepsUp
  <2> QED
    BY <2>1, CountsUp
<1>8. f[n] = Len(x.locals)
  <2>1. Machines(h, x, n) = x /\ n \in 0 .. n
    BY <1>1 DEF Machines
  <2> HIDE DEF n
  <2> QED
    BY <2>1 DEF f
<1> QED
  BY <1>7, <1>8 DEF Q, z

\* What FramesMirrorCalls says of a machine and the calls it is in.
Mirrors(x, h) ==
  /\ Len(x.uses) = Cardinality({k \in DOMAIN h : h[k].callee.uses # <<>>})
  /\ Len(x.locals) = Cardinality({k \in DOMAIN h : h[k].callee.locals > 0})
                       + (IF EntryProc.locals > 0 THEN 1 ELSE 0)
  /\ \A k \in DOMAIN h : x.mem[TokenAt(h[k])] = TokenBase + h[k].back

LEMMA NestedMirrors ==
  ASSUME Loaded, NEW STATE shape, KeepsStack(image, shape), NEW STATE h, h \in Seq(Outstanding),
         NEW STATE e, e \in Int, NEW STATE x, x \in Machine, NEW STATE i,
         Nested(image, shape, h, e, x, i)
  PROVE  Mirrors(x, h)
<1>1. TokensKept(h, x, Len(h)) /\ DOMAIN h = 1 .. Len(h)
  BY TokensStay, CallsTyped
<1>2. \A k \in DOMAIN h : x.mem[TokenAt(h[k])] = TokenBase + h[k].back
  BY <1>1 DEF TokensKept
<1>3. Len(x.uses) = Cardinality({k \in DOMAIN h : h[k].callee.uses # <<>>})
  BY UsesCount
<1>4. EntryOf(image) = EntryProc
  BY EntryIs
<1>5. Len(x.locals) = Cardinality({k \in DOMAIN h : h[k].callee.locals > 0})
                       + (IF EntryOf(image).locals > 0 THEN 1 ELSE 0)
  BY LocalsCount
<1> QED
  BY <1>2, <1>3, <1>4, <1>5 DEF Mirrors

-----------------------------------------------------------------------------
(* The inductive invariant of the calls. *)

Kept == CHOOSE s : KeepsStack(image, s)

\* The entry procedure has not been given its frame yet.
Fresh ==
  /\ ip = EntryProc.start /\ calls = <<>> /\ helpers = 0 /\ entryFrame = FALSE
  /\ EntryProc.locals > 0
  /\ m.uses = <<>> /\ m.locals = <<>> /\ m.descriptors = 0 /\ m.reg["esp"] = StackLimit

Deep == /\ entryFrame = (EntryProc.locals > 0)
        /\ \E e \in Int : Nested(image, Kept, calls, e, m, ip)

CallsInv ==
  /\ FramesInv /\ Control /\ KeepsStack(image, Kept)
  /\ calls \in Seq(Outstanding) /\ Len(calls) = helpers
  /\ FramesMirrorCalls
  /\ Running => Fresh \/ Deep

\* The entry procedure before any call.
LEMMA RootNests ==
  ASSUME Loaded, NEW STATE shape, NEW STATE e, NEW STATE x, NEW STATE i,
         Within(shape, x, i, EntryProc, StackLimit, e, <<>>), x.uses = <<>>
  PROVE  Nested(image, shape, <<>>, e, x, i)
<1> DEFINE h == <<>>
<1>1. Len(h) = 0 /\ 0 .. 0 = {0} /\ 1 .. 0 = {} /\ 0 .. 0 - 1 = {}
  OBVIOUS
<1>2. Runs(image, h, 0) = EntryProc /\ Floor(h, 0) = StackLimit /\ FoundEbp(h, 0, e) = e
      /\ FoundLocals(h, 0) = <<>> /\ FoundUses(h, 0) = <<>>
  BY EntryIs DEF Runs, Floor, FoundEbp, FoundLocals, FoundUses
<1>3. UsesNamed(image, x)
  BY DEF UsesNamed
<1>4. Level(image, shape, h, 0, e, x, i)
  <2> HIDE DEF h
  <2> QED
    BY <1>2, <1>3 DEF Level
<1>5. Machines(h, x, 0) = x /\ Places(h, i, 0) = i
  BY <1>1 DEF Machines, Places
<1> HIDE DEF h
<1>6. Nested(image, shape, h, e, x, i)
  BY <1>1, <1>4, <1>5 DEF Nested
<1> QED
  BY <1>6 DEF h

\* The entry procedure is there, with its first instruction.
LEMMA EntryLeads ==
  ASSUME Loaded, NEW STATE shape, KeepsStack(image, shape)
  PROVE  /\ EntryProc \in ProcsOf(image) /\ EntryProc \in Procedure /\ EntryProc.entry
         /\ EntryProc.start \in Body(EntryProc) \cap DOMAIN shape
         /\ shape[EntryProc.start] = Resting(EntryProc)
         /\ EntryProc.locals \in Nat /\ EntryProc.locals <= DescriptorCapacity
<1>1. EntryProc \in ProcsOf(image) /\ EntryProc.entry
  BY EntryIs
<1>2. EntryProc \in Procedure
  BY <1>1, ProcsApart DEF Loaded
<1>3. Leads(shape, EntryProc, EntryProc.start, Resting(EntryProc)) /\ EntryProc.locals <= DescriptorCapacity
  BY <1>1 DEF KeepsStack
<1>4. EntryProc.locals \in Nat
  BY <1>2 DEF Procedure
<1> QED
  BY <1>1, <1>2, <1>3, <1>4 DEF Leads

\* Between instructions of a running activation the prologue has nothing to do.
LEMMA DeepEntered ==
  ASSUME Loaded, NEW STATE shape, KeepsStack(image, shape), calls \in Seq(Outstanding),
         m \in Machine, entryFrame \in BOOLEAN, NEW STATE e, e \in Int,
         Nested(image, shape, calls, e, m, ip)
  PROVE  Entered.m = m /\ EntryFrameNow = entryFrame
<1> DEFINE n == Len(calls)
           p == Runs(image, calls, n)
           b == Floor(calls, n)
           d == FoundEbp(calls, n, e)
           l == FoundLocals(calls, n)
<1>1. RunsHere(shape, m, p, b, d, l)
  BY NestedTop DEF Innermost
<1> HIDE DEF n, p, b, d, l
<1>2. LocalsHere = (IF p.locals > 0 THEN {p} ELSE {})
      /\ (p.locals > 0 => shape[ip].framed \/ Instr.op = "ret")
  BY <1>1, HereFacts
<1>3. p.locals > 0 => m.locals # <<>> /\ Last(m.locals) = FrameOf(p, b, d, shape[ip].framed)
  BY <1>1, HereWithin
<1>4. p.locals > 0 => FrameReady(p)
  BY <1>2, <1>3 DEF FrameReady, TopLocalOf, FrameOf
<1>5. \A q \in LocalsHere : FrameReady(q)
  BY <1>2, <1>4
<1>6. Entered.m = m
  BY <1>5 DEF Entered, Ok, Err
<1>7. ~CreatesEntryFrame
  BY <1>5 DEF CreatesEntryFrame
<1> QED
  BY <1>6, <1>7 DEF EntryFrameNow

\* A refused first fetch leaves the entry procedure without its frame.
LEMMA FreshRefused ==
  ASSUME Loaded, NEW STATE shape, KeepsStack(image, shape), Fresh, m \in Machine,
         Entered.status # "ok"
  PROVE  Entered.m = m /\ ~CreatesEntryFrame /\ EntryFrameNow = entryFrame
<1> DEFINE p == EntryProc
<1>1. /\ p \in ProcsOf(image) /\ p \in Procedure /\ p.entry /\ ip \in Body(p)
      /\ p.locals \in Nat /\ p.locals <= DescriptorCapacity
  BY EntryLeads DEF Fresh
<1>2. p.locals > 0 /\ ip = p.start /\ entryFrame = FALSE /\ helpers = 0
  BY DEF Fresh
<1>3. m.locals = <<>> /\ m.descriptors = 0 /\ m.reg["esp"] = StackLimit
  BY DEF Fresh
<1> HIDE DEF p
<1>4. LocalsHere = {p}
  BY <1>1, <1>2, InsideOne
<1>5. FirstEntry(p) /\ ~FrameReady(p)
  BY <1>1, <1>2, <1>3 DEF FirstEntry, FrameReady, TopLocalOf
<1>6. RoomForFrame(m, p)
  BY <1>1, <1>3, Numbers, ConstantsAssumption DEF RoomForFrame
<1>7. CASE StartsUsesWithoutFrame
  BY <1>2, <1>7 DEF Entered, Err, CreatesEntryFrame, EntryFrameNow
<1>8. CASE ~StartsUsesWithoutFrame
  <2>1. (CHOOSE q \in LocalsHere : TRUE) = p
    BY <1>4
  <2>2. Entered = IF ~CanReserve(m.reg["esp"], p.locals + 1) THEN Err("stack-overflow", m)
                  ELSE SetupLocalFrame(m, p)
    <3>1. ~(\A q \in LocalsHere : FrameReady(q))
      BY <1>4, <1>5
    <3> QED
      BY <1>5, <1>8, <2>1, <3>1 DEF Entered
  <2>3. ~CanReserve(m.reg["esp"], p.locals + 1)
    <3>1. SUFFICES ASSUME CanReserve(m.reg["esp"], p.locals + 1) PROVE FALSE
      OBVIOUS
    <3>2. SetupLocalFrame(m, p).status = "ok"
      BY <1>1, <1>6, <3>1, PutsFrame
    <3> QED
      BY <2>2, <3>1, <3>2
  <2>4. Entered.m = m
    BY <2>2, <2>3 DEF Err
  <2>5. ~CreatesEntryFrame
    BY <1>4, <2>3 DEF CreatesEntryFrame
  <2> QED
    BY <1>2, <2>4, <2>5 DEF EntryFrameNow
<1> QED
  BY <1>7, <1>8

\* The first fetch makes the frame of the entry procedure.
LEMMA FreshEntered ==
  ASSUME Loaded, NEW STATE shape, KeepsStack(image, shape), Fresh, m \in Machine,
         Entered.status = "ok"
  PROVE  /\ EntryFrameNow = TRUE /\ EntryProc.locals > 0
         /\ Nested(image, shape, calls, m.reg["ebp"], Entered.m, ip)
<1> DEFINE p == EntryProc
           y == Entered.m
           e == m.reg["ebp"]
<1>1. /\ p \in ProcsOf(image) /\ p \in Procedure /\ p.entry /\ ip \in Body(p) \cap DOMAIN shape
      /\ shape[ip] = Resting(p) /\ p.locals \in Nat /\ p.locals <= DescriptorCapacity
  BY EntryLeads DEF Fresh
<1>2. p.locals > 0 /\ ip = p.start /\ entryFrame = FALSE /\ helpers = 0 /\ calls = <<>>
  BY DEF Fresh
<1>3. m.locals = <<>> /\ m.descriptors = 0 /\ m.reg["esp"] = StackLimit /\ m.uses = <<>>
  BY DEF Fresh
<1> HIDE DEF p
<1>4. LocalsHere = {p}
  BY <1>1, <1>2, InsideOne
<1>5. FirstEntry(p) /\ ~FrameReady(p)
  BY <1>1, <1>2, <1>3 DEF FirstEntry, FrameReady, TopLocalOf
<1>6. RoomForFrame(m, p)
  BY <1>1, <1>3, Numbers, ConstantsAssumption DEF RoomForFrame
<1>7. ~StartsUsesWithoutFrame
  BY DEF Entered, Err
<1>8. Entered = IF ~CanReserve(m.reg["esp"], p.locals + 1) THEN Err("stack-overflow", m)
                ELSE SetupLocalFrame(m, p)
  <2>1. ~(\A q \in LocalsHere : FrameReady(q)) /\ (CHOOSE q \in LocalsHere : TRUE) = p
    BY <1>4, <1>5
  <2> QED
    BY <1>5, <1>7, <2>1 DEF Entered
<1>9. CanReserve(m.reg["esp"], p.locals + 1)
  BY <1>8 DEF Err
<1>10. CreatesEntryFrame
  BY <1>4, <1>5, <1>7, <1>9 DEF CreatesEntryFrame
<1>11. FramePut(m, p, y)
  BY <1>1, <1>6, <1>8, <1>9, PutsFrame
<1>12. e \in Int /\ p.locals + 1 \in Nat
  BY <1>1, Numbers DEF Machine
<1> HIDE DEF y, e
<1>13. /\ y.reg["esp"] = StackLimit - (p.locals + 1) /\ y.reg["ebp"] = StackLimit - 1
       /\ y.locals = Append(<<>>, FrameOf(p, StackLimit, e, TRUE))
       /\ y.uses = <<>> /\ y.mem[StackLimit - 1] = e
  BY <1>3, <1>11 DEF FramePut, e
<1>14. StackBase <= StackLimit - (p.locals + 1)
  BY <1>3, <1>9 DEF CanReserve
<1>15. shape[ip].up = 0 /\ shape[ip].framed = TRUE /\ ip \in Body(p) \cap DOMAIN shape
  <2>1. (p.locals > 0) = TRUE
    BY <1>2
  <2>2. shape[ip] = [up |-> 0, framed |-> TRUE]
    BY <1>1, <2>1 DEF Resting
  <2> QED
    BY <1>1, <2>2
<1>16. Within(shape, y, ip, p, StackLimit, e, <<>>)
  <2>1. StackLimit - 1 - p.locals - 0 = StackLimit - (p.locals + 1)
        /\ StackLimit - 1 - p.locals = StackLimit - (p.locals + 1) /\ p.locals # 0
    BY <1>1, <1>2, Numbers
  <2> QED
    BY <1>2, <1>13, <1>14, <1>15, <2>1 DEF Within
<1>17. Nested(image, shape, <<>>, e, y, ip)
  BY <1>13, <1>16, RootNests DEF p
<1> QED
  BY <1>2, <1>10, <1>17 DEF EntryFrameNow, p, y, e

\* How the prologue leaves a running program.
LEMMA Prologue ==
  ASSUME CallsInv, Running
  PROVE  /\ Loaded /\ Safe(m) /\ m \in Machine /\ Safe(Entered.m) /\ Entered.m \in Machine
         /\ Entered.status # "ok" => Entered.m = m /\ EntryFrameNow = entryFrame
         /\ Entered.status = "ok" => /\ EntryFrameNow = (EntryProc.locals > 0)
                                     /\ \E e \in Int : Nested(image, Kept, calls, e, Entered.m, ip)
<1>1. Loaded /\ Safe(m) /\ m \in Machine /\ entryFrame \in BOOLEAN /\ Safe(Entered.m)
  BY InvFacts DEF CallsInv, FramesInv, Others, Safe
<1>2. Entered.m \in Machine
  BY <1>1 DEF Safe
<1> DEFINE shape == Kept
<1>3. KeepsStack(image, shape) /\ calls \in Seq(Outstanding) /\ (Fresh \/ Deep)
  BY DEF CallsInv
<1>4. Fresh => m.reg["ebp"] \in Int
  BY <1>1, Numbers DEF Machine
<1> HIDE DEF shape
<1>5. CASE Fresh
  <2>1. Entered.status # "ok" => Entered.m = m /\ EntryFrameNow = entryFrame
    BY <1>1, <1>3, <1>5, FreshRefused
  <2>2. ASSUME Entered.status = "ok"
        PROVE  /\ EntryFrameNow = (EntryProc.locals > 0)
               /\ \E e \in Int : Nested(image, shape, calls, e, Entered.m, ip)
    <3>1. /\ EntryFrameNow = TRUE /\ EntryProc.locals > 0
          /\ Nested(image, shape, calls, m.reg["ebp"], Entered.m, ip)
      BY <1>1, <1>3, <1>5, <2>2, FreshEntered
    <3>2. EntryFrameNow = (EntryProc.locals > 0)
      BY <3>1
    <3> QED
      BY <1>4, <1>5, <3>1, <3>2
  <2> QED
    BY <1>1, <1>2, <2>1, <2>2 DEF shape
<1>6. CASE Deep
  <2>1. PICK e \in Int : Nested(image, shape, calls, e, m, ip)
    BY <1>6 DEF Deep, shape
  <2>2. Entered.m = m /\ EntryFrameNow = entryFrame
    BY <1>1, <1>3, <2>1, DeepEntered
  <2>3. entryFrame = (EntryProc.locals > 0)
    BY <1>6 DEF Deep
  <2>4. EntryFrameNow = (EntryProc.locals > 0)
    BY <2>2, <2>3
  <2> QED
    BY <1>1, <1>2, <2>1, <2>2, <2>4 DEF shape
<1> QED
  BY <1>3, <1>5, <1>6

\* Where a step leaves nested activations, the invariant is kept.
LEMMA Settles ==
  ASSUME Loaded, KeepsStack(image, Kept), NEW STATE h, h \in Seq(Outstanding),
         NEW e \in Int, NEW STATE y, y \in Machine, NEW STATE j,
         Nested(image, Kept, h, e, y, j),
         image' = image, m' = y, calls' = h, ip' = j, Len(h) = helpers',
         entryFrame' = (EntryProc.locals > 0)
  PROVE  FramesMirrorCalls' /\ Deep'
<1>1. Mirrors(y, h)
  <2> DEFINE shape == Kept
  <2>1. KeepsStack(image, shape) /\ Nested(image, shape, h, e, y, j)
    OBVIOUS
  <2> HIDE DEF shape
  <2> QED
    BY <2>1, NestedMirrors
<1>2. EntryProc' = EntryProc /\ Kept' = Kept
  BY DEF EntryProc, ProcSet, Kept
<1>4. FramesMirrorCalls'
  <2>1. /\ Len(m'.uses) = Cardinality({k \in DOMAIN calls' : calls'[k].callee.uses # <<>>})
        /\ Len(m'.locals) = Cardinality({k \in DOMAIN calls' : calls'[k].callee.locals > 0})
                              + (IF EntryProc.locals > 0 THEN 1 ELSE 0)
        /\ \A k \in DOMAIN calls' :
             m'.mem[calls'[k].was.reg["esp"] - calls'[k].args - 1] = TokenBase + calls'[k].back
    BY <1>1 DEF Mirrors, TokenAt
  <2>2. (IF EntryProc.locals > 0 THEN 1 ELSE 0) = (IF entryFrame' THEN 1 ELSE 0)
    OBVIOUS
  <2>3. Len(calls') = helpers'
    OBVIOUS
  <2>4. Len(m'.locals) = Cardinality({k \in DOMAIN calls' : calls'[k].callee.locals > 0})
                           + (IF entryFrame' THEN 1 ELSE 0)
    BY <2>1, <2>2
  <2> QED
    BY <2>1, <2>3, <2>4 DEF FramesMirrorCalls, CallsWith
<1>3. Nested(image, Kept, calls, e, m, ip)'
  BY <1>2
<1>5. Deep'
  BY <1>2, <1>3 DEF Deep
<1> QED
  BY <1>4, <1>5

-----------------------------------------------------------------------------
(* Every step works on, calls or returns. *)

\* The calls are kept as HNext keeps them.
History == calls' = IF Called THEN Append(calls, Caller)
                    ELSE IF Returned THEN Front(calls) ELSE calls

\* The innermost activation works on, or the run ends; what the callers will use stays.
Working ==
  /\ calls' = calls
  /\ calls # <<>> =>
       /\ \A a \in Edge(image, calls, Len(calls)) .. StackLimit - 1 : m'.mem[a] = m.mem[a]
       /\ Running' => ip' \in Body(Last(calls).callee)
       /\ Running' \/ ~(Completed /\ Instr.op = "ret")

\* A call is made, from below the words of the activations that are open.
Calling ==
  /\ calls' = Append(calls, CallFrom(Entered.m)) /\ Running'
  /\ ip' \in Body(CallFrom(Entered.m).callee) /\ CallMade(Kept, m', CallFrom(Entered.m))
  /\ calls # <<>> => Entered.m.reg["esp"] <= Edge(image, calls, Len(calls))

\* The innermost call returns.
Returning ==
  /\ calls # <<>> /\ calls' = Front(calls) /\ Running' /\ Deep'
  /\ ip' = Last(calls).back /\ Resumes(Entered.m, Last(calls), m')

CallsGoOn ==
  /\ image' = image /\ calls' \in Seq(Outstanding) /\ Len(calls') = helpers'
  /\ FramesMirrorCalls'
  /\ Running' => Fresh' \/ Deep'
  /\ Running => Working \/ Calling \/ Returning

\* While calls are outstanding, the prologue has nothing to do.
LEMMA MachineStands ==
  ASSUME CallsInv, Running, Deep
  PROVE  Entered.m = m
<1> DEFINE shape == Kept
<1>1. /\ Loaded /\ m \in Machine /\ entryFrame \in BOOLEAN /\ calls \in Seq(Outstanding)
      /\ KeepsStack(image, shape)
  BY Prologue DEF CallsInv, FramesInv, Others
<1>2. PICK e \in Int : Nested(image, shape, calls, e, m, ip)
  BY DEF Deep
<1> HIDE DEF shape
<1> QED
  BY <1>1, <1>2, DeepEntered

LEMMA CallsAreDeep ==
  ASSUME CallsInv, Running, calls # <<>>
  PROVE  Deep /\ Entered.m = m
BY MachineStands DEF CallsInv, Fresh

\* Whatever activation is at the current instruction with x goes on at j with y.
Progress(shape, x, y, j) ==
  \A p, b, e, l : RunsHere(shape, x, p, b, e, l) => GoesOn(shape, x, y, p, b, e, l, j)

LEMMA ProgressNests ==
  ASSUME Loaded, NEW STATE shape, KeepsStack(image, shape), NEW STATE h, h \in Seq(Outstanding),
         NEW STATE e, e \in Int, NEW STATE x, x \in Machine, Nested(image, shape, h, e, x, ip),
         NEW STATE y, NEW STATE j, Progress(shape, x, y, j)
  PROVE  /\ Nested(image, shape, h, e, y, j)
         /\ \A a \in Edge(image, h, Len(h)) .. StackLimit - 1 : y.mem[a] = x.mem[a]
         /\ j \in Body(Runs(image, h, Len(h)))
<1>1. Innermost(shape, h, e, x)
  BY NestedTop
<1>2. InnermostGoesOn(shape, h, e, x, y, j)
  BY <1>1 DEF Innermost, InnermostGoesOn, Progress
<1>3. Nested(image, shape, h, e, y, j)
  BY <1>2, WorkNests
<1>4. \A a \in Edge(image, h, Len(h)) .. StackLimit - 1 : y.mem[a] = x.mem[a]
  BY <1>2 DEF InnermostGoesOn, GoesOn, Above, Edge
<1>5. j \in Body(Runs(image, h, Len(h)))
  BY <1>2 DEF InnermostGoesOn, GoesOn, Within
<1> QED
  BY <1>3, <1>4, <1>5

\* A refusal that changes nothing but what the prologue did.
LEMMA RefusalGoesOn ==
  ASSUME CallsInv, Running, History, NEW STATE o, Refuse(o), o.m = Entered.m
  PROVE  CallsGoOn
<1>1. /\ m' = Entered.m /\ image' = image /\ ip' = ip /\ count' = count /\ helpers' = helpers
      /\ halted' = halted /\ entryFrame' = EntryFrameNow /\ ~Running'
  BY DEF Refuse, run, Running
<1>2. count \in Nat /\ calls \in Seq(Outstanding) /\ Len(calls) = helpers /\ FramesMirrorCalls
      /\ KeepsStack(image, Kept)
  BY DEF CallsInv, FramesInv, Others
<1>3. calls' = calls
  BY <1>1, <1>2 DEF History, Called, Returned, Completed
<1>4. FramesMirrorCalls'
  <2>1. CASE Entered.status = "ok"
    <3>1. PICK e \in Int : Nested(image, Kept, calls, e, Entered.m, ip)
      BY <2>1, Prologue
    <3>2. Loaded /\ Entered.m \in Machine /\ EntryFrameNow = (EntryProc.locals > 0)
      BY <2>1, Prologue
    <3> QED
      BY <1>1, <1>2, <1>3, <3>1, <3>2, Settles
  <2>2. CASE Entered.status # "ok"
    <3>1. Entered.m = m /\ EntryFrameNow = entryFrame
      BY <2>2, Prologue
    <3>2. m' = m /\ entryFrame' = entryFrame
      BY <1>1, <3>1
    <3> QED
      BY <1>1, <1>2, <1>3, <3>2 DEF FramesMirrorCalls, CallsWith
  <2> QED
    BY <2>1, <2>2
<1>5. Working
  <2>1. calls # <<>> => m' = m
    BY <1>1, CallsAreDeep
  <2> QED
    BY <1>1, <1>2, <1>3, <2>1 DEF Working, Completed
<1> QED
  BY <1>1, <1>2, <1>3, <1>4, <1>5 DEF CallsGoOn

\* Working on: the calls stay as they are.
LEMMA ProgressGoesOn ==
  ASSUME CallsInv, Running, History, NEW op, Fetch(op), op \notin {"call", "commit", "ret"},
         NEW STATE y, y \in Machine, NEW STATE j, Progress(Kept, Entered.m, y, j),
         NEW taken, NEW halts, Retire(y, j, taken, halts), helpers' = helpers
  PROVE  CallsGoOn
<1>1. /\ m' = y /\ image' = image /\ ip' = j /\ count' = count + 1 /\ entryFrame' = EntryFrameNow
  BY DEF Retire, run
<1>2. calls \in Seq(Outstanding) /\ Len(calls) = helpers /\ KeepsStack(image, Kept)
  BY DEF CallsInv
<1>3. calls' = calls
  BY FetchFacts DEF History, Called, Returned
<1>4. Entered.status = "ok"
  BY FetchedSteps
<1>5. PICK e \in Int : Nested(image, Kept, calls, e, Entered.m, ip)
  BY <1>4, Prologue
<1>6. Loaded /\ Entered.m \in Machine /\ EntryFrameNow = (EntryProc.locals > 0)
  BY <1>4, Prologue
<1>7. /\ Nested(image, Kept, calls, e, y, j)
      /\ \A a \in Edge(image, calls, Len(calls)) .. StackLimit - 1 : y.mem[a] = Entered.m.mem[a]
      /\ j \in Body(Runs(image, calls, Len(calls)))
  BY <1>2, <1>5, <1>6, ProgressNests
<1>8. FramesMirrorCalls' /\ Deep'
  BY <1>1, <1>2, <1>3, <1>6, <1>7, Settles
<1>9. Working
  <2>1. ASSUME calls # <<>> PROVE Entered.m = m /\ Runs(image, calls, Len(calls)) = Last(calls).callee
    <3>1. Len(calls) # 0 /\ Last(calls) = calls[Len(calls)]
      BY <1>2, <2>1 DEF Last
    <3> QED
      BY <2>1, <3>1, CallsAreDeep, AtCall
  <2>2. Instr.op # "ret"
    BY FetchFacts
  <2> QED
    BY <1>1, <1>3, <1>7, <2>1, <2>2 DEF Working
<1> QED
  BY <1>1, <1>2, <1>3, <1>8, <1>9 DEF CallsGoOn

\* An instruction that is refused or works on.
LEMMA PlainGoesOn ==
  ASSUME CallsInv, Running, History, NEW op, Fetch(op), op \notin {"call", "commit", "ret"},
         NEW STATE o, o.m \in Machine, Keeps(o, Entered.m), Plain(o),
         o.status = "ok" => Progress(Kept, Entered.m, o.m, ip + 1)
  PROVE  CallsGoOn
<1>1. CASE Refuse(o)
  <2>1. o.m = Entered.m
    BY <1>1 DEF Refuse, Keeps
  <2> QED
    BY <1>1, <2>1, RefusalGoesOn
<1>2. CASE o.status = "ok" /\ helpers' = helpers /\ Retire(o.m, ip + 1, FALSE, FALSE)
  <2> DEFINE y == o.m
             j == ip + 1
  <2>1. y \in Machine /\ Progress(Kept, Entered.m, y, j) /\ Retire(y, j, FALSE, FALSE)
    BY <1>2
  <2> HIDE DEF y, j
  <2> QED
    BY <1>2, <2>1, ProgressGoesOn
<1> QED
  BY <1>1, <1>2 DEF Plain

\* The instructions that change no machine.
LEMMA QuietProgress ==
  ASSUME NEW STATE shape, NEW STATE x
  PROVE  /\ Instr.op \in {"nop", "capture"} => Progress(shape, x, x, ip + 1)
         /\ Instr.op \in {"jmp", "jcc"} => Progress(shape, x, x, Instr.dst.disp)
         /\ Instr.op = "jcc" => Progress(shape, x, x, ip + 1)
<1>1. ASSUME NEW j, NEW p, NEW b, NEW e, NEW l, RunsHere(shape, x, p, b, e, l),
             Leads(shape, p, j, shape[ip])
      PROVE  GoesOn(shape, x, x, p, b, e, l, j)
  BY <1>1, StaysGoesOn
<1>2. ASSUME NEW p, NEW b, NEW e, NEW l, RunsHere(shape, x, p, b, e, l)
      PROVE  /\ Instr.op \in {"nop", "capture"} => Leads(shape, p, ip + 1, shape[ip])
             /\ Instr.op \in {"jmp", "jcc"} => Leads(shape, p, Instr.dst.disp, shape[ip])
             /\ Instr.op = "jcc" => Leads(shape, p, ip + 1, shape[ip])
  BY <1>2, Asked
<1> QED
  BY <1>1, <1>2 DEF Progress

LEMMA MovProgress ==
  ASSUME NEW STATE shape, NEW STATE x, Instr.op = "mov", MovOutcome(x).status = "ok"
  PROVE  Progress(shape, x, MovOutcome(x).m, ip + 1)
<1>1. /\ WriteFault(Instr.dst, x) = "ok"
      /\ MovOutcome(x).m = Store(Instr.dst, x, Value(Instr.src, x))
  BY DEF MovOutcome, Ok, Err
<1>2. ASSUME NEW p, NEW b, NEW e, NEW l, RunsHere(shape, x, p, b, e, l)
      PROVE  GoesOn(shape, x, MovOutcome(x).m, p, b, e, l, ip + 1)
  <2> DEFINE v == Value(Instr.src, x)
  <2>1. MovOutcome(x).m = Store(Instr.dst, x, v)
    BY <1>1
  <2> HIDE DEF v
  <2>2. Instr.op \in {"mov", "add"}
    OBVIOUS
  <2>3. GoesOn(shape, x, Store(Instr.dst, x, v), p, b, e, l, ip + 1)
    BY <1>1, <1>2, <2>2, MovGoesOn
  <2> QED
    BY <2>1, <2>3
<1> QED
  BY <1>2 DEF Progress

LEMMA AddProgress ==
  ASSUME NEW STATE shape, NEW STATE x, Instr.op = "add", AddOutcome(x).status = "ok"
  PROVE  Progress(shape, x, AddOutcome(x).m, ip + 1)
<1>1. /\ WriteFault(Instr.dst, x) = "ok"
      /\ AddOutcome(x).m = Store(Instr.dst, x, Value(Instr.dst, x) + Value(Instr.src, x))
  BY DEF AddOutcome, Ok, Err
<1>2. ASSUME NEW p, NEW b, NEW e, NEW l, RunsHere(shape, x, p, b, e, l)
      PROVE  GoesOn(shape, x, AddOutcome(x).m, p, b, e, l, ip + 1)
  <2> DEFINE v == Value(Instr.dst, x) + Value(Instr.src, x)
  <2>1. AddOutcome(x).m = Store(Instr.dst, x, v)
    BY <1>1
  <2> HIDE DEF v
  <2>2. Instr.op \in {"mov", "add"}
    OBVIOUS
  <2>3. GoesOn(shape, x, Store(Instr.dst, x, v), p, b, e, l, ip + 1)
    BY <1>1, <1>2, <2>2, MovGoesOn
  <2> QED
    BY <2>1, <2>3
<1> QED
  BY <1>2 DEF Progress

LEMMA StackProgress ==
  ASSUME StackBase - 1 \notin DataWords, NEW STATE shape, NEW STATE x
  PROVE  /\ Instr.op = "push" /\ PushOutcome(x).status = "ok"
              => Progress(shape, x, PushOutcome(x).m, ip + 1)
         /\ Instr.op = "pop" /\ PopOutcome(x).status = "ok"
              => Progress(shape, x, PopOutcome(x).m, ip + 1)
         /\ Instr.op = "leave" => Progress(shape, x, LeaveOutcome(x).m, ip + 1)
<1>1. ASSUME NEW p, NEW b, NEW e, NEW l, RunsHere(shape, x, p, b, e, l)
      PROVE  /\ Instr.op = "push" /\ PushOutcome(x).status = "ok"
                  => GoesOn(shape, x, PushOutcome(x).m, p, b, e, l, ip + 1)
             /\ Instr.op = "pop" /\ PopOutcome(x).status = "ok"
                  => GoesOn(shape, x, PopOutcome(x).m, p, b, e, l, ip + 1)
             /\ Instr.op = "leave" => GoesOn(shape, x, LeaveOutcome(x).m, p, b, e, l, ip + 1)
  <2>1. Instr.op = "push" /\ PushOutcome(x).status = "ok"
          => GoesOn(shape, x, PushOutcome(x).m, p, b, e, l, ip + 1)
    BY <1>1, PushGoesOn
  <2>2. Instr.op = "pop" /\ PopOutcome(x).status = "ok"
          => GoesOn(shape, x, PopOutcome(x).m, p, b, e, l, ip + 1)
    BY <1>1, PopGoesOn
  <2>3. Instr.op = "leave" => GoesOn(shape, x, LeaveOutcome(x).m, p, b, e, l, ip + 1)
    BY <1>1, LeaveGoesOn
  <2> QED
    BY <2>1, <2>2, <2>3
<1> QED
  BY <1>1 DEF Progress

LEMMA PlainCalls ==
  ASSUME StackBase - 1 \notin DataWords, CallsInv, Running, History,
         Nop \/ Mov \/ Add \/ Push \/ Pop \/ Leave
  PROVE  CallsGoOn
<1> DEFINE x == Entered.m
           shape == Kept
<1>1. Loaded /\ Safe(x) /\ x \in Machine
  BY Prologue
<1>2. ASSUME NEW op, Fetch(op) PROVE Instr.op = op /\ ip < Count
  BY <1>2, FetchFacts
<1>3. /\ Keeps(PushOutcome(x), x) /\ Keeps(PopOutcome(x), x) /\ Keeps(MovOutcome(x), x)
      /\ Keeps(AddOutcome(x), x) /\ Keeps(LeaveOutcome(x), x)
  BY HandlersKeep
<1>4. CASE Nop
  <2>1. Fetch("nop") /\ Plain(Ok(x)) /\ Keeps(Ok(x), x) /\ Ok(x).m = x
    BY <1>4 DEF Nop, Keeps, Ok
  <2> DEFINE o == Ok(x)
  <2>2. Progress(shape, x, o.m, ip + 1) /\ o.m \in Machine
    BY <1>1, <1>2, <2>1, QuietProgress
  <2>3. Fetch("nop") /\ Plain(o) /\ Keeps(o, Entered.m)
    BY <2>1
  <2> HIDE DEF o
  <2> QED
    BY <2>2, <2>3, PlainGoesOn
<1>5. CASE Mov
  <2> DEFINE o == MovOutcome(x)
  <2>1. Fetch("mov") /\ Plain(o) /\ Keeps(o, Entered.m)
    BY <1>3, <1>5 DEF Mov
  <2>2. o.m \in Machine
    BY <1>1, <1>2, <2>1, MovOutcomeSafe DEF Safe
  <2>3. o.status = "ok" => Progress(Kept, Entered.m, o.m, ip + 1)
    BY <1>2, <2>1, MovProgress
  <2> HIDE DEF o
  <2> QED
    BY <2>1, <2>2, <2>3, PlainGoesOn
<1>6. CASE Add
  <2> DEFINE o == AddOutcome(x)
  <2>1. Fetch("add") /\ Plain(o) /\ Keeps(o, Entered.m)
    BY <1>3, <1>6 DEF Add
  <2>2. o.m \in Machine
    BY <1>1, <1>2, <2>1, AddOutcomeSafe DEF Safe
  <2>3. o.status = "ok" => Progress(Kept, Entered.m, o.m, ip + 1)
    BY <1>2, <2>1, AddProgress
  <2> HIDE DEF o
  <2> QED
    BY <2>1, <2>2, <2>3, PlainGoesOn
<1>7. CASE Push
  <2> DEFINE o == PushOutcome(x)
  <2>1. Fetch("push") /\ Plain(o) /\ Keeps(o, Entered.m)
    BY <1>3, <1>7 DEF Push
  <2>2. o.m \in Machine
    BY <1>1, <1>2, <2>1, PushOutcomeSafe DEF Safe
  <2>3. o.status = "ok" => Progress(Kept, Entered.m, o.m, ip + 1)
    BY <1>2, <2>1, StackProgress
  <2> HIDE DEF o
  <2> QED
    BY <2>1, <2>2, <2>3, PlainGoesOn
<1>8. CASE Pop
  <2> DEFINE o == PopOutcome(x)
  <2>1. Fetch("pop") /\ Plain(o) /\ Keeps(o, Entered.m)
    BY <1>3, <1>8 DEF Pop
  <2>2. o.m \in Machine
    BY <1>1, <1>2, <2>1, PopOutcomeSafe DEF Safe
  <2>3. o.status = "ok" => Progress(Kept, Entered.m, o.m, ip + 1)
    BY <1>2, <2>1, StackProgress
  <2> HIDE DEF o
  <2> QED
    BY <2>1, <2>2, <2>3, PlainGoesOn
<1>9. CASE Leave
  <2> DEFINE o == LeaveOutcome(x)
  <2>1. Fetch("leave") /\ Plain(o) /\ Keeps(o, Entered.m)
    BY <1>3, <1>9 DEF Leave
  <2>2. o.m \in Machine
    BY <1>1, LeaveOutcomeSafe DEF Safe
  <2>3. o.status = "ok" => Progress(Kept, Entered.m, o.m, ip + 1)
    BY <1>2, <2>1, StackProgress
  <2> HIDE DEF o
  <2> QED
    BY <2>1, <2>2, <2>3, PlainGoesOn
<1> QED
  BY <1>4, <1>5, <1>6, <1>7, <1>8, <1>9

LEMMA CaptureCalls ==
  ASSUME CallsInv, Running, History, InvokeCapture
  PROVE  CallsGoOn
<1> DEFINE x == Entered.m
           i == Instr.dst.disp
           fault == IF i \notin 0 .. ArgumentCapacity - 1 THEN "invalid-argument"
                                                          ELSE ArgumentFault(Instr.src, x)
<1>1. x \in Machine /\ Fetch("capture") /\ Instr.op = "capture"
  BY Prologue, FetchFacts DEF InvokeCapture
<1>2. \/ Refuse(Err(fault, x))
      \/ helpers' = helpers /\ Retire(x, ip + 1, FALSE, FALSE)
  BY DEF InvokeCapture
<1>3. CASE Refuse(Err(fault, x))
  <2> DEFINE o == Err(fault, x)
  <2>1. Refuse(o) /\ o.m = Entered.m
    BY <1>3 DEF Err
  <2> HIDE DEF o
  <2> QED
    BY <2>1, RefusalGoesOn
<1>4. CASE helpers' = helpers /\ Retire(x, ip + 1, FALSE, FALSE)
  <2> DEFINE j == ip + 1
  <2>1. Progress(Kept, Entered.m, x, j) /\ Retire(x, j, FALSE, FALSE)
    BY <1>1, <1>4, QuietProgress
  <2> HIDE DEF j, x
  <2> QED
    BY <1>1, <1>4, <2>1, ProgressGoesOn
<1> QED
  BY <1>2, <1>3, <1>4

LEMMA JumpCalls ==
  ASSUME CallsInv, Running, History, Jmp \/ Jcc
  PROVE  CallsGoOn
<1> DEFINE x == Entered.m
<1>1. x \in Machine
  BY Prologue
<1>2. PICK op \in {"jmp", "jcc"}, taken \in BOOLEAN :
        Fetch(op) /\ Jump(taken) /\ (op = "jmp" => taken)
  BY DEF Jmp, Jcc
<1>3. Instr.op = op
  BY <1>2, FetchFacts
<1> DEFINE j == IF taken THEN Instr.dst.disp ELSE ip + 1
<1>4. \/ Refuse(Err("invalid-branch-target", x))
      \/ helpers' = helpers /\ Retire(x, j, taken, FALSE)
  BY <1>2 DEF Jump
<1>5. CASE Refuse(Err("invalid-branch-target", x))
  <2> DEFINE o == Err("invalid-branch-target", x)
  <2>1. Refuse(o) /\ o.m = Entered.m
    BY <1>5 DEF Err
  <2> HIDE DEF o
  <2> QED
    BY <2>1, RefusalGoesOn
<1>6. CASE helpers' = helpers /\ Retire(x, j, taken, FALSE)
  <2>1. Progress(Kept, Entered.m, x, j)
    BY <1>2, <1>3, QuietProgress
  <2> HIDE DEF j, x
  <2> QED
    BY <1>1, <1>2, <1>6, <2>1, ProgressGoesOn
<1> QED
  BY <1>4, <1>5, <1>6

\* What halts the machine keeps the calls, their tokens and the USES frames.
LEMMA HaltGoesOn ==
  ASSUME CallsInv, Running, History, NEW op \in {"ret", "exit"}, Fetch(op),
         NEW STATE o, Keeps(o, Entered.m), o.m.mem = Entered.m.mem, o.m.uses = Entered.m.uses,
         NEW STATE j, op = "ret" => helpers = 0,
         Refuse(o) \/ (helpers' = helpers /\ Retire(o.m, j, FALSE, TRUE))
  PROVE  CallsGoOn
<1>1. CASE Refuse(o)
  <2>1. o.m = Entered.m
    BY <1>1 DEF Refuse, Keeps
  <2> QED
    BY <1>1, <2>1, RefusalGoesOn
<1>2. CASE helpers' = helpers /\ Retire(o.m, j, FALSE, TRUE)
  <2>1. /\ m' = o.m /\ image' = image /\ halted' = TRUE /\ ~Running'
    BY <1>2 DEF Retire, run, Running
  <2>2. calls \in Seq(Outstanding) /\ Len(calls) = helpers /\ KeepsStack(image, Kept)
    BY DEF CallsInv
  <2>3. calls' = calls
    BY <2>1, FetchFacts DEF History, Called, Returned
  <2>4. Entered.status = "ok"
    BY FetchedSteps
  <2>5. PICK e \in Int : Nested(image, Kept, calls, e, Entered.m, ip)
    BY <2>4, Prologue
  <2>6. Mirrors(Entered.m, calls)
    <3> DEFINE shape == Kept
               y == Entered.m
    <3>1. /\ Loaded /\ y \in Machine /\ KeepsStack(image, shape)
          /\ Nested(image, shape, calls, e, y, ip)
      BY <2>2, <2>5, Prologue
    <3> HIDE DEF shape, y
    <3>2. Mirrors(y, calls)
      BY <2>2, <3>1, NestedMirrors
    <3> QED
      BY <3>2 DEF y
  <2>7. /\ Len(m'.uses) = Cardinality({k \in DOMAIN calls' : calls'[k].callee.uses # <<>>})
        /\ \A k \in DOMAIN calls' :
             m'.mem[calls'[k].was.reg["esp"] - calls'[k].args - 1] = TokenBase + calls'[k].back
    BY <2>1, <2>3, <2>6 DEF Mirrors, TokenAt
  <2>8. FramesMirrorCalls'
    BY <1>2, <2>1, <2>2, <2>3, <2>7 DEF FramesMirrorCalls, CallsWith
  <2>9. Working
    <3>1. calls # <<>> => Entered.m = m /\ Len(calls) # 0
      BY <2>2, CallsAreDeep
    <3>2. calls # <<>> => Instr.op # "ret"
      BY <2>2, <3>1, FetchFacts
    <3> QED
      BY <2>1, <2>3, <3>1, <3>2 DEF Working
  <2> QED
    BY <1>2, <2>1, <2>2, <2>3, <2>8, <2>9 DEF CallsGoOn
<1> QED
  BY <1>1, <1>2

LEMMA ExitCalls ==
  ASSUME CallsInv, Running, History, Exit
  PROVE  CallsGoOn
<1> DEFINE x == Entered.m
           o == ReleaseHere(x)
<1>1. x \in Machine
  BY Prologue
<1>2. Fetch("exit") /\ (Refuse(o) \/ (helpers' = helpers /\ Retire(o.m, ip + 1, FALSE, TRUE)))
  BY DEF Exit
<1>3. Keeps(o, x)
  BY ReleaseKeeps DEF ReleaseHere, Keeps, Ok
<1>4. o.m.mem = x.mem /\ o.m.uses = x.uses
  <2> HIDE DEF x
  <2> QED
    BY <1>1, ReleaseIsQuiet
<1> DEFINE j == ip + 1
<1>5. Refuse(o) \/ (helpers' = helpers /\ Retire(o.m, j, FALSE, TRUE))
  BY <1>2
<1> HIDE DEF o, j
<1> QED
  BY <1>2, <1>3, <1>4, <1>5, HaltGoesOn

LEMMA RootRetCalls ==
  ASSUME CallsInv, Running, History, RootRet
  PROVE  CallsGoOn
<1> DEFINE x == Entered.m
           o == RootRetOutcome(x)
<1>1. x \in Machine
  BY Prologue
<1>2. Fetch("ret") /\ helpers = 0 /\ (Refuse(o) \/ (helpers' = helpers /\ Retire(o.m, ip, FALSE, TRUE)))
  BY DEF RootRet, IsRootRet
<1>3. Keeps(ReleaseHere(x), x)
  BY ReleaseKeeps DEF ReleaseHere, Keeps, Ok
<1>4. Keeps(o, x)
  BY <1>3 DEF RootRetOutcome, Keeps, Err
<1>5. o.m.mem = x.mem /\ o.m.uses = x.uses
  <2>1. ReleaseHere(x).m.mem = x.mem /\ ReleaseHere(x).m.uses = x.uses
    <3> HIDE DEF x
    <3> QED
      BY <1>1, ReleaseIsQuiet
  <2> QED
    BY <2>1 DEF RootRetOutcome, Err
<1> HIDE DEF o
<1> QED
  BY <1>2, <1>4, <1>5, HaltGoesOn

LEMMA EntryRefusedCalls ==
  ASSUME CallsInv, Running, History, EntryRefused
  PROVE  CallsGoOn
<1> DEFINE o == Entered
<1>1. Refuse(o) /\ o.m = Entered.m
  BY DEF EntryRefused
<1> HIDE DEF o
<1> QED
  BY <1>1, RefusalGoesOn

\* Stopping without an instruction.
LEMMA StopCalls ==
  ASSUME CallsInv, History, ~Running',
         UNCHANGED <<image, m, count, helpers, entryFrame>>, halted => halted'
  PROVE  CallsGoOn
<1>1. count \in Nat /\ calls \in Seq(Outstanding) /\ Len(calls) = helpers /\ FramesMirrorCalls
  BY DEF CallsInv, FramesInv, Others
<1>2. calls' = calls
  BY <1>1 DEF History, Called, Returned, Completed
<1>3. FramesMirrorCalls'
  BY <1>1, <1>2 DEF FramesMirrorCalls, CallsWith
<1>4. Working
  BY <1>1, <1>2 DEF Working, Completed
<1> QED
  BY <1>1, <1>2, <1>3, <1>4 DEF CallsGoOn

\* A call that the depth limit allows finds room for its USES frame.
LEMMA RoomForUses ==
  ASSUME CallsInv, Running, Entered.status = "ok", MayCallDeeper
  PROVE  Len(Entered.m.uses) < FrameCapacity
<1> DEFINE Q == {k \in DOMAIN calls : calls[k].callee.uses # <<>>}
           x == Entered.m
           n == Len(calls)
<1>1. PICK e \in Int : Nested(image, Kept, calls, e, x, ip)
  BY Prologue
<1>2. Loaded /\ x \in Machine /\ KeepsStack(image, Kept) /\ calls \in Seq(Outstanding)
  BY Prologue DEF CallsInv
<1>3. Len(x.uses) = Cardinality(Q)
  <2> DEFINE shape == Kept
  <2>1. KeepsStack(image, shape) /\ Nested(image, shape, calls, e, x, ip)
    BY <1>1, <1>2
  <2> HIDE DEF shape, x
  <2> QED
    BY <1>2, <2>1, UsesCount
<1>4. n \in Nat /\ DOMAIN calls = 1 .. n
  BY <1>2
<1>5. Cardinality(Q) <= n /\ Cardinality(Q) \in Nat
  <2>1. Q \subseteq 1 .. n
    BY <1>4
  <2> HIDE DEF Q, n
  <2>2. 1 \in Int /\ n \in Int
    BY <1>4
  <2>3. IsFiniteSet(1 .. n) /\ Cardinality(1 .. n) = IF 1 > n THEN 0 ELSE n - 1 + 1
    BY <2>2, FS_Interval
  <2>4. IsFiniteSet(Q) /\ Cardinality(Q) <= Cardinality(1 .. n)
    BY <2>1, <2>3, FS_Subset
  <2>5. Cardinality(Q) \in Nat
    BY <2>4, FS_CardinalityType
  <2> QED
    BY <1>4, <2>3, <2>4, <2>5
<1>6. n = helpers /\ depth = helpers /\ settings \in Settings
  BY DEF CallsInv, Control, FramesInv, Loaded
<1>7. settings.depthLimit \in 1 .. FrameCapacity
  BY <1>6, InputsAssumption DEF Setting
<1> HIDE DEF Q, x, n
<1>8. n + 1 <= settings.depthLimit
  BY <1>6 DEF MayCallDeeper
<1> QED
  BY <1>3, <1>4, <1>5, <1>7, <1>8, Numbers DEF x

\* A refused call changes nothing but what the prologue did.
LEMMA CallsKeepMachine ==
  ASSUME CallsInv, Running, Entered.status = "ok", ip < Count
  PROVE  Keeps(CallOutcome(Entered.m), Entered.m) /\ Keeps(CommitOutcome(Entered.m), Entered.m)
<1> DEFINE x == Entered.m
<1>1. Safe(x) /\ Loaded
  BY Prologue
<1>2. CASE MayCallDeeper
  <2>1. Len(x.uses) < FrameCapacity
    BY <1>2, RoomForUses
  <2> HIDE DEF x
  <2>2. Keeps(CallOutcome(x), x) /\ Keeps(CommitOutcome(x), x)
    BY <1>1, <2>1, CallKeeps, CommitKeeps
  <2> QED
    BY <2>2 DEF x
<1>3. CASE ~MayCallDeeper
  BY <1>3 DEF Keeps, CallOutcome, CommitOutcome, Err
<1> QED
  BY <1>2, <1>3

\* The top of nested activations, with the machine that the prologue leaves.
LEMMA EnteredTop ==
  ASSUME CallsInv, Running, Entered.status = "ok", NEW e \in Int,
         Nested(image, Kept, calls, e, Entered.m, ip)
  PROVE  /\ Innermost(Kept, calls, e, Entered.m) /\ UsesNamed(image, Entered.m)
         /\ Len(calls) > 0 => RunsCall(Kept, Entered.m, calls[Len(calls)])
<1> DEFINE shape == Kept
           x == Entered.m
<1>1. /\ Loaded /\ KeepsStack(image, shape) /\ calls \in Seq(Outstanding) /\ x \in Machine
      /\ Nested(image, shape, calls, e, x, ip)
  BY Prologue DEF CallsInv
<1> HIDE DEF shape, x
<1>2. /\ Innermost(shape, calls, e, x) /\ UsesNamed(image, x)
      /\ Len(calls) > 0 => RunsCall(shape, x, calls[Len(calls)])
  BY <1>1, NestedTop
<1> QED
  BY <1>2 DEF shape, x

\* A call that is made opens an activation.
LEMMA MadeGoesOn ==
  ASSUME CallsInv, Running, History, NEW op \in {"call", "commit"}, Fetch(op),
         NEW STATE y, y \in Machine, EnterProcedure(y), CallMade(Kept, y, CallFrom(Entered.m))
  PROVE  CallsGoOn
<1> DEFINE x == Entered.m
           c == CallFrom(x)
           h == Append(calls, c)
           shape == Kept
           j == Instr.dst.disp
<1>1. Entered.status = "ok" /\ Instr.op = op
  BY FetchedSteps, FetchFacts
<1>2. PICK e \in Int : Nested(image, Kept, calls, e, Entered.m, ip)
  BY <1>1, Prologue
<1>3. /\ Loaded /\ KeepsStack(image, shape) /\ calls \in Seq(Outstanding) /\ x \in Machine
      /\ Len(calls) = helpers /\ EntryFrameNow = (EntryProc.locals > 0)
      /\ Nested(image, shape, calls, e, x, ip)
  BY <1>1, <1>2, Prologue DEF CallsInv
<1>4. Innermost(shape, calls, e, x)
  BY <1>1, <1>2, EnteredTop
<1>5. /\ c \in Outstanding /\ c.back = ip + 1 /\ c.was = x /\ c.callee.start = j
      /\ Leads(shape, Runs(image, calls, Len(calls)), ip + 1, shape[ip])
      /\ Owner(ip) = {Runs(image, calls, Len(calls))}
      /\ x.reg["esp"] <= Edge(image, calls, Len(calls))
  <2> DEFINE n == Len(calls)
             p == Runs(image, calls, n)
             b == Floor(calls, n)
             d == FoundEbp(calls, n, e)
             l == FoundLocals(calls, n)
  <2>1. RunsHere(shape, x, p, b, d, l)
    BY <1>4 DEF Innermost
  <2> HIDE DEF p, b, d, l, n, x, shape
  <2>2. /\ c \in Outstanding /\ c.back = ip + 1 /\ c.was = x /\ c.callee.start = j
        /\ Leads(shape, p, ip + 1, shape[ip])
    BY <1>1, <2>1, CallAsks
  <2>3. /\ Owner(ip) = {p} /\ (p.locals > 0 => shape[ip].framed) /\ p.locals \in Nat
        /\ b \in Int /\ x.reg["esp"] \in Int /\ x.reg["esp"] <= b
        /\ (shape[ip].framed => x.reg["esp"] <= b - 1 - p.locals)
    BY <1>1, <2>1, HereFacts, HereWithin
  <2>4. x.reg["esp"] <= IF p.locals > 0 THEN b - 1 ELSE b
    BY <2>3
  <2> QED
    BY <2>2, <2>3, <2>4 DEF p, b, n, Edge
<1>6. /\ m' = y /\ image' = image /\ ip' = j /\ count' = count + 1 /\ entryFrame' = EntryFrameNow
      /\ helpers' = helpers + 1
  BY DEF EnterProcedure, Retire, run
<1>7. calls' = h
  BY <1>1, <1>6 DEF History, Called, Completed, Caller, CallFrom
<1>8. h \in Seq(Outstanding) /\ Len(h) = Len(calls) + 1
  <2> HIDE DEF c
  <2> QED
    BY <1>3, <1>5
<1>9. Nested(image, shape, h, e, y, j)
  <2>1. CallMade(shape, y, c) /\ Instr.op # "ret"
    BY <1>1
  <2> HIDE DEF x, c, shape, j
  <2>2. Nested(image, shape, Append(calls, c), e, y, c.callee.start)
    BY <1>3, <1>5, <2>1, CallNests
  <2> QED
    BY <1>5, <2>2
<1> HIDE DEF h, j
<1>10. Len(h) = helpers'
  BY <1>3, <1>6, <1>8
<1>11. FramesMirrorCalls' /\ Deep'
  BY <1>3, <1>6, <1>7, <1>8, <1>9, <1>10, Settles
<1>12. Running'
  <2>1. Retire(y, j, FALSE, FALSE)
    BY DEF EnterProcedure, j
  <2>2. helpers' # 0
    BY <1>3, <1>6, <1>8
  <2>3. \A b : ~ShouldStopAtEntryEnd(j, b, helpers')
    BY <2>2 DEF ShouldStopAtEntryEnd
  <2> DEFINE p == Runs(image, calls, Len(calls))
  <2>4. ~FallsThrough(j, FALSE, helpers')
    <3>1. SUFFICES ASSUME FallsThrough(j, FALSE, helpers') PROVE FALSE
      OBVIOUS
    <3>2. Owner(ip) = {p} /\ ip + 1 \in Body(p)
      BY <1>5 DEF Leads
    <3>3. p \in Procedure
      BY <1>3, <3>2, OwnersTyped
    <3> HIDE DEF p
    <3>4. j = ip + 1 /\ j = p.end
      BY <3>1, <3>2 DEF FallsThrough, Straight
    <3>5. ip \in Nat /\ p.end \in Nat /\ p.start \in Nat
      BY <1>3, <3>3 DEF Loaded, Procedure
    <3>6. ip + 1 < p.end
      BY <3>2, <3>5 DEF Body
    <3> QED
      BY <3>4, <3>5, <3>6
  <2> QED
    BY <2>1, <2>3, <2>4 DEF Retire, Running
<1>13. Calling
  <2>1. c.callee.start \in Body(c.callee)
    BY DEF CallMade, Within
  <2>2. ip' \in Body(c.callee)
    BY <1>5, <1>6, <2>1
  <2> QED
    BY <1>5, <1>6, <1>7, <1>12, <2>2 DEF Calling, h
<1> QED
  BY <1>6, <1>7, <1>8, <1>10, <1>11, <1>13 DEF CallsGoOn

LEMMA CallStepCalls ==
  ASSUME StackBase - 1 \notin DataWords, CallsInv, Running, History, Call \/ InvokeCommit
  PROVE  CallsGoOn
<1> DEFINE x == Entered.m
           shape == Kept
<1>1. /\ Safe(x) /\ Loaded
      /\ Keeps(CallOutcome(x), x) /\ Keeps(CommitOutcome(x), x)
      /\ Entered.status = "ok"
  BY Prologue, CallsKeepMachine, FetchedSteps, FetchFacts DEF Call, InvokeCommit
<1>2. PICK e \in Int : Nested(image, Kept, calls, e, Entered.m, ip)
  BY <1>1, Prologue
<1> DEFINE n == Len(calls)
           p == Runs(image, calls, n)
           b == Floor(calls, n)
           d == FoundEbp(calls, n, e)
           l == FoundLocals(calls, n)
<1>3. RunsHere(shape, x, p, b, d, l) /\ UsesNamed(image, x)
  BY <1>1, <1>2, EnteredTop DEF Innermost
<1> HIDE DEF p, b, d, l, n
<1>4. CASE Call
  <2> DEFINE o == CallOutcome(x)
  <2>1. Fetch("call") /\ Keeps(o, Entered.m) /\ (Refuse(o) \/ (o.status = "ok" /\ EnterProcedure(o.m)))
    BY <1>1, <1>4 DEF Call
  <2>2. o.m \in Machine
    BY <1>1, <2>1, FetchFacts, CallOutcomeSafe DEF Safe
  <2>3. ASSUME o.status = "ok" PROVE CallMade(shape, o.m, CallFrom(x))
    <3>1. Instr.op = "call"
      BY <2>1, FetchFacts
    <3>2. CallOutcome(x).status = "ok"
      BY <2>3
    <3> HIDE DEF x, shape, o
    <3>3. CallMade(shape, CallOutcome(x).m, CallFrom(x))
      BY <1>1, <1>3, <3>1, <3>2, CallCalls
    <3> QED
      BY <3>3 DEF o
  <2> HIDE DEF o
  <2>4. CASE Refuse(o)
    BY <2>1, <2>4, RefusalGoesOn DEF Refuse, Keeps
  <2>5. CASE o.status = "ok" /\ EnterProcedure(o.m)
    <3> DEFINE y == o.m
    <3>1. y \in Machine /\ EnterProcedure(y) /\ CallMade(Kept, y, CallFrom(Entered.m))
      BY <2>2, <2>3, <2>5
    <3> HIDE DEF y
    <3> QED
      BY <2>1, <3>1, MadeGoesOn
  <2> QED
    BY <2>1, <2>4, <2>5
<1>5. CASE InvokeCommit
  <2> DEFINE o == CommitOutcome(x)
  <2>1. /\ Fetch("commit") /\ Keeps(o, Entered.m)
        /\ Refuse(o) \/ (o.status = "ok" /\ EnterProcedure(o.m))
    BY <1>1, <1>5 DEF InvokeCommit
  <2>2. o.m \in Machine
    BY <1>1, <2>1, FetchFacts, CommitOutcomeSafe DEF Safe
  <2>3. ASSUME o.status = "ok" PROVE CallMade(shape, o.m, CallFrom(x))
    <3>1. Instr.op = "commit"
      BY <2>1, FetchFacts
    <3>2. CommitOutcome(x).status = "ok"
      BY <2>3
    <3> HIDE DEF x, shape, o
    <3>3. CallMade(shape, CommitOutcome(x).m, CallFrom(x))
      BY <1>1, <1>3, <3>1, <3>2, CommitCalls
    <3> QED
      BY <3>3 DEF o
  <2> HIDE DEF o
  <2>4. CASE Refuse(o)
    BY <2>1, <2>4, RefusalGoesOn DEF Refuse, Keeps
  <2>5. CASE o.status = "ok" /\ EnterProcedure(o.m)
    <3> DEFINE y == o.m
    <3>1. y \in Machine /\ EnterProcedure(y) /\ CallMade(Kept, y, CallFrom(Entered.m))
      BY <2>2, <2>3, <2>5
    <3> HIDE DEF y
    <3> QED
      BY <2>1, <3>1, MadeGoesOn
  <2> QED
    BY <2>1, <2>4, <2>5
<1> QED
  BY <1>4, <1>5

\* A RET that is no root RET returns from the innermost call.
LEMMA HelperIsCalled ==
  ASSUME CallsInv, Running, Fetch("ret"), ~IsRootRet, NEW e \in Int,
         Nested(image, Kept, calls, e, Entered.m, ip)
  PROVE  /\ calls # <<>> /\ Len(calls) \in Nat /\ Len(calls) > 0 /\ helpers > 0
         /\ Last(calls) = calls[Len(calls)] /\ Last(calls) \in Outstanding
         /\ RunsCall(Kept, Entered.m, Last(calls))
<1> DEFINE shape == Kept
           x == Entered.m
           n == Len(calls)
<1>1. /\ Loaded /\ calls \in Seq(Outstanding) /\ n = helpers /\ n \in Nat
      /\ Entered.status = "ok"
  BY Prologue, FetchedSteps DEF CallsInv
<1>2. Innermost(shape, calls, e, x) /\ (n > 0 => RunsCall(shape, x, calls[n]))
  BY <1>1, EnteredTop
<1>3. n # 0
  <2>1. SUFFICES ASSUME n = 0 PROVE FALSE
    OBVIOUS
  <2>2. Runs(image, calls, n) = EntryProc
    BY <1>1, <2>1, EntryIs DEF Runs
  <2> DEFINE p == EntryProc
             b == Floor(calls, n)
             d == FoundEbp(calls, n, e)
             l == FoundLocals(calls, n)
  <2>3. RunsHere(shape, x, p, b, d, l)
    BY <1>2, <2>2 DEF Innermost
  <2> HIDE DEF p, b, d, l, n, x, shape
  <2>4. ip \in Body(p) /\ p \in Procedure /\ ip \in Nat
    BY <2>3, HereFacts
  <2>5. Inside(p, ip)
    BY <2>4 DEF Body, Inside, Procedure
  <2>6. helpers = 0
    BY <1>1, <2>1
  <2> QED
    BY <2>5, <2>6 DEF IsRootRet, InEntry, p
<1> HIDE DEF x, shape
<1>4. calls # <<>> /\ Last(calls) = calls[n] /\ calls[n] \in Outstanding /\ n > 0
  BY <1>1, <1>3 DEF Last
<1> QED
  BY <1>1, <1>2, <1>4 DEF x, shape

\* Where the innermost call goes back to.
LEMMA BackInCaller ==
  ASSUME Loaded, NEW STATE shape, KeepsStack(image, shape), NEW STATE h, h \in Seq(Outstanding),
         NEW STATE e, e \in Int, NEW STATE x, x \in Machine, NEW STATE i,
         Nested(image, shape, h, e, x, i), h # <<>>
  PROVE  /\ Last(h).back \in 0 .. Count - 1
         /\ Len(h) = 1 => Last(h).back < EntryProc.end
<1> DEFINE n == Len(h)
           k == n - 1
           y == Machines(h, x, k)
           j == Places(h, i, k)
           p == Runs(image, h, k)
<1>1. n \in Nat /\ n > 0 /\ Last(h) = h[n] /\ k \in 0 .. n /\ n \in 1 .. n
  BY DEF Last
<1>2. j = h[n].back
  <2> DEFINE q == n
  <2>1. q \in 1 .. Len(h)
    BY <1>1
  <2> HIDE DEF q
  <2>2. MadeBelow(h, x, i, q)
    BY <2>1, CallerAbove
  <2> QED
    BY <2>2 DEF MadeBelow, q
<1>3. p \in ProcsOf(image) /\ p \in Procedure /\ j \in Body(p)
  <2>1. LevelTyped(shape, h, k, e, y, j)
    BY <1>1, LevelsTyped
  <2> HIDE DEF y, j, k
  <2> QED
    BY <2>1 DEF LevelTyped, Within
<1> HIDE DEF y, j, p
<1>4. p.start \in Nat /\ p.end \in Nat /\ p.end <= Len(image.code) /\ Len(image.code) \in Nat
  <2>1. image \in Image
    BY DEF Loaded
  <2> QED
    BY <1>3, <2>1, ProcsApart
<1>5. j \in Int /\ p.start <= j /\ j < p.end
  BY <1>3, <1>4 DEF Body
<1>6. j \in 0 .. Count - 1
  BY <1>4, <1>5 DEF Count
<1>7. n = 1 => p = EntryProc
  BY EntryIs DEF p, Runs
<1> QED
  BY <1>1, <1>2, <1>5, <1>6, <1>7

LEMMA HelperRetCalls ==
  ASSUME CallsInv, Running, History, HelperRet
  PROVE  CallsGoOn
<1> DEFINE x == Entered.m
           shape == Kept
           o == HelperRetOutcome(x)
           c == Last(calls)
           h == Front(calls)
           j == c.back
<1>1. /\ Fetch("ret") /\ ~IsRootRet /\ Instr.op = "ret" /\ Entered.status = "ok"
      /\ Refuse(o) \/ (/\ o.status = "ok" /\ helpers' = Dec(helpers)
                       /\ Retire(o.m, ReturnIndex(x), FALSE, FALSE))
  BY FetchFacts, FetchedSteps DEF HelperRet
<1>2. PICK e \in Int : Nested(image, Kept, calls, e, Entered.m, ip)
  BY <1>1, Prologue
<1>3. /\ Loaded /\ KeepsStack(image, shape) /\ calls \in Seq(Outstanding) /\ x \in Machine
      /\ Len(calls) = helpers /\ EntryFrameNow = (EntryProc.locals > 0) /\ Safe(x)
      /\ Nested(image, shape, calls, e, x, ip) /\ count \in Nat
  BY <1>1, <1>2, Prologue DEF CallsInv, FramesInv, Others
<1>4. /\ calls # <<>> /\ Len(calls) \in Nat /\ Len(calls) > 0 /\ helpers > 0
      /\ c \in Outstanding /\ RunsCall(shape, x, c)
  BY <1>1, <1>2, HelperIsCalled
<1>5. j \in 0 .. Count - 1 /\ (Len(calls) = 1 => j < EntryProc.end)
  <2> HIDE DEF x, shape
  <2> QED
    BY <1>3, <1>4, BackInCaller
<1>6. o.status = "ok" /\ ReturnIndex(x) = j /\ Resumes(x, c, o.m)
  <2>1. c.back \in 0 .. Count - 1
    BY <1>5
  <2> HIDE DEF x, shape, c
  <2> QED
    BY <1>1, <1>3, <1>4, <2>1, RetResumes
<1>7. o.m \in Machine
  <2>1. ip < Count
    BY <1>1, FetchFacts
  <2> QED
    BY <1>3, <2>1, HelperRetOutcomeSafe DEF Safe
<1>8. helpers' = Dec(helpers) /\ Retire(o.m, j, FALSE, FALSE)
  BY <1>1, <1>6 DEF Refuse
<1>9. Nested(image, shape, h, e, o.m, j)
  <2> DEFINE y == o.m
  <2>1. Resumes(x, Last(calls), y)
    BY <1>6
  <2> HIDE DEF x, shape, y
  <2>2. Nested(image, shape, Front(calls), e, y, Last(calls).back)
    BY <1>3, <1>4, <2>1, ReturnNests
  <2> QED
    BY <2>2 DEF y
<1>10. h \in Seq(Outstanding) /\ Len(h) = Len(calls) - 1
  BY <1>3, <1>4, FrontOf
<1> HIDE DEF o, x, shape, c, h, j
<1>11. helpers' = helpers - 1
  BY <1>3, <1>4, <1>8 DEF Dec
<1>12. /\ m' = o.m /\ image' = image /\ ip' = j /\ count' = count + 1
       /\ entryFrame' = EntryFrameNow
  BY <1>8 DEF Retire, run
<1>13. ~halted' /\ Running'
  <2>1. ~Straight(j, FALSE)
    BY <1>1 DEF Straight
  <2>2. ~FallsThrough(j, FALSE, helpers')
    BY <2>1 DEF FallsThrough
  <2>3. EntryProc.end \in Nat
    BY <1>3, EntryTyped
  <2>4. helpers' = 0 => j # EntryProc.end
    BY <1>3, <1>4, <1>5, <1>11, <2>3
  <2>5. \A b : ~ShouldStopAtEntryEnd(j, b, helpers')
    BY <2>4 DEF ShouldStopAtEntryEnd
  <2> QED
    BY <1>8, <2>2, <2>5 DEF Retire, Running
<1>14. calls' = h
  BY <1>1, <1>12, <1>13 DEF History, Called, Returned, Completed, h
<1>15. Len(h) = helpers'
  BY <1>3, <1>10, <1>11
<1>16. KeepsStack(image, Kept) /\ Nested(image, Kept, h, e, o.m, j)
  BY <1>3, <1>9 DEF shape
<1> DEFINE z == o.m
<1>17. m' = z /\ z \in Machine /\ Nested(image, Kept, h, e, z, j)
  BY <1>7, <1>12, <1>16
<1> HIDE DEF z
<1>18. FramesMirrorCalls' /\ Deep'
  BY <1>3, <1>10, <1>12, <1>14, <1>15, <1>16, <1>17, Settles
<1>19. Returning
  BY <1>4, <1>6, <1>12, <1>13, <1>14, <1>18 DEF Returning, h, j, c, x
<1> QED
  BY <1>10, <1>12, <1>14, <1>15, <1>18, <1>19 DEF CallsGoOn

\* Every step goes on with nested activations.
LEMMA StepsGoOn ==
  ASSUME StackBase - 1 \notin DataWords, CallsInv, Next, History
  PROVE  CallsGoOn
<1>1. ASSUME NEW op, Fetch(op) PROVE Running
  BY <1>1 DEF Fetch, MayFetch, MayStep
<1>2. CASE Nop \/ Mov \/ Add \/ Push \/ Pop \/ Leave
  <2>1. Running
    BY <1>1, <1>2 DEF Nop, Mov, Add, Push, Pop, Leave
  <2> QED
    BY <1>2, <2>1, PlainCalls
<1>3. CASE Call \/ InvokeCommit
  <2>1. Running
    BY <1>1, <1>3 DEF Call, InvokeCommit
  <2> QED
    BY <1>3, <2>1, CallStepCalls
<1>4. CASE InvokeCapture
  BY <1>1, <1>4, CaptureCalls DEF InvokeCapture
<1>5. CASE RootRet
  BY <1>1, <1>5, RootRetCalls DEF RootRet
<1>6. CASE HelperRet
  BY <1>1, <1>6, HelperRetCalls DEF HelperRet
<1>7. CASE Jmp \/ Jcc
  <2>1. Running
    BY <1>1, <1>7 DEF Jmp, Jcc
  <2> QED
    BY <1>7, <2>1, JumpCalls
<1>8. CASE Exit
  BY <1>1, <1>8, ExitCalls DEF Exit
<1>9. CASE EntryRefused
  BY <1>9, EntryRefusedCalls DEF EntryRefused, MayFetch, MayStep
<1>10. CASE StopAtEntryEnd \/ CodeFellOffEnd \/ LimitExceeded \/ Finished
  <2>1. ~Running' /\ UNCHANGED <<image, m, count, helpers, entryFrame>> /\ (halted => halted')
    BY <1>10 DEF StopAtEntryEnd, CodeFellOffEnd, LimitExceeded, Finished, run, vars, Running
  <2> QED
    BY <2>1, StopCalls
<1> QED
  BY <1>2, <1>3, <1>4, <1>5, <1>6, <1>7, <1>8, <1>9, <1>10 DEF Next, Step

LEMMA StepCalls ==
  ASSUME StackBase - 1 \notin DataWords, CallsInv, [HNext]_hvars
  PROVE  CallsInv'
<1>1. CASE HNext
  <2>1. Next /\ History
    BY <1>1 DEF HNext, History
  <2>2. CallsGoOn
    BY <2>1, StepsGoOn
  <2>3. FramesInv' /\ Control'
    BY <2>1, StepInv, StepControl DEF CallsInv
  <2>4. KeepsStack(image, Kept)'
    BY <2>2 DEF CallsInv, CallsGoOn, Kept
  <2> QED
    BY <2>2, <2>3, <2>4 DEF CallsInv, CallsGoOn
<1>2. CASE UNCHANGED hvars
  <2>1. /\ UNCHANGED vars
        /\ UNCHANGED <<image, m, ip, halted, helpers, entryFrame, status, calls>>
    BY <1>2 DEF hvars, vars
  <2>2. FramesInv' /\ Control'
    BY <2>1, StepInv, StepControl DEF CallsInv
  <2>3. EntryProc' = EntryProc /\ Kept' = Kept
    BY <2>1 DEF EntryProc, ProcSet, Kept
  <2>4. KeepsStack(image, Kept)'
    BY <2>1, <2>3 DEF CallsInv
  <2>5. (Running' => Running) /\ (Fresh => Fresh') /\ (Deep => Deep')
    BY <2>1, <2>3 DEF Running, Fresh, Deep
  <2>6. FramesMirrorCalls'
    BY <2>1 DEF CallsInv, FramesMirrorCalls, CallsWith
  <2> QED
    BY <2>1, <2>2, <2>4, <2>5, <2>6 DEF CallsInv
<1> QED
  BY <1>1, <1>2

LEMMA InitCalls ==
  ASSUME \A g \in Images : \E s : KeepsStack(g, s), HInit
  PROVE  CallsInv
<1>1. FramesInv /\ Control /\ calls = <<>> /\ image \in Images
  BY InitInv, InitControl DEF HInit, Init
<1>2. Loaded /\ m \in Machine
  BY <1>1 DEF FramesInv, Safe
<1>3. KeepsStack(image, Kept)
  BY <1>1 DEF Kept
<1>4. calls \in Seq(Outstanding) /\ Len(calls) = 0 /\ helpers = 0 /\ DOMAIN calls = {}
      /\ entryFrame = FALSE /\ ip = EntryProc.start
  BY <1>1 DEF HInit, Init
<1>5. /\ m.reg \in [Registers -> Int] /\ m.reg["esp"] = StackLimit /\ m.uses = <<>> /\ m.locals = <<>>
      /\ m.descriptors = 0
  BY InputsAssumption DEF HInit, Init
<1>6. FramesMirrorCalls
  <2>1. {k \in DOMAIN calls : calls[k].callee.uses # <<>>} = {}
        /\ {k \in DOMAIN calls : calls[k].callee.locals > 0} = {}
    BY <1>4
  <2>2. Cardinality({}) = 0 /\ Len(m.uses) = 0 /\ Len(m.locals) = 0
    BY <1>5, FS_EmptySet
  <2> QED
    BY <1>4, <2>1, <2>2 DEF FramesMirrorCalls, CallsWith
<1>7. /\ EntryProc.start \in Body(EntryProc) \cap DOMAIN Kept
      /\ Kept[EntryProc.start] = Resting(EntryProc) /\ EntryProc.locals \in Nat
  <2> DEFINE shape == Kept
  <2>1. KeepsStack(image, shape)
    BY <1>3
  <2> HIDE DEF shape
  <2>2. /\ EntryProc.start \in Body(EntryProc) \cap DOMAIN shape
        /\ shape[EntryProc.start] = Resting(EntryProc) /\ EntryProc.locals \in Nat
    BY <1>2, <2>1, EntryLeads
  <2> QED
    BY <2>2 DEF shape
<1>8. CASE EntryProc.locals > 0
  BY <1>1, <1>3, <1>4, <1>5, <1>6, <1>8 DEF CallsInv, Fresh
<1>9. CASE EntryProc.locals = 0
  <2> DEFINE e == m.reg["ebp"]
             shape == Kept
             p == EntryProc
  <2>1. shape[ip] = [up |-> 0, framed |-> FALSE]
    <3>1. (p.locals > 0) = FALSE
      BY <1>9
    <3> QED
      BY <1>4, <1>7, <3>1 DEF Resting
  <2>2. e \in Int /\ StackBase <= StackLimit /\ StackLimit \in Int
    BY <1>5, Numbers, ConstantsAssumption
  <2>3. Within(shape, m, ip, p, StackLimit, e, <<>>)
    <3>1. shape[ip].up = 0 /\ shape[ip].framed = FALSE /\ ip \in Body(p) \cap DOMAIN shape
      BY <1>4, <1>7, <2>1
    <3>2. p.locals = 0
      BY <1>9
    <3>3. m.reg["ebp"] = e
      OBVIOUS
    <3> HIDE DEF shape, p, e
    <3> QED
      BY <1>5, <2>2, <3>1, <3>2, <3>3 DEF Within
  <2>4. Nested(image, shape, <<>>, e, m, ip)
    <3> HIDE DEF shape, e
    <3> QED
      BY <1>2, <1>5, <2>3, RootNests DEF p
  <2>5. entryFrame = (EntryProc.locals > 0)
    <3>1. (EntryProc.locals > 0) = FALSE
      BY <1>9
    <3> QED
      BY <1>4, <3>1
  <2>6. Deep
    BY <1>1, <2>2, <2>4, <2>5 DEF Deep
  <2> QED
    BY <1>1, <1>3, <1>4, <1>6, <2>6 DEF CallsInv
<1> QED
  BY <1>7, <1>8, <1>9

\* For programs whose procedures keep their own stack, the runtime frame stacks mirror the
\* outstanding calls, and each return token stays where its CALL or INVOKE wrote it.
THEOREM CallsMirrored ==
  ASSUME StackBase - 1 \notin DataWords, \A g \in Images : \E s : KeepsStack(g, s)
  PROVE  HSpec => []FramesMirrorCalls
<1>1. HInit => CallsInv
  BY InitCalls
<1>2. CallsInv /\ [HNext]_hvars => CallsInv'
  BY StepCalls
<1>3. CallsInv => FramesMirrorCalls
  BY DEF CallsInv
<1> QED
  BY <1>1, <1>2, <1>3, PTL DEF HSpec

-----------------------------------------------------------------------------
(* The activations that the simulated memory holds. *)

\* The activation of call c as the words w of memory tell it.
ActivationIn(w, c) ==
  LET p == c.callee
      frame == IF p.locals > 0 THEN {"ebp"} ELSE {}
  IN  [resume    |-> w[TokenAt(c)] - TokenBase,
       body      |-> p.start .. p.end - 1,
       callers   |-> c.was.reg["esp"] .. StackLimit - 1,
       registers |-> [r \in {"esp"} \cup ToSet(p.uses) \cup frame |->
                        CASE r = "esp" -> c.was.reg["esp"]
                          [] r = "ebp" -> w[TokenAt(c) - Len(p.uses) - 1]
                          [] OTHER     -> w[SavedAt(c, r)]]]

ActivationsIn(w, h) == [k \in DOMAIN h |-> ActivationIn(w, h[k])]

\* The lowest word of call c.
Lowest(c) == IF c.callee.locals > 0 THEN Bottom(c) - 1 ELSE Bottom(c)

\* Words v are words w where the activation of c looks.
SameCells(w, v, c) == \A a \in Lowest(c) .. TokenAt(c) : w[a] = v[a]

\* The registers of a call, and where it saved those of its USES list.
LEMMA SavedCells ==
  ASSUME NEW c \in Outstanding
  PROVE  /\ "esp" \notin ToSet(c.callee.uses) /\ "ebp" \notin ToSet(c.callee.uses)
         /\ TokenAt(c) \in Lowest(c) .. TokenAt(c)
         /\ \A r \in ToSet(c.callee.uses) : SavedAt(c, r) \in Lowest(c) .. TokenAt(c)
         /\ c.callee.locals > 0 => TokenAt(c) - Len(c.callee.uses) - 1 \in Lowest(c) .. TokenAt(c)
<1> DEFINE u == c.callee.uses
<1>1. /\ u \in Seq(General) /\ Len(u) \in Nat /\ DOMAIN u = 1 .. Len(u)
      /\ TokenAt(c) \in Int /\ Bottom(c) = TokenAt(c) - Len(u) /\ Bottom(c) \in Int
  BY CallTyped
<1> HIDE DEF u
<1>2. ToSet(u) \subseteq General
  BY <1>1 DEF ToSet
<1>3. "esp" \notin ToSet(u) /\ "ebp" \notin ToSet(u)
  BY <1>2, ConstantsAssumption
<1>4. Lowest(c) \in Int /\ Lowest(c) <= Bottom(c) /\ (c.callee.locals > 0 => Lowest(c) = Bottom(c) - 1)
  BY <1>1 DEF Lowest
<1>5. ASSUME NEW r \in ToSet(u) PROVE SavedAt(c, r) \in Lowest(c) .. TokenAt(c)
  <2> DEFINE k == CHOOSE k \in DOMAIN u : u[k] = r
  <2>1. k \in DOMAIN u
    BY <1>5 DEF ToSet
  <2>2. SavedAt(c, r) = TokenAt(c) - k
    BY DEF SavedAt, u
  <2> HIDE DEF k
  <2> QED
    BY <1>1, <1>4, <2>1, <2>2
<1>6. TokenAt(c) \in Lowest(c) .. TokenAt(c)
  BY <1>1, <1>4
<1>7. c.callee.locals > 0 => TokenAt(c) - Len(u) - 1 \in Lowest(c) .. TokenAt(c)
  BY <1>1, <1>4
<1> QED
  BY <1>3, <1>5, <1>6, <1>7 DEF u

LEMMA SameActivation ==
  \A c \in Outstanding : \A w, v : SameCells(w, v, c) => ActivationIn(w, c) = ActivationIn(v, c)
<1> SUFFICES ASSUME NEW c \in Outstanding, NEW w, NEW v, SameCells(w, v, c)
             PROVE  ActivationIn(w, c) = ActivationIn(v, c)
  OBVIOUS
<1> DEFINE p == c.callee
           S == {"esp"} \cup ToSet(p.uses) \cup (IF p.locals > 0 THEN {"ebp"} ELSE {})
           F(z, r) == CASE r = "esp" -> c.was.reg["esp"]
                        [] r = "ebp" -> z[TokenAt(c) - Len(p.uses) - 1]
                        [] OTHER     -> z[SavedAt(c, r)]
<1>1. /\ "esp" \notin ToSet(p.uses) /\ "ebp" \notin ToSet(p.uses)
      /\ w[TokenAt(c)] = v[TokenAt(c)]
      /\ \A r \in ToSet(p.uses) : w[SavedAt(c, r)] = v[SavedAt(c, r)]
      /\ p.locals > 0 => w[TokenAt(c) - Len(p.uses) - 1] = v[TokenAt(c) - Len(p.uses) - 1]
  BY SavedCells DEF SameCells
<1>2. \A r \in S : F(w, r) = F(v, r)
  <2> SUFFICES ASSUME NEW r \in S PROVE F(w, r) = F(v, r)
    OBVIOUS
  <2>1. CASE r = "esp"
    BY <2>1
  <2>2. CASE r = "ebp"
    BY <1>1, <2>2
  <2>3. CASE r # "esp" /\ r # "ebp"
    BY <1>1, <2>3
  <2> QED
    BY <2>1, <2>2, <2>3
<1>3. [r \in S |-> F(w, r)] = [r \in S |-> F(v, r)]
  <2> HIDE DEF S, F
  <2> QED
    BY <1>2
<1> QED
  BY <1>1, <1>3 DEF ActivationIn

\* The activations of one call more.
LEMMA ActivationsOf ==
  \A w : \A h \in Seq(Outstanding) :
    /\ h = <<>> => ActivationsIn(w, h) = <<>>
    /\ h # <<>> => /\ ActivationsIn(w, h) # <<>>
                   /\ Front(ActivationsIn(w, h)) = ActivationsIn(w, Front(h))
                   /\ Last(ActivationsIn(w, h)) = ActivationIn(w, Last(h))
<1> SUFFICES ASSUME NEW w, NEW h \in Seq(Outstanding)
             PROVE  /\ h = <<>> => ActivationsIn(w, h) = <<>>
                    /\ h # <<>> => /\ ActivationsIn(w, h) # <<>>
                                   /\ Front(ActivationsIn(w, h)) = ActivationsIn(w, Front(h))
                                   /\ Last(ActivationsIn(w, h)) = ActivationIn(w, Last(h))
  OBVIOUS
<1> DEFINE n == Len(h)
           s == ActivationsIn(w, h)
           S == {ActivationIn(w, h[k]) : k \in 1 .. n}
<1>1. n \in Nat /\ DOMAIN h = 1 .. n
  BY LenProperties
<1>2. s = [k \in 1 .. n |-> ActivationIn(w, h[k])]
  BY <1>1 DEF ActivationsIn
<1> HIDE DEF s, n
<1>3. s \in Seq(S) /\ Len(s) = n /\ \A k \in 1 .. n : s[k] = ActivationIn(w, h[k])
  BY <1>1, <1>2, IsASeq
<1>4. h = <<>> => s = <<>>
  BY <1>1, <1>3 DEF n
<1>5. ASSUME h # <<>>
      PROVE  s # <<>> /\ Front(s) = ActivationsIn(w, Front(h)) /\ Last(s) = ActivationIn(w, Last(h))
  <2>1. n # 0 /\ Last(h) = h[n] /\ n \in 1 .. n
    BY <1>1, <1>5 DEF n, Last
  <2>2. s # <<>>
    BY <1>3, <2>1
  <2>3. Last(s) = ActivationIn(w, Last(h))
    BY <1>3, <2>1 DEF Last
  <2> HIDE DEF S
  <2>4. /\ Front(s) \in Seq(S) /\ Len(Front(s)) = n - 1 /\ DOMAIN Front(s) = 1 .. n - 1
        /\ \A k \in 1 .. n - 1 : Front(s)[k] = s[k]
    BY <1>3, <2>2, FrontOf
  <2>5. /\ Front(h) \in Seq(Outstanding) /\ DOMAIN Front(h) = 1 .. n - 1
        /\ \A k \in 1 .. n - 1 : Front(h)[k] = h[k]
    BY <1>5, FrontOf DEF n
  <2>6. \A k \in 1 .. n - 1 : Front(s)[k] = ActivationIn(w, Front(h)[k])
    BY <1>1, <1>3, <2>4, <2>5
  <2>7. Front(s) = [k \in 1 .. n - 1 |-> ActivationIn(w, Front(h)[k])]
    BY <2>4, <2>6
  <2>8. Front(s) = ActivationsIn(w, Front(h))
    BY <2>5, <2>7 DEF ActivationsIn
  <2> QED
    BY <2>2, <2>3, <2>8
<1> QED
  BY <1>4, <1>5 DEF s

\* No open activation looks below where the innermost one starts.
Rooted(h) ==
  /\ h \in Seq(Outstanding) /\ h # <<>> /\ Edge(image, h, Len(h)) \in Int
  /\ \A k \in DOMAIN h : /\ TokenAt(h[k]) \in Int /\ TokenAt(h[k]) < StackLimit
                         /\ Lowest(h[k]) \in Int /\ Edge(image, h, Len(h)) <= Lowest(h[k])
  /\ Edge(image, h, Len(h)) <= Last(h).was.reg["esp"] /\ Last(h) \in Outstanding

LEMMA SameActivations ==
  \A h, w, v :
    (Rooted(h) /\ \A a \in Edge(image, h, Len(h)) .. StackLimit - 1 : v[a] = w[a])
      => ActivationsIn(v, h) = ActivationsIn(w, h)
<1> SUFFICES ASSUME NEW h, NEW w, NEW v, Rooted(h),
                    \A a \in Edge(image, h, Len(h)) .. StackLimit - 1 : v[a] = w[a]
             PROVE  ActivationsIn(v, h) = ActivationsIn(w, h)
  OBVIOUS
<1> DEFINE b == Edge(image, h, Len(h))
<1>1. b \in Int /\ DOMAIN h = 1 .. Len(h) /\ \A k \in DOMAIN h : h[k] \in Outstanding
  BY LenProperties DEF Rooted
<1>2. \A a \in b .. StackLimit - 1 : v[a] = w[a]
  OBVIOUS
<1>3. ASSUME NEW k \in DOMAIN h PROVE ActivationIn(v, h[k]) = ActivationIn(w, h[k])
  <2> DEFINE c == h[k]
  <2>1. /\ TokenAt(c) \in Int /\ TokenAt(c) < StackLimit /\ Lowest(c) \in Int /\ b <= Lowest(c)
        /\ c \in Outstanding
    BY <1>1 DEF Rooted
  <2> HIDE DEF b, c
  <2>2. SameCells(v, w, c)
    <3> SUFFICES ASSUME NEW a \in Lowest(c) .. TokenAt(c) PROVE v[a] = w[a]
      BY DEF SameCells
    <3>1. a \in b .. StackLimit - 1
      BY <1>1, <2>1, Numbers
    <3> QED
      BY <1>2, <3>1
  <2>3. ActivationIn(v, c) = ActivationIn(w, c)
    BY <2>1, <2>2, SameActivation
  <2> QED
    BY <2>3 DEF c
<1> QED
  BY <1>3 DEF ActivationsIn

\* A running program is at an instruction of its code.
LEMMA AtInstruction ==
  ASSUME CallsInv, Running
  PROVE  ip < Count
<1>1. Loaded /\ m \in Machine /\ KeepsStack(image, Kept) /\ calls \in Seq(Outstanding)
      /\ (Fresh \/ Deep)
  BY Prologue DEF CallsInv
<1>2. CASE Fresh
  <2> DEFINE shape == Kept
             p == EntryProc
  <2>1. KeepsStack(image, shape)
    BY <1>1
  <2> HIDE DEF shape
  <2>2. p \in ProcsOf(image) /\ p.start \in Body(p)
    BY <1>1, <2>1, EntryLeads
  <2>3. ip \in Body(p)
    BY <1>2, <2>2 DEF Fresh
  <2> HIDE DEF p
  <2> QED
    BY <1>1, <2>2, <2>3, InsideOne
<1>3. CASE Deep
  <2> DEFINE shape == Kept
             n == Len(calls)
             p == Runs(image, calls, n)
             b == Floor(calls, n)
             l == FoundLocals(calls, n)
  <2>1. PICK e \in Int : Nested(image, shape, calls, e, m, ip)
    BY <1>3 DEF Deep
  <2> DEFINE d == FoundEbp(calls, n, e)
  <2>2. KeepsStack(image, shape)
    BY <1>1
  <2> HIDE DEF shape
  <2>3. RunsHere(shape, m, p, b, d, l)
    BY <1>1, <2>1, <2>2, NestedTop DEF Innermost
  <2> HIDE DEF n, p, b, d, l
  <2> QED
    BY <2>3, HereFacts
<1> QED
  BY <1>1, <1>2, <1>3

\* A running program inside a call.
LEMMA InsideCall ==
  ASSUME CallsInv, Running, calls # <<>>
  PROVE  /\ Deep /\ Entered.m = m /\ RunsCall(Kept, m, Last(calls)) /\ Rooted(calls)
         /\ ip \in Body(Last(calls).callee)
<1> DEFINE shape == Kept
           n == Len(calls)
           c == Last(calls)
<1>1. Deep /\ Entered.m = m
  BY CallsAreDeep
<1>2. Loaded /\ m \in Machine /\ KeepsStack(image, shape) /\ calls \in Seq(Outstanding)
  BY Prologue DEF CallsInv
<1>3. PICK e \in Int : Nested(image, shape, calls, e, m, ip)
  BY <1>1 DEF Deep
<1>4. /\ n \in Nat /\ n # 0 /\ n > 0 /\ n \in 1 .. n /\ DOMAIN calls = 1 .. n /\ c = calls[n]
      /\ \A k \in 1 .. n : k # 0 /\ calls[k] \in Outstanding
  BY <1>2 DEF Last
<1> HIDE DEF shape
<1>5. RunsCall(shape, m, c)
  BY <1>2, <1>3, <1>4, NestedTop
<1>6. ip \in Body(c.callee)
  <2> DEFINE p == c.callee
             b == Bottom(c)
             d == c.was.reg["ebp"]
             l == c.was.locals
  <2>1. RunsHere(shape, m, p, b, d, l)
    BY <1>5 DEF RunsCall
  <2> HIDE DEF p, b, d, l
  <2>2. ip \in Body(p)
    BY <2>1, HereFacts
  <2> QED
    BY <2>2 DEF p
<1>7. TokensKept(calls, m, n)
  BY <1>2, <1>3, TokensStay
<1>8. ASSUME NEW k \in 1 .. n
      PROVE  /\ Edge(image, calls, k) = Lowest(calls[k]) /\ Edge(image, calls, k) \in Int
             /\ Edge(image, calls, k) <= TokenAt(calls[k]) /\ TokenAt(calls[k]) \in Int
             /\ TokenAt(calls[k]) < StackLimit /\ TokenAt(calls[k]) < calls[k].was.reg["esp"]
             /\ calls[k].was.reg["esp"] \in Int
  <2> HIDE DEF n
  <2>1. k \in 1 .. Len(calls) /\ k # 0
    BY <1>4 DEF n
  <2>2. MadeBelow(calls, m, ip, k)
    BY <1>2, <1>3, <2>1, CallerAbove
  <2>3. Edge(image, calls, k) = Lowest(calls[k])
    BY <2>1, AtCall DEF Edge, Lowest
  <2> QED
    BY <2>2, <2>3, Numbers DEF MadeBelow
<1>9. \A k \in 1 .. n : Edge(image, calls, n) <= Edge(image, calls, k)
  BY <1>7 DEF TokensKept
<1>10. Edge(image, calls, n) \in Int /\ Edge(image, calls, n) <= c.was.reg["esp"]
  <2> DEFINE b == Edge(image, calls, n)
             a == TokenAt(c)
             s == c.was.reg["esp"]
  <2>1. b \in Int /\ b <= a /\ a \in Int /\ a < s /\ s \in Int
    BY <1>4, <1>8
  <2> HIDE DEF a, b, s
  <2>2. b \in Int /\ b <= s
    BY <2>1
  <2> QED
    BY <2>2 DEF b, s
<1>11. Rooted(calls)
  BY <1>2, <1>4, <1>8, <1>9, <1>10 DEF Rooted
<1> QED
  BY <1>1, <1>5, <1>6, <1>11 DEF shape

-----------------------------------------------------------------------------
(* The executor implements nested activations. *)

\* The registers and words that the abstract activations are shown.
Shown == /\ Running => Present = Entered.m
         /\ Running /\ Deep => Present = m
         /\ ~Running => Present = m

ActivationsInv == CallsInv /\ (over = "no" <=> Running) /\ Shown

Opened == [k \in DOMAIN calls |-> Activation(calls[k])]

LEMMA OpenedIs == Opened = ActivationsIn(m.mem, calls)
BY DEF Opened, Activation, ActivationsIn, ActivationIn

LEMMA CallsInvShows ==
  ASSUME CallsInv
  PROVE  Shown
<1>1. Running => Present = Entered.m
  BY AtInstruction DEF Present
<1>2. Running /\ Deep => Present = m
  BY <1>1, MachineStands
<1>3. ~Running => Present = m
  BY DEF Present
<1> QED
  BY <1>1, <1>2, <1>3 DEF Shown

\* Working on, or ending the run.
LEMMA WorkingImplements ==
  ASSUME ActivationsInv, ActivationsInv', image' = image, Running, Working,
         over' = "returned" => Completed /\ Instr.op = "ret"
  PROVE  Abstract!Next
<1>1. /\ over = "no" /\ (over' = "no" <=> Running') /\ calls \in Seq(Outstanding) /\ calls' = calls
      /\ Opened = ActivationsIn(m.mem, calls)
  BY OpenedIs DEF ActivationsInv, CallsInv, Working
<1>2. Opened' = ActivationsIn(m'.mem, calls')
  BY DEF Opened, Activation, ActivationsIn, ActivationIn
<1>3. Opened' = Opened /\ (calls = <<>> => Opened = <<>>) /\ (calls # <<>> => Opened # <<>>)
  <2>1. CASE calls = <<>>
    BY <1>1, <1>2, <2>1, ActivationsOf
  <2>2. CASE calls # <<>>
    <3>1. Rooted(calls)
      BY <2>2, InsideCall DEF ActivationsInv
    <3>2. \A a \in Edge(image, calls, Len(calls)) .. StackLimit - 1 : m'.mem[a] = m.mem[a]
      BY <2>2 DEF Working
    <3>3. ActivationsIn(m'.mem, calls) = ActivationsIn(m.mem, calls)
      BY <3>1, <3>2, SameActivations
    <3>4. Opened # <<>>
      BY <1>1, <2>2, ActivationsOf
    <3> QED
      BY <1>1, <1>2, <2>2, <3>3, <3>4
  <2> QED
    BY <2>1, <2>2
<1>4. CASE ~Running'
  <2>1. over' = "returned" => Opened = <<>>
    BY <1>3, <1>4 DEF Working
  <2>2. over = "no" /\ over' # "no" /\ Opened' = Opened
    BY <1>1, <1>3, <1>4
  <2>3. Abstract!End
    BY <2>1, <2>2 DEF Abstract!End, Opened
  <2> QED
    BY <2>3 DEF Abstract!Next
<1>5. CASE Running'
  <2>1. ASSUME calls # <<>>
        PROVE  /\ ip' \in Last(Opened).body
               /\ \A a \in Last(Opened).callers : Present'.mem[a] = Present.mem[a]
    <3> DEFINE c == Last(calls)
               b == Edge(image, calls, Len(calls))
               s == c.was.reg["esp"]
    <3>1. Rooted(calls) /\ Deep /\ c \in Outstanding
      BY <2>1, InsideCall DEF ActivationsInv, Rooted
    <3>2. Present = m
      BY <3>1 DEF ActivationsInv, Shown
    <3>3. Present' = m'
      <4>1. Deep'
        BY <1>1, <1>5, <2>1 DEF ActivationsInv, CallsInv, Fresh
      <4> QED
        BY <1>5, <4>1 DEF ActivationsInv, Shown
    <3>4. Last(Opened) = ActivationIn(m.mem, c)
      BY <1>1, <2>1, ActivationsOf
    <3>5. Last(Opened).body = Body(c.callee) /\ Last(Opened).callers = s .. StackLimit - 1
      BY <3>4 DEF ActivationIn, Body
    <3>6. ip' \in Body(c.callee) /\ \A a \in b .. StackLimit - 1 : m'.mem[a] = m.mem[a]
      BY <1>5, <2>1 DEF Working
    <3>7. b \in Int /\ s \in Int /\ b <= s /\ StackLimit \in Int
      BY <3>1, CallTyped, Numbers DEF Rooted
    <3> HIDE DEF b, s, c
    <3>8. \A a \in s .. StackLimit - 1 : a \in b .. StackLimit - 1
      BY <3>7
    <3> QED
      BY <3>2, <3>3, <3>5, <3>6, <3>8
  <2>2. Abstract!Work
    BY <1>1, <1>3, <1>5, <2>1 DEF Abstract!Work, Abstract!Inner, Abstract!CallersKeepTheirWords,
         Abstract!Last, Last, Opened
  <2> QED
    BY <2>2 DEF Abstract!Next
<1> QED
  BY <1>4, <1>5

\* What a call leaves behind for its return, in its own words.
LEMMA CallLeaves ==
  ASSUME NEW STATE shape, NEW STATE x, NEW STATE y, CallMade(shape, y, CallFrom(x))
  PROVE  /\ CallFrom(x) \in Outstanding /\ CallFrom(x).was = x
         /\ \A r \in DOMAIN ActivationIn(y.mem, CallFrom(x)).registers :
              ActivationIn(y.mem, CallFrom(x)).registers[r] = x.reg[r]
         /\ ActivationIn(y.mem, CallFrom(x)).body = Body(CallFrom(x).callee)
         /\ ActivationIn(y.mem, CallFrom(x)).callers = x.reg["esp"] .. StackLimit - 1
         /\ \A a \in x.reg["esp"] .. StackLimit - 1 : y.mem[a] = x.mem[a]
<1> DEFINE c == CallFrom(x)
           p == c.callee
           S == {"esp"} \cup ToSet(p.uses) \cup (IF p.locals > 0 THEN {"ebp"} ELSE {})
           F(r) == CASE r = "esp" -> c.was.reg["esp"]
                     [] r = "ebp" -> y.mem[TokenAt(c) - Len(p.uses) - 1]
                     [] OTHER     -> y.mem[SavedAt(c, r)]
           R == ActivationIn(y.mem, c).registers
<1>1. c.was = x /\ c \in Outstanding
  BY DEF CallFrom, CallMade
<1> HIDE DEF c
<1>2. R = [r \in S |-> F(r)] /\ ActivationIn(y.mem, c).body = Body(p)
      /\ ActivationIn(y.mem, c).callers = x.reg["esp"] .. StackLimit - 1
  BY <1>1 DEF ActivationIn, Body
<1>3. "esp" \notin ToSet(p.uses) /\ "ebp" \notin ToSet(p.uses) /\ p.locals \in Nat
  BY <1>1, SavedCells, CallTyped DEF Procedure
<1>4. /\ \A r \in ToSet(p.uses) : y.mem[SavedAt(c, r)] = x.reg[r]
      /\ \A a \in x.reg["esp"] .. StackLimit - 1 : y.mem[a] = x.mem[a]
  BY <1>1 DEF CallMade, Holds, c
<1>5. p.locals > 0 => y.mem[TokenAt(c) - Len(p.uses) - 1] = x.reg["ebp"]
  <2>1. p.locals > 0 => y.mem[Bottom(c) - 1] = x.reg["ebp"]
    BY <1>1 DEF CallMade, Within, c
  <2> QED
    BY <2>1 DEF Bottom
<1>6. ASSUME NEW r \in S PROVE F(r) = x.reg[r]
  <2>1. CASE r = "esp"
    BY <1>1, <2>1
  <2>2. CASE r = "ebp"
    BY <1>3, <1>5, <2>2
  <2>3. CASE r # "esp" /\ r # "ebp"
    BY <1>3, <1>4, <2>3
  <2> QED
    BY <2>1, <2>2, <2>3
<1> HIDE DEF S, F
<1>7. \A r \in DOMAIN R : R[r] = x.reg[r]
  BY <1>2, <1>6
<1> QED
  BY <1>1, <1>2, <1>4, <1>7 DEF c, R

LEMMA CallingImplements ==
  ASSUME ActivationsInv, ActivationsInv', image' = image, Running, Calling
  PROVE  Abstract!Next
<1> DEFINE x == Entered.m
           c == CallFrom(x)
           shape == Kept
<1>1. /\ over = "no" /\ over' = "no" /\ Running' /\ calls \in Seq(Outstanding)
      /\ Opened = ActivationsIn(m.mem, calls) /\ Present = x
      /\ calls' = Append(calls, c) /\ ip' \in Body(c.callee) /\ CallMade(shape, m', c)
  BY OpenedIs DEF ActivationsInv, CallsInv, Calling, Shown
<1>2. Opened' = ActivationsIn(m'.mem, calls')
  BY DEF Opened, Activation, ActivationsIn, ActivationIn
<1>3. /\ c \in Outstanding /\ c.was = x
      /\ \A r \in DOMAIN ActivationIn(m'.mem, c).registers :
           ActivationIn(m'.mem, c).registers[r] = x.reg[r]
      /\ ActivationIn(m'.mem, c).body = Body(c.callee)
      /\ ActivationIn(m'.mem, c).callers = x.reg["esp"] .. StackLimit - 1
      /\ \A a \in x.reg["esp"] .. StackLimit - 1 : m'.mem[a] = x.mem[a]
  <2> HIDE DEF x, shape
  <2> QED
    BY <1>1, CallLeaves
<1> HIDE DEF c, shape
<1>4. calls' \in Seq(Outstanding) /\ calls' # <<>> /\ Front(calls') = calls /\ Last(calls') = c
  BY <1>1, <1>3, OneMore
<1>5. Present' = m'
  <2>1. Deep'
    BY <1>1, <1>4 DEF ActivationsInv, CallsInv, Fresh
  <2> QED
    BY <1>1, <2>1 DEF ActivationsInv, Shown
<1>6. /\ Opened' # <<>> /\ Front(Opened') = ActivationsIn(m'.mem, calls)
      /\ Last(Opened') = ActivationIn(m'.mem, c)
  BY <1>2, <1>4, ActivationsOf
<1>7. ActivationsIn(m'.mem, calls) = Opened
  <2>1. CASE calls = <<>>
    BY <1>1, <2>1, ActivationsOf
  <2>2. CASE calls # <<>>
    <3> DEFINE b == Edge(image, calls, Len(calls))
               s == x.reg["esp"]
    <3>1. Rooted(calls) /\ x = m
      BY <2>2, InsideCall DEF ActivationsInv
    <3>2. b \in Int /\ s <= b
      BY <2>2, <3>1 DEF Rooted, Calling
    <3>3. s \in Int
      BY <1>3, CallTyped
    <3>4. \A a \in s .. StackLimit - 1 : m'.mem[a] = m.mem[a]
      BY <1>3, <3>1
    <3> HIDE DEF b, s
    <3>5. \A a \in b .. StackLimit - 1 : m'.mem[a] = m.mem[a]
      BY <3>2, <3>3, <3>4, Numbers
    <3>6. ActivationsIn(m'.mem, calls) = ActivationsIn(m.mem, calls)
      BY <3>1, <3>5, SameActivations DEF b
    <3> QED
      BY <1>1, <3>6
  <2> QED
    BY <2>1, <2>2
<1>8. /\ Opened' # <<>> /\ Front(Opened') = Opened
      /\ ip' \in Last(Opened').body
      /\ \A r \in DOMAIN Last(Opened').registers : Last(Opened').registers[r] = Present.reg[r]
      /\ \A w \in Last(Opened').callers : Present'.mem[w] = Present.mem[w]
  BY <1>1, <1>3, <1>5, <1>6, <1>7
<1>9. Abstract!Call
  BY <1>1, <1>8 DEF Abstract!Call, Abstract!Last, Abstract!Front, Last, Front, Opened
<1> QED
  BY <1>9 DEF Abstract!Next

\* What the innermost call finds again when it returns.
LEMMA CallFinds ==
  ASSUME NEW STATE shape, NEW STATE x, NEW STATE c, RunsCall(shape, x, c),
         NEW STATE y, Resumes(x, c, y)
  PROVE  /\ ActivationIn(x.mem, c).resume = c.back
         /\ \A r \in DOMAIN ActivationIn(x.mem, c).registers :
              y.reg[r] = ActivationIn(x.mem, c).registers[r]
         /\ ActivationIn(x.mem, c).callers = c.was.reg["esp"] .. StackLimit - 1
         /\ y.mem = x.mem
<1> DEFINE p == c.callee
           S == {"esp"} \cup ToSet(p.uses) \cup (IF p.locals > 0 THEN {"ebp"} ELSE {})
           F(r) == CASE r = "esp" -> c.was.reg["esp"]
                     [] r = "ebp" -> x.mem[TokenAt(c) - Len(p.uses) - 1]
                     [] OTHER     -> x.mem[SavedAt(c, r)]
           R == ActivationIn(x.mem, c).registers
<1>1. c \in Outstanding /\ x.mem[TokenAt(c)] = TokenBase + c.back /\ c.back \in Int
  BY CallTyped DEF RunsCall, Holds
<1>2. /\ R = [r \in S |-> F(r)]
      /\ ActivationIn(x.mem, c).callers = c.was.reg["esp"] .. StackLimit - 1
      /\ ActivationIn(x.mem, c).resume = x.mem[TokenAt(c)] - TokenBase
  BY DEF ActivationIn
<1>3. "esp" \notin ToSet(p.uses) /\ "ebp" \notin ToSet(p.uses) /\ p.locals \in Nat
  BY <1>1, SavedCells, CallTyped DEF Procedure
<1>4. /\ y.reg["esp"] = c.was.reg["esp"] /\ y.reg["ebp"] = c.was.reg["ebp"] /\ y.mem = x.mem
      /\ \A r \in ToSet(p.uses) : y.reg[r] = x.mem[SavedAt(c, r)]
  BY DEF Resumes
<1>5. p.locals > 0 => x.mem[TokenAt(c) - Len(p.uses) - 1] = c.was.reg["ebp"]
  <2>1. p.locals > 0 => x.mem[Bottom(c) - 1] = c.was.reg["ebp"]
    BY DEF RunsCall, RunsHere, Within
  <2> QED
    BY <2>1 DEF Bottom
<1>6. ASSUME NEW r \in S PROVE F(r) = y.reg[r]
  <2>1. CASE r = "esp"
    BY <1>4, <2>1
  <2>2. CASE r = "ebp"
    BY <1>3, <1>4, <1>5, <2>2
  <2>3. CASE r # "esp" /\ r # "ebp"
    BY <1>3, <1>4, <2>3
  <2> QED
    BY <2>1, <2>2, <2>3
<1> HIDE DEF S, F
<1>7. \A r \in DOMAIN R : y.reg[r] = R[r]
  BY <1>2, <1>6
<1>8. ActivationIn(x.mem, c).resume = c.back
  BY <1>1, <1>2, Numbers
<1> QED
  BY <1>2, <1>4, <1>7, <1>8 DEF R

LEMMA ReturningImplements ==
  ASSUME ActivationsInv, ActivationsInv', image' = image, Running, Returning
  PROVE  Abstract!Next
<1> DEFINE c == Last(calls)
           shape == Kept
<1>1. /\ over = "no" /\ over' = "no" /\ Running' /\ calls \in Seq(Outstanding) /\ calls # <<>>
      /\ Opened = ActivationsIn(m.mem, calls) /\ calls' = Front(calls) /\ ip' = c.back
  BY OpenedIs DEF ActivationsInv, CallsInv, Returning, Shown
<1>2. Opened' = ActivationsIn(m'.mem, calls')
  BY DEF Opened, Activation, ActivationsIn, ActivationIn
<1>3. Deep /\ Entered.m = m /\ RunsCall(shape, m, c)
  BY <1>1, InsideCall DEF ActivationsInv
<1>4. Present = m /\ Present' = m' /\ Resumes(m, c, m')
  BY <1>1, <1>3 DEF ActivationsInv, Shown, Returning
<1>5. /\ ActivationIn(m.mem, c).resume = c.back
      /\ \A r \in DOMAIN ActivationIn(m.mem, c).registers :
           m'.reg[r] = ActivationIn(m.mem, c).registers[r]
      /\ m'.mem = m.mem
  <2> HIDE DEF c, shape
  <2> QED
    BY <1>3, <1>4, CallFinds
<1>6. /\ Opened # <<>> /\ Front(Opened) = ActivationsIn(m.mem, Front(calls))
      /\ Last(Opened) = ActivationIn(m.mem, c)
  BY <1>1, ActivationsOf
<1> HIDE DEF c, shape
<1>7. /\ Opened # <<>> /\ Opened' = Front(Opened) /\ ip' = Last(Opened).resume
      /\ \A r \in DOMAIN Last(Opened).registers : Present'.reg[r] = Last(Opened).registers[r]
      /\ \A a \in Last(Opened).callers : Present'.mem[a] = Present.mem[a]
  BY <1>1, <1>2, <1>4, <1>5, <1>6
<1>8. Abstract!Return
  BY <1>1, <1>7 DEF Abstract!Return, Abstract!Inner, Abstract!CallersKeepTheirWords,
                    Abstract!Last, Abstract!Front, Last, Front, Opened
<1> QED
  BY <1>8 DEF Abstract!Next

\* A run that is over takes no more steps.
LEMMA OnlyFinished ==
  ASSUME Next, ~Running
  PROVE  Finished
BY DEF Next, Step, Nop, Mov, Add, Push, Pop, Leave, Call, InvokeCommit, InvokeCapture, RootRet,
       HelperRet, Jmp, Jcc, Exit, EntryRefused, StopAtEntryEnd, CodeFellOffEnd, LimitExceeded,
       Fetch, MayFetch, MayStep


\* The history says whether the run goes on.
LEMMA OverSays ==
  ASSUME over = "no" <=> Running, [HNext]_hvars
  PROVE  (over = "no" <=> Running)'
<1>1. CASE HNext /\ Running
  BY <1>1 DEF HNext
<1>2. CASE UNCHANGED hvars \/ (HNext /\ ~Running)
  <2>1. UNCHANGED vars /\ over' = over
    <3>1. CASE UNCHANGED hvars
      BY <3>1 DEF hvars
    <3>2. CASE HNext /\ ~Running
      BY <3>2, OnlyFinished DEF HNext, Finished
    <3> QED
      BY <1>2, <3>1, <3>2
  <2>2. status' = status /\ halted' = halted
    BY <2>1 DEF vars
  <2> QED
    BY <2>1, <2>2 DEF Running
<1> QED
  BY <1>1, <1>2

\* What an over and done run shows stays.
LEMMA EndedStays ==
  ASSUME ~Running, UNCHANGED vars, calls' = calls, over' = over
  PROVE  UNCHANGED Abstract!vars
<1>1. m' = m /\ ip' = ip /\ status' = status /\ halted' = halted
  BY DEF vars
<1>2. ~Running'
  BY <1>1 DEF Running
<1>3. Present = m /\ Present' = m
  BY <1>1, <1>2 DEF Present
<1>4. Opened' = Opened
  BY <1>1 DEF Opened, Activation
<1> QED
  BY <1>1, <1>3, <1>4 DEF Abstract!vars, Opened

LEMMA InitImplements ==
  ASSUME HInit
  PROVE  Abstract!Init
<1>1. calls = <<>> /\ over = "no" /\ calls \in Seq(Outstanding)
  BY DEF HInit
<1>2. Opened = <<>>
  BY <1>1, OpenedIs, ActivationsOf
<1> QED
  BY <1>1, <1>2 DEF Abstract!Init, Opened

LEMMA StepImplements ==
  ASSUME StackBase - 1 \notin DataWords, ActivationsInv, ActivationsInv', [HNext]_hvars
  PROVE  [Abstract!Next]_(Abstract!vars)
<1>1. CASE HNext /\ Running
  <2>1. Next /\ History /\ CallsInv
    BY <1>1 DEF HNext, History, ActivationsInv
  <2>2. CallsGoOn
    BY <2>1, StepsGoOn
  <2>3. over' = "returned" => Completed /\ Instr.op = "ret"
    BY <1>1 DEF HNext
  <2>4. image' = image /\ (Working \/ Calling \/ Returning)
    BY <1>1, <2>2 DEF CallsGoOn
  <2> QED
    BY <1>1, <2>3, <2>4, WorkingImplements, CallingImplements, ReturningImplements
<1>2. CASE HNext /\ ~Running
  <2>1. UNCHANGED vars /\ over' = over
    BY <1>2, OnlyFinished DEF HNext, Finished
  <2>2. count' = count /\ count \in Nat
    BY <2>1 DEF vars, ActivationsInv, CallsInv, FramesInv, Others
  <2>3. ~Completed
    BY <2>2 DEF Completed
  <2>4. calls' = calls
    BY <1>2, <2>3 DEF HNext, Called, Returned
  <2> QED
    BY <1>2, <2>1, <2>4, EndedStays
<1>3. CASE UNCHANGED hvars
  <2>1. UNCHANGED vars /\ calls' = calls /\ over' = over
    BY <1>3 DEF hvars
  <2>2. CASE Running
    <3>1. /\ m' = m /\ ip' = ip /\ status' = status /\ halted' = halted /\ image' = image
          /\ CallsInv /\ over = "no"
      BY <2>1, <2>2 DEF vars, ActivationsInv
    <3>2. Running'
      BY <2>2, <3>1 DEF Running
    <3>3. Working
      BY <2>1, <2>2, <3>1, <3>2, InsideCall DEF Working
    <3>4. over' = "returned" => Completed /\ Instr.op = "ret"
      BY <2>1, <3>1
    <3> QED
      BY <2>2, <3>1, <3>3, <3>4, WorkingImplements
  <2> QED
    BY <2>1, <2>2, EndedStays
<1> QED
  BY <1>1, <1>2, <1>3

\* For programs whose procedures keep their own stack, tokens, saved registers and frames
\* in simulated memory implement nested activations: no step between a CALL or INVOKE and
\* its RET disturbs what the RET will use or what belongs to the callers, the RET gives it
\* all back, and a RET that ends the program leaves no call open.
THEOREM ActivationsImplemented ==
  ASSUME StackBase - 1 \notin DataWords, \A g \in Images : \E s : KeepsStack(g, s)
  PROVE  HSpec => ImplementsActivations
<1> DEFINE OverInv == over = "no" <=> Running
<1>1. HInit => CallsInv /\ OverInv
  BY InitCalls DEF HInit, Init, Running
<1>2. CallsInv /\ OverInv /\ [HNext]_hvars => CallsInv' /\ OverInv'
  BY StepCalls, OverSays
<1>3. CallsInv /\ OverInv => ActivationsInv
  BY CallsInvShows DEF ActivationsInv
<1>4. HInit => Abstract!Init
  BY InitImplements
<1>5. ActivationsInv /\ ActivationsInv' /\ [HNext]_hvars => [Abstract!Next]_(Abstract!vars)
  BY StepImplements
<1> QED
  BY <1>1, <1>2, <1>3, <1>4, <1>5, PTL DEF HSpec, ImplementsActivations, Abstract!Spec

=============================================================================
