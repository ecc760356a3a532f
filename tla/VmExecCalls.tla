----------------------------- MODULE VmExecCalls -----------------------------
(***************************************************************************)
(* VmExec with a history of its outstanding calls: what a CALL or INVOKE   *)
(* promises its caller, for helpers that keep their own stack balanced and *)
(* leave through their own RET.                                            *)
(***************************************************************************)
EXTENDS VmExec, FiniteSets

VARIABLES calls,  \* the calls not yet returned from, innermost last
          over    \* what ended the run, "no" while it goes on

hvars == <<vars, calls, over>>

\* What the last step was, told by the instruction it completed.
Completed == count' = count + 1
Called    == Completed /\ Instr.op \in {"call", "commit"}
Returned  == Completed /\ Instr.op = "ret" /\ ~halted'

\* What the caller looked like when it called.
Caller == [back |-> Instr.src.disp, args |-> IF Instr.op = "commit" THEN Instr.args ELSE 0,
           callee |-> Callee(Instr.dst.disp), was |-> Entered.m]

HInit == Init /\ calls = <<>> /\ over = "no"

HNext == /\ Next
         /\ calls' = IF Called THEN Append(calls, Caller)
                     ELSE IF Returned THEN Front(calls) ELSE calls
         /\ over' = IF ~Running THEN over
                    ELSE IF Running' THEN "no"
                    ELSE IF Completed /\ Instr.op = "ret" THEN "returned" ELSE "ended"

HSpec == HInit /\ [][HNext]_hvars

-----------------------------------------------------------------------------

CallsWith(P(_)) == {k \in DOMAIN calls : P(calls[k].callee)}

\* The runtime frame stacks mirror the outstanding calls, and each call's return token
\* is still where CALL wrote it, so the RET that ends it will find it.
FramesMirrorCalls ==
  /\ Len(calls) = helpers
  /\ Len(m.uses) = Cardinality(CallsWith(LAMBDA p : p.uses # <<>>))
  /\ halted \/ Len(m.locals) = Cardinality(CallsWith(LAMBDA p : p.locals > 0))
                       + (IF entryFrame THEN 1 ELSE 0)
  /\ \A k \in DOMAIN calls :
       m.mem[calls[k].was.reg["esp"] - calls[k].args - 1] = TokenBase + calls[k].back

\* Where a call wrote its token, and what lies below it.
TokenAt(c) == c.was.reg["esp"] - c.args - 1
SavedAt(c, r) == TokenAt(c) - CHOOSE k \in DOMAIN c.callee.uses : c.callee.uses[k] = r

\* The activation of a call as the runtime keeps it: not the history but the words of
\* simulated memory tell what RET will use.
Activation(c) ==
  LET p == c.callee
      frame == IF p.locals > 0 THEN {"ebp"} ELSE {}
  IN  [resume    |-> m.mem[TokenAt(c)] - TokenBase,
       body      |-> p.start .. p.end - 1,
       callers   |-> c.was.reg["esp"] .. StackLimit - 1,
       registers |-> [r \in {"esp"} \cup ToSet(p.uses) \cup frame |->
                        CASE r = "esp" -> c.was.reg["esp"]
                          [] r = "ebp" -> m.mem[TokenAt(c) - Len(p.uses) - 1]
                          [] OTHER     -> m.mem[SavedAt(c, r)]]]

\* The frame of the entry procedure counts as made before its first instruction.
Present == IF Running /\ ip < Count THEN Entered.m ELSE m

Abstract == INSTANCE Activations WITH
  control   <- ip,
  registers <- Present.reg,
  words     <- Present.mem,
  open      <- [k \in DOMAIN calls |-> Activation(calls[k])]

\* The executor implements nested activations with tokens, saved registers and frames in
\* simulated memory: no step between a call and its return disturbs what the return will
\* use or what belongs to the callers, the return gives it all back, however deep the
\* helper recursed in between, and a RET that ends the program leaves no call open.
ImplementsActivations == Abstract!Spec

-----------------------------------------------------------------------------
(* Programs whose procedures keep their own stack. *)

\* What a procedure has on the stack before an instruction: the words it pushed and has
\* not popped, and whether its LOCAL frame is up.  A shape gives that for the instructions
\* the program may reach.
OnStack == [up : Nat, framed : BOOLEAN]

Resting(p) == [up |-> 0, framed |-> p.locals > 0]

ProcsOf(g) == {g.procs[k] : k \in DOMAIN g.procs}
Body(p)    == p.start .. p.end - 1

\* A call to i enters p: p has instructions, and is the first boundary declared there.
Enters(g, i, p) ==
  \E k \in DOMAIN g.procs :
    /\ p = g.procs[k] /\ p.start = i /\ p.start < p.end
    /\ \A j \in DOMAIN g.procs : g.procs[j].start = i => k <= j

\* What p may write: registers that are not the stack's, its own pushed words and locals,
\* and memory that is no stack.
OwnPlace(p, o, s) ==
  CASE o.kind = "reg" -> o.reg \in General
    [] o.kind = "abs" -> o.disp \notin Stack
    [] o.kind = "ind" -> \/ o.reg = "esp" /\ o.disp \in 0 .. s.up - 1
                         \/ o.reg = "ebp" /\ s.framed /\ o.disp \in -p.locals .. -1
    [] o.kind = "local" -> o.disp \in -p.locals .. -1
    [] OTHER -> TRUE

Leads(shape, p, i, s) == i \in Body(p) \cap DOMAIN shape /\ shape[i] = s

ArgsOf(i) == IF i.op = "commit" THEN i.args ELSE 0

\* The procedure an instruction calls starts with nothing pushed, and its RETs take the
\* arguments off.
Callable(g, shape, i, q) ==
  /\ Enters(g, i.dst.disp, q) /\ Leads(shape, q, q.start, Resting(q))
  /\ \A j \in Body(q) \cap DOMAIN shape :
       g.code[j + 1].op = "ret" => g.code[j + 1].src.disp = ArgsOf(i)

\* Instruction n of p keeps to the stack of p.
KeepsOwnStack(g, shape, p, n) ==
  LET i == g.code[n + 1]
      s == shape[n]
      Now(k) == [s EXCEPT !.up = @ + k]
  IN  /\ s \in OnStack /\ (p.locals > 0 => s.framed \/ i.op = "ret")
      /\ CASE i.op \in {"nop", "capture"} -> Leads(shape, p, n + 1, s)
           [] i.op \in {"mov", "add"} -> OwnPlace(p, i.dst, s) /\ Leads(shape, p, n + 1, s)
           [] i.op = "push" -> Leads(shape, p, n + 1, Now(1))
           [] i.op = "pop" -> /\ s.up > 0 /\ OwnPlace(p, i.dst, Now(-1))
                              /\ Leads(shape, p, n + 1, Now(-1))
           [] i.op = "leave" -> s.framed /\ Leads(shape, p, n + 1, [up |-> 0, framed |-> FALSE])
           [] i.op \in {"call", "commit"} ->
                /\ i.src.disp = n + 1 /\ Leads(shape, p, n + 1, s)
                /\ \E q \in ProcsOf(g) : Callable(g, shape, i, q)
           [] i.op = "jmp" -> Leads(shape, p, i.dst.disp, s)
           [] i.op = "jcc" -> Leads(shape, p, i.dst.disp, s) /\ Leads(shape, p, n + 1, s)
           [] i.op = "ret" -> s.framed \/ s.up = 0
           [] i.op = "exit" -> TRUE

\* Every procedure keeps to its own stack and is left through its own RET or EXIT only.
KeepsStack(g, shape) ==
  \A p \in ProcsOf(g) :
    /\ \A n \in Body(p) \cap DOMAIN shape : KeepsOwnStack(g, shape, p, n)
    /\ p.entry => Leads(shape, p, p.start, Resting(p)) /\ p.locals <= DescriptorCapacity

=============================================================================
