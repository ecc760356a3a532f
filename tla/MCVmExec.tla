------------------------------ MODULE MCVmExec ------------------------------
(***************************************************************************)
(* Program families for VmExec: programs that jump into and out of helper  *)
(* procedures, unbalance the stack, aim ESP elsewhere, overrun every       *)
(* limit, and name operands and targets that every handler refuses.        *)
(***************************************************************************)
EXTENDS VmExec, Programs

MCStart == {StartAt(StackLimit)}

-----------------------------------------------------------------------------
(* Wild: two arbitrary instructions in the entry, two in a helper. *)

Esp == reg("esp")

WildMainOps ==
  {call(2), push(reg("ebx")), pop(reg("eax")), leave, jmp(2, 0), jmp(2, 1), mov(Esp, imm(1)),
   add(Esp, imm(-10)), capture(0, reg("ebx")), commit(2, 1)}

WildWorkOps ==
  {call(2), call(1), pop(reg("eax")), push(reg("ebx")), leave, ret(0), jcc(1, 1), jmp(1, 0)}

WildBodies ==
  {<<main \o <<ret(0)>>, work \o <<ret(1)>>>> :
     main \in [1 .. 2 -> WildMainOps], work \in Straights(WildWorkOps, 1)}
  \cup {<<<<main, call(2), jmp(1, 0)>>, work \o <<ret(1)>>>> :
          main \in WildMainOps, work \in [1 .. 2 -> WildWorkOps]}

-----------------------------------------------------------------------------
(* Odd: operands and targets that some handler refuses, after something    *)
(* that sets them up.  The targets outside the program are those of hand-  *)
(* written instruction lists (tests/core/test_vm_exec.c): the parser never *)
(* emits them.                                                             *)

OddOps ==
  {push(local(1)), push(ind("ebp", -1)), pop(local(1)), pop(ind("esp", 0)), pop(abs(2)),
   mov(abs(2), imm(4)), mov(local(1), imm(4)), mov(abs(1), addr(1)), mov(imm(1), imm(2)),
   add(reg("eax"), abs(1)), add(imm(1), imm(2)), add(abs(2), imm(1)), pop(imm(1)), capture(1, addr(1)),
   mov(reg("ebp"), imm(2)), capture(3, imm(1)), capture(0, local(1)), capture(0, abs(2)),
   commit(2, 4), commit(2, 0), ins("commit", At(2, 50), imm(0), 1),
   ins("call", At(2, 50), imm(0), 0), jmp(2, 50), jcc(2, 50), leave, exit, nop}

Setups == {nop, leave, call(2), capture(0, imm(1)), mov(reg("ebp"), imm(2))}

OddBodies ==
  {<<<<before, odd>> \o end, <<odd, leave>> \o end>> :
     before \in Setups, odd \in OddOps, end \in {<<ret(0)>>, <<exit>>}}

-----------------------------------------------------------------------------

WildSources ==
  {<<Main(l, b[1]), Proc(u, n, b[2])>> :
     l \in {0, 1}, b \in WildBodies \cup OddBodies, u \in {<<>>, <<"ebx">>}, n \in {0, 1}}

WildImages   == Lowered(WildSources)
WildSettings == SettingsOver({"strict", "compatible"}, {"off"}, {"code-stream"}, {2})

=============================================================================
