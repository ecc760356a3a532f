---------------------------- MODULE MCVmExecCalls ----------------------------
(***************************************************************************)
(* Program families for VmExecCalls.                                       *)
(***************************************************************************)
EXTENDS VmExecCalls, Programs

MCStart == {StartAt(StackLimit)}

-----------------------------------------------------------------------------
(* Disciplined helpers: balanced pushes and pops, left through their own RET. *)

\* Stack effect of a body without calls; -1 as soon as it pops what it did not push.
Effect(s) == FoldLeft(LAMBDA n, i : IF n < 0 THEN n ELSE CASE i.op = "push" -> n + 1
                                      [] i.op = "pop" -> n - 1 [] OTHER -> n, 0, s)

HelperBodies(locals, n) ==
  LET alphabet == {push(reg("ebx")), pop(reg("eax")), mov(reg("ebx"), imm(3))}
                    \cup (IF locals > 0 THEN {mov(local(1), reg("ebx"))} ELSE {})
  IN  {s \in Straights(alphabet, 3) : Effect(s) = 0}
      \cup {<<push(reg("ebx"))>> \o s : s \in (IF locals > 0 THEN {<<leave>>} ELSE {})}

\* The helper may call itself again before its own work.
Helper(uses, locals, body, n) ==
  Proc(uses, locals, <<jcc(2, 2), call(2)>> \o body \o <<ret(n)>>)

DisciplinedSources ==
  UNION {
    {<<Main(l, <<call(2), mov(reg("eax"), reg("ebx")), exit>>), Helper(u, n, b, 0)>>
       : b \in HelperBodies(n, 0), l \in {0, 1}}
    : u \in {<<>>, <<"ebx">>, <<"eax", "ebx">>}, n \in {0, 2}}
  \cup UNION {
    {<<Main(l, <<capture(0, reg("ebx")), capture(1, IF l > 0 THEN addr(1) ELSE imm(9)),
                 commit(2, 2), ret(0)>>), Proc(u, n, b \o <<ret(2)>>)>>
       : b \in HelperBodies(n, 0), l \in {0, 1}}
    : u \in {<<>>, <<"ebx">>}, n \in {0, 2}}
  \cup
  \* The entry procedure called again as a helper, ending in the same RET.
  {<<Main(l, <<jcc(1, 2), call(2), ret(0)>>), Proc(u, n, <<call(1), ret(0)>>)>>
     : l \in {0, 1}, u \in {<<>>, <<"ebx">>}, n \in {0, 1}}

DisciplinedImages   == Lowered(DisciplinedSources)
DisciplinedSettings ==
  SettingsOver({"compatible"}, {"warn"}, {"code-stream", "stop"}, {1, 3})

\* The shape of a procedure, instruction by instruction.
ShapeIn(g, p) ==
  LET After(i, s) ==
        CASE i.op = "push"  -> [s EXCEPT !.up = @ + 1]
          [] i.op = "pop"   -> [s EXCEPT !.up = @ - 1]
          [] i.op = "leave" -> [up |-> 0, framed |-> FALSE]
          [] OTHER          -> s
      shape[n \in Body(p)] ==
        IF n = p.start THEN Resting(p) ELSE After(g.code[n], shape[n - 1])
  IN  shape

ShapeOf(g) ==
  [n \in 0 .. Len(g.code) - 1 |-> ShapeIn(g, CHOOSE p \in ProcsOf(g) : n \in Body(p))[n]]

\* What the theorems about VmExecCalls suppose of its constants holds of these programs.
ASSUME Disciplined ==
  /\ StackBase - 1 \notin DataWords
  /\ \A g \in DisciplinedImages : KeepsStack(g, ShapeOf(g))

=============================================================================
