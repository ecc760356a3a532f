------------------------------ MODULE Programs ------------------------------
(***************************************************************************)
(* Small programs for VmExec and how the parser links them.  A source is a *)
(* sequence of procedures whose jumps and calls name a procedure and an    *)
(* offset in it; Lower gives the instructions and the procedure boundaries *)
(* that parser.c hands to the executor.                                    *)
(***************************************************************************)
EXTENDS Integers, SequencesExt

None    == [kind |-> "none", reg |-> "esp", disp |-> 0]
imm(n)  == [kind |-> "imm", reg |-> "esp", disp |-> n]
reg(r)  == [kind |-> "reg", reg |-> r, disp |-> 0]
ind(r, n) == [kind |-> "ind", reg |-> r, disp |-> n]
abs(a)  == [kind |-> "abs", reg |-> "esp", disp |-> a]
local(n) == [kind |-> "local", reg |-> "esp", disp |-> -n]
addr(n) == [kind |-> "addr", reg |-> "esp", disp |-> -n]

ins(o, d, s, n) == [op |-> o, dst |-> d, src |-> s, args |-> n]
nop        == ins("nop", None, None, 0)
mov(d, s)  == ins("mov", d, s, 0)
add(d, s)  == ins("add", d, s, 0)
push(s)    == ins("push", None, s, 0)
pop(d)     == ins("pop", d, None, 0)
leave      == ins("leave", None, None, 0)
exit       == ins("exit", None, None, 0)
ret(n)     == ins("ret", None, imm(n), 0)
capture(i, s) == ins("capture", imm(i), s, 0)

\* Branch targets: instruction j of procedure k, resolved by Lower.
At(k, j)      == imm(100 * k + j)
call(k)       == ins("call", At(k, 0), imm(0), 0)
commit(k, n)  == ins("commit", At(k, 0), imm(0), n)
jmp(k, j)     == ins("jmp", At(k, j), None, 0)
jcc(k, j)     == ins("jcc", At(k, j), None, 0)

Proc(uses, locals, body) == [entry |-> FALSE, uses |-> uses, locals |-> locals, body |-> body]
Main(locals, body) == [entry |-> TRUE, uses |-> <<>>, locals |-> locals, body |-> body]

Sum(s) == FoldLeft(LAMBDA a, b : a + b, 0, s)
Begin(src, k) == Sum([j \in 1 .. k - 1 |-> Len(src[j].body)])

\* A CALL or INVOKE returns to the next instruction of its own procedure, and past
\* the end of the program when there is none (parser.c, return-token metadata).
Linked(src, k, j) ==
  LET i == src[k].body[j]
      there == Begin(src, i.dst.disp \div 100) + (i.dst.disp % 100)
      back == IF j < Len(src[k].body) THEN Begin(src, k) + j ELSE Begin(src, Len(src) + 1)
  IN  CASE i.op \in {"call", "commit"} -> [i EXCEPT !.dst.disp = there, !.src.disp = back]
        [] i.op \in {"jmp", "jcc"} -> [i EXCEPT !.dst.disp = there]
        [] OTHER -> i

Lower(src) ==
  [code |-> FlattenSeq([k \in DOMAIN src |-> [j \in DOMAIN src[k].body |-> Linked(src, k, j)]]),
   procs |-> [k \in DOMAIN src |->
                [start |-> Begin(src, k), end |-> Begin(src, k + 1), entry |-> src[k].entry,
                 uses |-> src[k].uses, locals |-> src[k].locals]]]

Lowered(sources) == {Lower(s) : s \in sources}

\* The bodies of at most n instructions over an alphabet.
Straights(alphabet, n) == UNION {[1 .. k -> alphabet] : k \in 0 .. n}

-----------------------------------------------------------------------------
(* Register files and settings to run them with. *)

MCGeneral == {"eax", "ebx"}

StartAt(esp) == [eax |-> 0, ebx |-> 7, esp |-> esp, ebp |-> 0]

SettingsOver(rets, falls, ends, limits) ==
  [rootRet : rets, fallthrough : falls, entryEnd : ends, depthLimit : limits]

=============================================================================
