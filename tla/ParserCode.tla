----------------------------- MODULE ParserCode -----------------------------
(***************************************************************************)
(* The single pass that turns a source program into executor code          *)
(* (src/parser/parser.c): declarations and their conflicts, procedure      *)
(* ranges, labels waiting for the next instruction, operand names, the     *)
(* lowering of CALL and INVOKE, and, only after END, the resolution of     *)
(* every branch and call.                                                  *)
(*                                                                         *)
(* One action reads one line.  A name is a model value, Fold gives the     *)
(* value of its lower-case spelling.  A label in front of a statement is a *)
(* line of its own.  Data are DWORDs, a LOCAL line declares one name, and  *)
(* operands that name nothing, the text kept with each instruction and the *)
(* wording of diagnostics are left out; a line the parser refuses for its  *)
(* form is the line "bad".                                                 *)
(***************************************************************************)
EXTENDS Integers, Sequences, FiniteSets

CONSTANTS Names,       \* spellings a source may use
          Fold,        \* the lower-case spelling of each
          Reserved,    \* spellings of reserved words, Irvine32 names included
          Mnemonics,   \* those that are instruction mnemonics
          Routines,    \* Irvine32 routine names
          Disableable, \* reserved words OPTION NOKEYWORD may give back
          General,     \* registers PROC USES may save
          Capacity,    \* sizes of the parser's fixed tables
          Topics       \* families of sources: fixed first and last lines, any ones between

Policies == {"all", "none"}
Argument == [kind : {"value", "addr", "offset"}, name : Names]
Line == [op : {".data", ".code", "include", "plain", "bad"}]
          \cup [op : {"casemap"}, policy : Policies]
          \cup [op : {"nokeyword", "data", "local", "label", "endp", "end", "write", "read",
                      "offset", "jump", "call"}, name : Names]
          \cup [op : {"equate"}, name : Names, constant : BOOLEAN]
          \cup [op : {"proto"}, name : Names, count : Nat]
          \cup [op : {"proc"}, name : Names, uses : Seq(STRING)]
          \cup [op : {"invoke"}, name : Names, args : Seq(Argument)]
          \cup [op : {"ret"}, pops : Int]    \* -1 without an operand

Tables == {"equates", "symbols", "labels", "pending", "procs", "protos", "parameters",
           "locals", "code", "branches", "calls", "arguments", "diagnostics"}

ASSUME ParserAssumption ==
  /\ Fold \in [Names -> Names]
  /\ Mnemonics \cup Routines \cup Disableable \subseteq Reserved /\ Reserved \subseteq Names
  /\ Capacity \in [Tables -> Nat]

ASSUME TopicsAssumption ==
  \A t \in Topics : /\ t.first \in Seq(Line) /\ t.last \in Seq(Line)
                     /\ t.lines \subseteq Line /\ t.more \in Nat

VARIABLES topic,   \* the family this source belongs to
          source,  \* the lines read so far
          p        \* VmParserState, with the result it fills

vars == <<topic, source, p>>

Empty == [phase |-> "preamble", line |-> 0, policy |-> "all", chosen |-> FALSE, disabled |-> {},
          irvine |-> FALSE, equates |-> <<>>, symbols |-> <<>>, protos |-> <<>>, labels |-> <<>>,
          pending |-> {}, procs |-> <<>>, open |-> 0, code |-> <<>>, branches |-> <<>>,
          calls |-> <<>>, entry |-> 0, diagnostics |-> 0, refused |-> FALSE,
          overflowed |-> FALSE, stop |-> FALSE, go |-> TRUE]

-----------------------------------------------------------------------------
(* Names.  Labels, procedures, prototypes and LOCALs are found by their first match; data     *)
(* symbols and equates only when a single one matches.                                        *)

Same(a, b, policy) == IF policy = "all" THEN Fold[a] = Fold[b] ELSE a = b
Matches(table, n, policy) == {i \in DOMAIN table : Same(table[i].name, n, policy)}

First(S) == IF S = {} THEN 0 ELSE CHOOSE i \in S : \A j \in S : i <= j
Only(S)  == IF \E i \in S : S = {i} THEN CHOOSE i \in S : TRUE ELSE 0

\* OPTION NOKEYWORD gives LOOP and OFFSET back, in any spelling.
IsReserved(n, disabled) == n \in Reserved /\ Fold[n] \notin disabled

Locals(s) == IF s.open = 0 THEN <<>> ELSE s.procs[s.open].locals
LocalOf(s, n) == First(Matches(Locals(s), n, s.policy))

\* Taken for a new equate or data symbol.
Taken(s, n) == \/ Only(Matches(s.equates, n, s.policy)) # 0
               \/ Matches(s.symbols, n, s.policy) # {}
               \/ Matches(s.labels, n, s.policy) # {}

-----------------------------------------------------------------------------
(* Diagnostics.  refused: an error was recorded.  stop: a table was full.  go: the loop reads  *)
(* on.                                                                                         *)

Diagnose(s) ==
  IF s.diagnostics >= Capacity["diagnostics"] THEN [s EXCEPT !.overflowed = TRUE]
  ELSE [s EXCEPT !.diagnostics = @ + 1, !.refused = TRUE]

Warn(s) ==
  IF s.diagnostics >= Capacity["diagnostics"] THEN [s EXCEPT !.overflowed = TRUE]
  ELSE [s EXCEPT !.diagnostics = @ + 1]

Refuse(s)  == [Diagnose(s) EXCEPT !.go = FALSE]
Full(s)    == [Diagnose(s) EXCEPT !.stop = TRUE]
Exceed(s)  == [Diagnose(s) EXCEPT !.stop = TRUE, !.go = FALSE]
Checked(s) == [s EXCEPT !.go = @ /\ ~s.overflowed]

Accepted == /\ p.phase = "done"
            /\ ~p.refused /\ ~p.overflowed /\ ~p.stop

-----------------------------------------------------------------------------
(* Labels wait for the next instruction; PROC, ENDP and END make the waiting ones labels       *)
(* without a target.                                                                           *)

LabelRefused(s, n, isProc) ==
  \/ IsReserved(n, s.disabled)
  \/ ~isProc /\ LocalOf(s, n) # 0
  \/ Matches(s.labels, n, s.policy) # {}
  \/ Only(Matches(s.symbols, n, s.policy)) # 0
  \/ Only(Matches(s.equates, n, s.policy)) # 0

AddLabel(s, n, isProc) ==
  LET added == [s EXCEPT !.labels = Append(@, [name |-> n, isProc |-> isProc, target |-> -1,
                                               line |-> s.line])]
  IN  CASE LabelRefused(s, n, isProc) -> Refuse(s)
        [] ~LabelRefused(s, n, isProc) /\ Len(s.labels) >= Capacity["labels"] -> Exceed(s)
        [] OTHER -> IF Cardinality(s.pending) >= Capacity["pending"]
                    THEN [added EXCEPT !.stop = TRUE, !.go = FALSE]
                    ELSE [added EXCEPT !.pending = @ \cup {Len(added.labels)}]

Forget(s) == [s EXCEPT !.pending = {}]

-----------------------------------------------------------------------------
(* Code.  An instruction marks the open procedure as runnable and is the target of every       *)
(* waiting label; a full table keeps the instructions of the line that still fit.              *)

Instruction(s, op, ref) == [op |-> op, line |-> s.line, ref |-> ref, target |-> 0, back |-> 0]
Nothing == [kind |-> "none", at |-> 0]

Emit(s, instructions) ==
  LET room  == Capacity["code"] - Len(s.code)
      fit   == IF Len(instructions) <= room THEN instructions ELSE SubSeq(instructions, 1, room)
      kept  == [s EXCEPT
                 !.code = @ \o fit,
                 !.pending = {},
                 !.labels = [i \in DOMAIN @ |-> IF i \in s.pending
                                                THEN [@[i] EXCEPT !.target = Len(s.code)]
                                                ELSE @[i]],
                 !.procs = [k \in DOMAIN @ |-> IF k = s.open THEN [@[k] EXCEPT !.runs = TRUE]
                                               ELSE @[k]]]
      t     == IF fit = <<>> THEN s ELSE kept
  IN  IF Len(instructions) <= room THEN t ELSE Exceed(t)

\* The fixup of the instruction emitted last, with the policies in force at its line.
AddBranch(s, n) ==
  IF ~s.go THEN s
  ELSE IF Len(s.branches) >= Capacity["branches"] THEN Refuse(s)
  ELSE [s EXCEPT !.branches = Append(@, [at |-> Len(s.code), name |-> n, policy |-> s.policy,
                                         disabled |-> s.disabled])]

AddCall(s, n, invoke, count) ==
  IF ~s.go THEN s
  ELSE IF Len(s.calls) >= Capacity["calls"] THEN Refuse(s)
  ELSE [s EXCEPT !.calls = Append(@, [at |-> Len(s.code), name |-> n, policy |-> s.policy,
                                      invoke |-> invoke, args |-> count])]

-----------------------------------------------------------------------------
(* What an operand's name stands for; kind "error" is a diagnostic.                            *)

Found(kind, at) == [kind |-> IF at = 0 THEN "error" ELSE kind, at |-> at]
SymbolOf(s, n)  == Found("symbol", Only(Matches(s.symbols, n, s.policy)))
EquateOf(s, n)  == Found("equate", Only(Matches(s.equates, n, s.policy)))

MemoryOf(s, n) == IF LocalOf(s, n) # 0 THEN Found("local", LocalOf(s, n)) ELSE SymbolOf(s, n)

SourceOf(s, n) == IF Matches(s.equates, n, s.policy) # {} THEN EquateOf(s, n) ELSE MemoryOf(s, n)

OffsetOf(s, n) == IF LocalOf(s, n) # 0 THEN Found("error", 0) ELSE SymbolOf(s, n)

ArgumentOf(s, arg) ==
  CASE arg.kind = "offset" -> OffsetOf(s, arg.name)
    [] arg.kind = "addr"   -> IF SymbolOf(s, arg.name).kind = "symbol" THEN SymbolOf(s, arg.name)
                              ELSE Found("local", LocalOf(s, arg.name))
    [] arg.kind = "value"  -> IF Matches(s.equates, arg.name, s.policy) # {}
                              THEN EquateOf(s, arg.name) ELSE SymbolOf(s, arg.name)

Operand(s, l) == CASE l.op = "write"  -> MemoryOf(s, l.name)
                   [] l.op = "read"   -> SourceOf(s, l.name)
                   [] l.op = "offset" -> OffsetOf(s, l.name)

-----------------------------------------------------------------------------
(* Lines *)

EquateLine(s, l) ==
  IF IsReserved(l.name, s.disabled) \/ Taken(s, l.name) \/ Len(s.equates) >= Capacity["equates"]
  THEN Diagnose(s)
  ELSE LET t == [s EXCEPT !.equates = Append(@, [name |-> l.name, line |-> s.line])]
       IN  IF l.constant THEN t ELSE Diagnose(t)

DataLine(s, l) ==
  CASE IsReserved(l.name, s.disabled) \/ Taken(s, l.name) -> Diagnose(s)
    [] ~IsReserved(l.name, s.disabled) /\ ~Taken(s, l.name) ->
         IF Len(s.symbols) >= Capacity["symbols"] THEN Exceed(s)
         ELSE [s EXCEPT !.symbols = Append(@, [name |-> l.name, line |-> s.line])]

CasemapLine(s, l) ==
  LET t == IF s.chosen /\ s.policy # l.policy THEN Warn(s) ELSE s
  IN  [t EXCEPT !.policy = l.policy, !.chosen = TRUE]

NokeywordLine(s, l) ==
  IF Fold[l.name] \in Disableable THEN [s EXCEPT !.disabled = @ \cup {Fold[l.name]}]
  ELSE Diagnose(s)

ProtoLine(s, l) ==
  LET unusable == s.open # 0 \/ IsReserved(l.name, s.disabled)
                    \/ Matches(s.protos, l.name, s.policy) # {}
  IN  CASE unusable -> Diagnose(s)
        [] ~unusable /\ (l.count > Capacity["parameters"] \/ Len(s.protos) >= Capacity["protos"])
             -> Full(s)
        [] OTHER -> [s EXCEPT !.protos = Append(@, [name |-> l.name, count |-> l.count])]

LocalRefusedByOwnTable(s, n) ==
  LET proc == s.procs[s.open]
  IN  \/ proc.runs
      \/ IsReserved(n, s.disabled)
      \/ Same(n, proc.name, s.policy)
      \/ LocalOf(s, n) # 0
      \/ Len(proc.locals) >= Capacity["locals"]

\* A LOCAL may not carry the name of its procedure, of another LOCAL or of an earlier label of it.
LocalRefused(s, n) ==
  LET proc == s.procs[s.open]
  IN  \/ proc.runs
      \/ IsReserved(n, s.disabled)
      \/ Same(n, proc.name, s.policy)
      \/ LocalOf(s, n) # 0
      \/ \E i \in Matches(s.labels, n, s.policy) :
           ~s.labels[i].isProc /\ s.labels[i].line > proc.line
      \/ Len(proc.locals) >= Capacity["locals"]

LocalLine(s, l) ==
  IF s.open = 0 \/ LocalRefused(s, l.name) THEN Diagnose(s)
  ELSE [s EXCEPT !.procs[s.open].locals = Append(@, [name |-> l.name, line |-> s.line])]

\* The line goes on, whatever became of its label.
LabelLine(s, l) == [AddLabel(s, l.name, FALSE) EXCEPT !.go = TRUE]

GoodUses(uses) == /\ \A i \in DOMAIN uses : uses[i] \in General
                  /\ \A i, j \in DOMAIN uses : uses[i] = uses[j] => i = j

ProcLine(s, l) ==
  LET t     == AddLabel(Forget(s), l.name, TRUE)
      here  == Len(s.code)
      range == [name |-> l.name, start |-> here, end |-> here, runs |-> FALSE, uses |-> l.uses,
                locals |-> <<>>, plain |-> FALSE, pops |-> {}, line |-> s.line]
  IN  CASE ~GoodUses(l.uses) -> Refuse(Forget(s))
        [] GoodUses(l.uses) /\ ~t.go -> t
        [] GoodUses(l.uses) /\ t.go ->
             IF Len(s.procs) >= Capacity["procs"] THEN Exceed(t)
             ELSE [t EXCEPT !.procs = Append(@, range), !.open = Len(s.procs) + 1]

\* Ends the range of the open procedure here.
CloseRange(s) ==
  IF s.open = 0 THEN s
  ELSE [s EXCEPT !.procs[s.open].end = Len(s.code),
                 !.procs[s.open].runs = Len(s.code) > s.procs[s.open].start]

EndpLine(s, l) ==
  IF s.open # 0 /\ ~Same(s.procs[s.open].name, l.name, s.policy) THEN Refuse(Forget(s))
  ELSE [CloseRange(Forget(s)) EXCEPT !.open = 0]

EndLine(s, l) ==
  LET t     == CloseRange(Forget(s))
      label == First(Matches(s.labels, l.name, s.policy))
      proc  == First(Matches(s.procs, l.name, s.policy))
  IN  IF label = 0 \/ proc = 0 THEN Refuse(t)
      ELSE IF ~s.labels[label].isProc THEN Refuse(t)
      ELSE [t EXCEPT !.entry = proc, !.phase = "ended"]

OperandLine(s, l) ==
  IF Operand(s, l).kind = "error" THEN Refuse(s)
  ELSE Emit(s, <<Instruction(s, "mov", Operand(s, l))>>)

JumpLine(s, l) ==
  IF l.name \in Routines THEN Refuse(s)
  ELSE AddBranch(Emit(s, <<Instruction(s, "jmp", Nothing)>>), l.name)

CallLine(s, l) ==
  CASE l.name \in Routines -> IF s.irvine THEN Emit(s, <<Instruction(s, "routine", Nothing)>>)
                              ELSE Refuse(s)
    [] l.name \notin Routines ->
         AddCall(Emit(s, <<Instruction(s, "call", Nothing)>>), l.name, FALSE, 0)

\* The captures come first, one for each argument; the commit calls.
InvokeLine(s, l) ==
  LET n    == Len(l.args)
      refs == [i \in DOMAIN l.args |-> ArgumentOf(s, l.args[i])]
      captures == [i \in DOMAIN l.args |-> Instruction(s, "capture", refs[i])]
      last == IF n = 0 THEN "call" ELSE "commit"
  IN  CASE l.name \in Routines ->
             IF s.irvine /\ n = 0 THEN Emit(s, <<Instruction(s, "routine", Nothing)>>)
             ELSE Diagnose(s)
        [] l.name \notin Routines ->
             IF n > Capacity["arguments"] \/ \E i \in DOMAIN refs : refs[i].kind = "error"
             THEN Diagnose(s)
             ELSE AddCall(Emit(s, Append(captures, Instruction(s, last, Nothing))), l.name, TRUE, n)

\* The open procedure notes what its RETs remove.
RetLine(s, l) ==
  LET noted == IF s.open = 0 THEN s
               ELSE IF l.pops = -1 THEN [s EXCEPT !.procs[s.open].plain = TRUE]
               ELSE [s EXCEPT !.procs[s.open].pops = @ \cup {l.pops}]
  IN  Emit(noted, <<Instruction(s, "ret", Nothing)>>)

-----------------------------------------------------------------------------
(* After END: branches by the policies at their line, calls by the CASEMAP policy at their     *)
(* line, prototypes by the one the source ends with.                                           *)

BranchRefusedByName(s, f) ==
  \/ f.name \in Routines
  \/ Matches(s.symbols, f.name, f.policy) # {}
  \/ Only(Matches(s.equates, f.name, f.policy)) # 0
  \/ f.name \in Mnemonics /\ Fold[f.name] \notin f.disabled
  \/ First(Matches(s.labels, f.name, f.policy)) = 0

BranchRefused(s, f) ==
  LET label == First(Matches(s.labels, f.name, f.policy))
  IN  \/ f.name \in Routines
      \/ Matches(s.symbols, f.name, f.policy) # {}
      \/ Only(Matches(s.equates, f.name, f.policy)) # 0
      \/ f.name \in Mnemonics /\ Fold[f.name] \notin f.disabled
      \/ label = 0
      \/ s.labels[label].target = -1

InvokeFitsDespitePlainRet(s, f, proc) ==
  LET proto == First(Matches(s.protos, f.name, s.policy))
  IN  /\ proto # 0 => s.protos[proto].count = f.args
      /\ f.args = 0 \/ proc.pops = {4 * f.args}

InvokeFits(s, f, proc) ==
  LET proto == First(Matches(s.protos, f.name, s.policy))
  IN  /\ proto # 0 => s.protos[proto].count = f.args
      /\ f.args = 0 \/ (~proc.plain /\ proc.pops = {4 * f.args})

CallRefused(s, f) ==
  LET k == First(Matches(s.procs, f.name, f.policy))
  IN  \/ f.name \in Routines
      \/ k = 0
      \/ ~s.procs[k].runs
      \/ s.procs[k].start >= Len(s.code)
      \/ f.invoke /\ ~InvokeFits(s, f, s.procs[k])

NextInstruction(s, i) == IF i + 1 < Len(s.code) THEN i + 1 ELSE Len(s.code)

\* Where a call comes back to: the next instruction of its procedure, else the end of the code.
ReturnToken(s, i) ==
  LET k == First({k \in DOMAIN s.procs : s.procs[k].start <= i /\ i < s.procs[k].end})
  IN  IF k # 0 /\ i + 1 >= s.procs[k].end THEN Len(s.code)
      ELSE NextInstruction(s, i)

Resolved(s, i) ==
  LET bs == {k \in DOMAIN s.branches : s.branches[k].at = i /\ ~BranchRefused(s, s.branches[k])}
      cs == {k \in DOMAIN s.calls : s.calls[k].at = i /\ ~CallRefused(s, s.calls[k])}
  IN  IF bs # {}
      THEN   LET f == s.branches[CHOOSE k \in bs : TRUE]
             IN  [s.code[i] EXCEPT
                    !.target = s.labels[First(Matches(s.labels, f.name, f.policy))].target]
      ELSE IF cs # {}
      THEN   LET f == s.calls[CHOOSE k \in cs : TRUE]
             IN  [s.code[i] EXCEPT
                    !.target = s.procs[First(Matches(s.procs, f.name, f.policy))].start,
                    !.back = ReturnToken(s, i - 1)]
      ELSE s.code[i]

Faults(s) == Cardinality({k \in DOMAIN s.branches : BranchRefused(s, s.branches[k])})
               + Cardinality({k \in DOMAIN s.calls : CallRefused(s, s.calls[k])})

\* One diagnostic for every fixup that fails, as far as they fit, and one for source after END.
ResolveAll(s, more) ==
  LET faults == Faults(s) + (IF more THEN 1 ELSE 0)
      room   == Capacity["diagnostics"] - s.diagnostics
  IN  [s EXCEPT !.code = [i \in DOMAIN @ |-> Resolved(s, i)],
                !.diagnostics = IF faults <= room THEN @ + faults ELSE Capacity["diagnostics"],
                !.refused = @ \/ (faults > 0 /\ room > 0),
                !.overflowed = @ \/ faults > room,
                !.phase = "done"]

-----------------------------------------------------------------------------
(* The loops of vm_parser_parse_program *)

Init == topic \in Topics /\ source = <<>> /\ p = Empty

\* The lines a source of the family may go on with.
Offered ==
  LET k == Len(source) + 1
      n == Len(topic.first) + topic.more
  IN  IF k <= Len(topic.first) THEN {topic.first[k]}
      ELSE IF k <= n THEN topic.lines
      ELSE {topic.last[i] : i \in {k - n} \cap DOMAIN topic.last}

Anywhere == {"preamble", "data", "code"}
Reading(phases) == p.go /\ p.phase \in phases
Lines(ops) == {l \in Offered : l.op \in ops}
Now == [p EXCEPT !.line = @ + 1]

Take(l, s) == source' = Append(source, l) /\ p' = s /\ UNCHANGED topic

Include   == Reading({"preamble"}) /\ \E l \in Lines({"include"}) :
               Take(l, Checked([Now EXCEPT !.irvine = TRUE]))
StartData == Reading({"preamble", "data"}) /\ \E l \in Lines({".data"}) :
               Take(l, [Now EXCEPT !.phase = "data"])
StartCode == Reading({"preamble", "data"}) /\ \E l \in Lines({".code"}) :
               Take(l, [Now EXCEPT !.phase = "code"])

Equate    == Reading(Anywhere) /\ \E l \in Lines({"equate"}) : Take(l, Checked(EquateLine(Now, l)))
Casemap   == Reading(Anywhere) /\ \E l \in Lines({"casemap"}) :
               Take(l, Checked(CasemapLine(Now, l)))
Nokeyword == Reading(Anywhere) /\ \E l \in Lines({"nokeyword"}) :
               Take(l, Checked(NokeywordLine(Now, l)))
Proto     == Reading(Anywhere) /\ \E l \in Lines({"proto"}) : Take(l, Checked(ProtoLine(Now, l)))
DeclareData == Reading({"data"}) /\ \E l \in Lines({"data"}) : Take(l, DataLine(Now, l))

Local     == Reading({"code"}) /\ \E l \in Lines({"local"}) : Take(l, Checked(LocalLine(Now, l)))
Label     == Reading({"code"}) /\ \E l \in Lines({"label"}) : Take(l, LabelLine(Now, l))
Proc      == Reading({"code"}) /\ \E l \in Lines({"proc"}) : Take(l, ProcLine(Now, l))
Endp      == Reading({"code"}) /\ \E l \in Lines({"endp"}) : Take(l, EndpLine(Now, l))
End       == Reading({"code"}) /\ \E l \in Lines({"end"}) : Take(l, EndLine(Now, l))
Plain     == Reading({"code"}) /\ \E l \in Lines({"plain"}) :
               Take(l, Emit(Now, <<Instruction(Now, "nop", Nothing)>>))
Access    == Reading({"code"}) /\ \E l \in Lines({"write", "read", "offset"}) :
               Take(l, OperandLine(Now, l))
Jump      == Reading({"code"}) /\ \E l \in Lines({"jump"}) : Take(l, JumpLine(Now, l))
Call      == Reading({"code"}) /\ \E l \in Lines({"call"}) : Take(l, CallLine(Now, l))
Invoke    == Reading({"code"}) /\ \E l \in Lines({"invoke"}) : Take(l, Checked(InvokeLine(Now, l)))
Ret       == Reading({"code"}) /\ \E l \in Lines({"ret"}) : Take(l, RetLine(Now, l))
Bad       == Reading(Anywhere) /\ \E l \in Lines({"bad"}) : Take(l, Refuse(Now))

\* The source may end anywhere; one that is all preamble is complete when anything was reported.
EndOfSource ==
  /\ Reading(Anywhere) /\ Len(source) >= Len(topic.first)
  /\ p' = [(IF p.phase = "preamble" /\ p.diagnostics > 0 THEN p ELSE Refuse(p))
             EXCEPT !.phase = "done"]
  /\ UNCHANGED <<topic, source>>

Abandon == p.phase \in Anywhere /\ ~p.go /\ p' = [p EXCEPT !.phase = "done"]
             /\ UNCHANGED <<topic, source>>

Resolve == /\ p.phase = "ended"
           /\ \E more \in BOOLEAN : p' = ResolveAll(p, more)
           /\ UNCHANGED <<topic, source>>

Next == \/ Include \/ StartData \/ StartCode \/ Equate \/ Casemap \/ Nokeyword \/ Proto
        \/ DeclareData \/ Local \/ Label \/ Proc \/ Endp \/ End \/ Plain \/ Access \/ Jump
        \/ Call \/ Invoke \/ Ret \/ Bad \/ EndOfSource \/ Abandon \/ Resolve

Spec == Init /\ [][Next]_vars

-----------------------------------------------------------------------------
(* What the source says, line by line *)

Highest(S) == IF S = {} THEN 0 ELSE CHOOSE i \in S : \A j \in S : j <= i
At(ops) == {k \in DOMAIN source : source[k].op \in ops}

PolicyAt(k) == LET changes == {i \in At({"casemap"}) : i <= k}
               IN  IF changes = {} THEN "all" ELSE source[Highest(changes)].policy
Like(i, k)  == Same(source[i].name, source[k].name, PolicyAt(k))
Bounds == At({"proc", "endp", "end"})

\* No procedure begins or ends from line i on, up to line k.  The PROC line k belongs to, when the
\* lines between its nearest boundaries are a whole body.
SameBody(i, k) == \A b \in Bounds : ~(i < b /\ b <= k)
NextBound(k)   == First({b \in Bounds : b > k})
ProcOf(k) == LET b == Highest({b \in Bounds : b < k})
             IN  IF b # 0 /\ NextBound(k) # 0
                 THEN IF source[b].op = "proc" /\ source[NextBound(k)].op # "proc" THEN b ELSE 0
                 ELSE 0

FirstCodeAfter(k) == First({i \in DOMAIN p.code : p.code[i].line > k}) - 1

TypeOK ==
  /\ topic \in Topics /\ source \in Seq(Line)
  /\ p.line \in 0 .. Len(source) /\ p.policy \in Policies /\ p.disabled \subseteq Disableable
  /\ p.open \in 0 .. Len(p.procs) /\ p.entry \in 0 .. Len(p.procs)
  /\ p.pending \subseteq DOMAIN p.labels /\ p.diagnostics \in 0 .. Capacity["diagnostics"]
  /\ Len(p.code) <= Capacity["code"]

(* An accepted program is one the executor may load: its procedure ranges lie in order and do  *)
(* not overlap, one of them is the entry, every branch and call leads to an instruction and    *)
(* every call comes back to one or to the end of the code.  PROC does not close the procedure  *)
(* before it, ENDP accepts that none is open, and targets come from other tables than ranges.  *)
(* A source that is only preamble is accepted without anything to run.                         *)
ImageFitsExecutor ==
  Accepted =>
    /\ \A k \in DOMAIN p.procs :
         p.procs[k].start <= p.procs[k].end /\ p.procs[k].end <= Len(p.code)
    /\ \A j, k \in DOMAIN p.procs : j < k => p.procs[j].end <= p.procs[k].start
    /\ p.entry \in DOMAIN p.procs \/ (p.code = <<>> /\ p.procs = <<>>)
    /\ \A i \in DOMAIN p.code :
         /\ p.code[i].op \in {"jmp", "call", "commit"} => p.code[i].target \in 0 .. Len(p.code) - 1
         /\ p.code[i].back \in 0 .. Len(p.code)

(* In an accepted program a branch goes to the first instruction after the label line its name *)
(* means under the CASEMAP policy at the branch, a call to the first one of the procedure, and *)
(* the call comes back to the next instruction of its own procedure, or to the end of the code *)
(* when it is the last one.  (Of several declarations that match the first is taken; a         *)
(* procedure another PROC cuts off has no body.)                                               *)
CodeMeansItsSource ==
  Accepted =>
    \A i \in DOMAIN p.code :
      LET c == p.code[i]
          k == c.line
          declared == {d \in At(IF c.op = "jmp" THEN {"label", "proc"} ELSE {"proc"}) : Like(d, k)}
          own == i < Len(p.code) /\ p.code[i + 1].line < NextBound(k)
      IN  /\ c.op \in {"jmp", "call", "commit"} =>
               \A d \in declared : declared = {d} => c.target = FirstCodeAfter(d)
          /\ c.op \in {"call", "commit"} /\ ProcOf(k) # 0 =>
               c.back = IF own THEN i ELSE Len(p.code)

(* In an accepted program every RET line of a procedure that INVOKE calls with arguments       *)
(* removes exactly their bytes, and there is one; a prototype of its name, when the policy      *)
(* never changes, has as many parameters.  RETs are noted for the procedure that is open, the  *)
(* calls are checked after END.                                                                *)
InvokeMatchesCallee ==
  Accepted =>
    \A k \in At({"invoke"}) : source[k].name \notin Routines =>
      LET n == Len(source[k].args)
          callees == {d \in At({"proc"}) : Like(d, k)}
          rets(d) == {r \in At({"ret"}) : r > d /\ SameBody(d, r)}
      IN  /\ n > 0 => \A d \in callees : callees = {d} =>
               rets(d) # {} /\ \A r \in rets(d) : source[r].pops = 4 * n
          /\ At({"casemap"}) = {} =>
               \A d \in At({"proto"}) : Like(d, k) => source[d].count = n

(* In an accepted program no declaration took a name that meant exactly one earlier            *)
(* declaration under the policy in force, and a LOCAL shares its name with nothing of its own  *)
(* procedure.  Each kind of declaration searches the tables with its own conditions.           *)
DeclarationsStayApart ==
  Accepted =>
    /\ \A k \in At({"data", "equate", "label", "proc"}) :
         Cardinality({i \in At({"data", "equate", "label", "proc"}) : i < k /\ Like(i, k)}) # 1
    /\ \A i \in At({"proc", "local", "label"}), k \in At({"local", "label"}) :
         /\ i < k /\ SameBody(i, k)
         /\ "local" \in {source[i].op, source[k].op}
         => ~Like(i, k)

(* INCREMENTAL_IMPLEMENTATION_GUIDE.md: a LOCAL shadows a global symbol or equate inside its   *)
(* procedure.  INVOKE arguments and source operands search the global names first.             *)
LocalsShadowGlobals ==
  Accepted =>
    \A i \in DOMAIN p.code :
      LET k    == p.code[i].line
          line == source[k]
          nth  == Cardinality({j \in DOMAIN p.code : j <= i /\ p.code[j].line = k})
          name == IF line.op = "invoke" THEN line.args[nth].name ELSE line.name
      IN  p.code[i].op \in {"mov", "capture"} =>
            \A d \in At({"local"}) :
              d < k /\ SameBody(d, k) /\ Same(source[d].name, name, PolicyAt(k))
                => p.code[i].ref.kind = "local"
=============================================================================
