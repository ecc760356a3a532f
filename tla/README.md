# Verification of the MASM32 educational simulator

The simulator runs MASM32 programs in a web page.  A page collects the source
and the settings, a worker hands them to a C program compiled to WebAssembly,
and the C program parses the source, lays out a simulated memory, and steps a
virtual machine until the program halts, fails, or reaches its instruction
limit.  This directory holds TLA+ models of the parts whose behaviour is hard to
get right and hard to test, TLC runs over small instances, and TLAPS proofs for
every instance.  All paths below are relative to the repository's root.

## 1. The system

| component | where | state | operations |
|---|---|---|---|
| Procedure machine | `src/core/vm_exec.c` | registers, instruction pointer, call depth, pending helper returns, USES frames, LOCAL frames and descriptors, captured INVOKE arguments, three entry-procedure flags, status | `vm_step`: one instruction; `vm_set_procedure_boundaries`, the policy setters |
| Checked memory | `src/core/vm_memory.c` | five regions with bytes and permissions; the recorder of changed bytes | init, deinit, read, write, load bytes, clear changes |
| Memory layout | `src/core/vm_layout.c` | the policy; the seed of the fresh randomizer | build automatic, build randomized, validate |
| CPU registers and flags | `src/core/vm_cpu.c` | eight registers, flags and their validity | aliases, flag updates |
| Program Console | `src/core/vm_console.c` | text, counts, limits, rejection record | init, reset, configure limits, append, deinit |
| IR, diagnostic policy, API entry | `src/core/vm_ir.c`, `vm_diagnostic_policy.c`, `masm32_sim_api.c` | none | classification and naming |
| Lexer, parser | `src/parser/lexer.c`, `parser.c` | cursor, section, open procedure, symbols, fixups | one handler per directive and instruction form |
| Symbols, object map | `src/parser/symbols.c`, `object_map.c` | tables | add, find, classify a range |
| Source-run loop | `src/wasm/wasm_api.c` | execution status, initialized bytes, lists of warnings and changes, collected results | parse, lay out, relocate, load, step with the policies' checks before and after, collect, format |
| Worker and page | `web/src/worker.js`, `main.js`, `protocol.js` | runtime promise, panels | PING/PONG, READY, RUN_SOURCE, RUN_RESULT, ERROR |
| Settings and formatting | `web/src/settings.js`, `formatters.js`, `collapsible.js` | form values | read, sanitize, render |

The page posts messages to the worker; the worker calls one exported C function
per run; that function owns a fresh VM, calls the parser, then calls `vm_step`
in a loop and reads the VM's last-step record after each call; the VM calls the
memory, the CPU helpers and the console.  C code never calls back.

What is hard in it:

* control transfers nobody wrote a test for: jumps into and out of helper
  procedures, helpers left without RET, recursion into the entry procedure,
  empty procedures, an ESP aimed elsewhere.  The machine keeps four stacks in
  step (return tokens in memory, USES frames, LOCAL frames, LOCAL descriptors)
  and two counters, and any of these jumps can pull them apart;
* instructions that read, check and write several places and may be refused in
  the middle;
* bounded arrays and counters at their limit;
* the entry procedure's flags, computed before one instruction and used after
  another;
* a loop that must end;
* flags an instruction leaves undefined, used long after by a jump, and warned
  about by a table that must agree with forty handlers;
* checks made twice: what an instruction will access is predicted before the
  step, from the operands, and read back after it, from a list of four places;
* names resolved at three different times, as their line is read, when the next
  instruction comes, and after END, under a policy that may change in between;
* the console's rejection record, which outlives the append that set it;
* answers matched to requests by order alone, requests sent before the artifact
  has loaded, and an artifact older than the scripts that call it.

`PROJECT.json` lists each hazard at its line, with the property that covers it.

What makes each component correct: for the procedure machine, that calls nest
and returns restore, that limits hold, that a refused instruction changes
nothing, that crossing a procedure end is reported; for the arithmetic, that
results and flags are those of the instruction, whatever the width, and that
nothing depends on an undefined flag; for the console, that output is bounded,
all or nothing, and what the program printed; for memory, that a checked access
stays in one region with the permission, and that the recorder tells the truth;
for the layout, that regions never overlap and sizes are honoured; for the
parser, that the code means what the source says and is fit for the executor;
for the source-run loop, that the policies stop and report exactly what they are
about, and changes are listed; for the page, that what is shown belongs to the
run the reader asked for, with the settings the reader chose.

## 2. The modules

| module | models | builds on |
|---|---|---|
| `VmExec` | the procedure machine: `vm_step` and the loop that drives it | |
| `Programs` | sources small enough to enumerate, and how the parser links them | |
| `VmExecCalls` | `VmExec` with the history of calls, and programs that keep their own stack | `VmExec`, `Activations` |
| `Activations` | abstract: activations that nest and give back what they found | |
| `VmCpu` | registers and their aliases, flags, their validity and origin | |
| `VmAlu` | the instructions that compute, and the checks before them | `VmCpu` |
| `VmConsole` | the Program Console | |
| `VmIrvine` | the Irvine32 output routines on the console | `VmConsole` |
| `Layout` | layout policies: the default one, validity, the size-only configuration | |
| `VmLayout` | the automatic and the randomized builders | `Layout` |
| `VmMemory` | checked memory, its loaders and its change recorder | `Layout` |
| `ObjectMap` | declared storage: relocation, lookup, classification of a range | `Layout` |
| `SourceRun` | relocation, loading and the stepping loop with its policies | `ObjectMap`, `VmMemory` |
| `ParserCode` | the pass over the source that emits code | |
| `Page` | page, worker and artifact | |
| `MC...` | instances for TLC | the module named |
| `VmExec_proofs` | proofs | `VmExecCalls` |
| `VmAlu_proofs`, `SourceRun_proofs`, `ParserCode_proofs`, `Page_proofs` | proofs | the module named |
| `VmMemory_proofs` | proofs about checked memory and about the builders | `VmMemory`, `VmLayout` |
| `VmConsole_proofs` | proofs about the console and its routines | `VmIrvine` |
| `Recursion` | lemmas on recursive functions and folds | |

The parts meet where the code hands state over.  `ParserCode` yields images, and
`VmExec` starts from any image of the shape `ImageFitsExecutor` states.
`VmIrvine` drives the actions of `VmConsole`.  `SourceRun` uses the layouts of
`Layout`, the map of `ObjectMap` and the accesses, loaders and permissions of
`VmMemory` as they are.  `VmExec` and `VmAlu` split the instructions of one
`vm_step` between them: those that transfer control or move the stack, and
those that compute.

A definition introduced by the words "A slip" is not the code: it is a mistake
the code might have made, used to confirm that a property notices it.

### VmExec

One action is one instruction, from the prologue of `vm_step` to its epilogue.
The action's shape follows the function's: `Fetch(op)` is the prologue (halted,
end of the code, stop at the entry's end, `Entered` for the checks on USES and
LOCAL entry); an operator `...Outcome(x)` is the opcode handler, a function from
the machine to a status and the machine it leaves behind, whose chain of IFs is
the order of the handler's early returns; `Retire` is the epilogue of a
successful step and `Refuse` that of a failed one.

| state | in the code |
|---|---|
| `image`, `settings` | `Vm.program`, the procedure boundaries, the policies |
| `m.reg`, `m.mem` | `Vm.cpu`, `Vm.memory` |
| `m.uses` | the array of USES frames and its count |
| `m.locals`, `m.descriptors` | the array of LOCAL frames; the count of LOCAL descriptors |
| `ip`, `count`, `halted` | the fields of that name |
| `helpers`, `depth` | `active_helper_return_count`, `current_call_depth` |
| `rootStream`, `eligible`, `entryFrame` | the three flags about the entry procedure |
| `pending` | captured INVOKE arguments |
| `fell`, `status` | the last step's fallthrough diagnostic and its status |

A refused step does not undo what the prologue or the handler already did: the
outcome carries the half-changed machine, and `Refuse` keeps it.  The loop of
the source run appears as `MayStep`, `LimitExceeded` and `CodeFellOffEnd`: it
checks the instruction limit first, then steps, and ends at the first status
that is not OK.

Addresses count DWORDs, the stack region and a set of data words are mapped,
and arithmetic does not wrap (an address below zero is as unmapped as one at the
top).  Conditional jumps go either way.  Every LOCAL is one DWORD with one
descriptor.

### VmExecCalls and Activations

`VmExecCalls` adds two history variables: `calls`, the outstanding calls (the
callee, where the call must come back to, the machine before it), and `over`,
what ended the run.  `Activations` says what a call promises in four actions: `Work`, `Call`, `Return` and `End`.  An
activation knows where its caller resumes, which registers get which contents
back, which instructions are its own and which words belong to its callers.
The refinement mapping takes these from where the executor keeps them, and that
is the point of it: the resume point from the token in simulated memory, the
register contents from the words the callee pushed.  `Activations` requires that
they still say the same when the activation returns.  The frame of the entry
procedure counts as made before the first instruction.

Both properties are about programs that keep their own stack.  `KeepsStack` says
what that means of the code alone: a shape tells, for each instruction, how many
words its procedure has pushed and whether its LOCAL frame is up; instructions
lead where the shape continues, write registers that are not the stack's, the
procedure's own words and locals or memory that is no stack, call procedures
whose RETs take the arguments off, and return with nothing left above the frame.
`MCVmExecCalls` computes a shape for each of its programs, and TLC evaluates that
they all have one (`Disciplined`).

### VmCpu and VmAlu

`VmCpu` has no state: a CPU is a record of registers, flags, the instruction
each undefined flag stems from, and the families written.  Every flag helper of
`vm_cpu.c` is an operator on it, at a word of any width: the widths and sign
bits are constants.  `VmAlu` has one `...Outcome` per handler, like `VmExec`,
over a CPU and a memory of DWORD cells, some of them read-only; operands are
checked in the handler's order, and a handler that restores its copy of the CPU
does so here.  `twin` is the same program on a CPU that differs in the values of
undefined flags and nothing else; `compared` remembers the two values the flags
stand for.  The two checks the source run makes first (consumers of undefined
flags, shift counts that leave flags undefined) are guards of the step.

### VmConsole and VmIrvine

The console's operations are one action each.  A span is a pair of a length and
a number of line feeds.  `realloc` may fail at each growth; `SizeMax` is the
edge of `size_t`, and the doubling of the capacity is kept exact.  `rejected` is
history: the last span a limit rejected.

In `VmIrvine` what a routine prints is a sequence of characters, produced by
the routine's own loop of divisions or masks, and handed to the console's
`AppendSpan`.  Besides the routines there is a `Host` action: any operation of
the console, called from outside the program.  `WriteString` scans memory up to
a limit and copies the string, which needs memory of its own; the source run
scans the same string before the step, to warn about bytes nobody initialized,
and predicts whether the console will take it.

### Layout and VmLayout

`Layout` has no state: `DefaultPolicy`, `PolicyIsValid` and `PolicyFromConfig`
are the functions of the same meaning.  `VmLayout` builds: `Automatic` gives the
verdict in the order of the code's checks, `Sized` the policy, `Placement` and
`Placed` do the same for the randomized modes.  The generator of fresh seeds is
the only state that outlives a call.  Sums are compared in 64 bits in the code
and in integers here; the 32-bit additions that may overflow are compared with
`UMax`.  `Mix` and `NextSeed`, the bit mixing and the linear congruential step,
are arbitrary functions on words, so nothing depends on their quality.  Only the
limits of the selected safety tier are kept.  Two checks cannot fail where they
stand and are not modelled: the heap that fits below a colliding stack
(`vm_layout.c:359`), and the limit re-checked while placing regions
(`vm_layout.c:676`).

The randomized modes refuse a guard gap that is no multiple of the alignment as
an invalid argument, after all other checks, for every program and seed; the
automatic mode accepts it.  `InvalidOnlyForBadArguments`, one half of
`RefusalsAreHonest`, names this case.

### VmMemory

Five regions, each with a base, a size, permissions and bytes.  An access is
validated as in `vm_memory_validate_access`; the optional diagnostic is a
Boolean, since whether one is passed changes the status.  Loaders bypass
permissions and recorder.  Initialization may fail at any of the allocations,
and the regions made before are released, so a failure leaves memory without
regions.  `before` and `loaded` are history: the bytes when the recorder was
last cleared and whether a loader ran since.  No caller asks for an execute
access, so only reads and writes are modelled.

`VmExec` abstracts this module to one set of mapped words: its programs access
aligned DWORDs of writable regions only.

### ObjectMap and SourceRun

`ObjectMap` has no state.  `Relocated` moves an address from the fixed layout
the parser emits to the selected one; `Entries` is the map and `MapStatus` what
refuses it, its capacity included; `Classify` says what a range is to the
declared objects around it.

`SourceRun` is one run after parsing.  The initial states are those the
preparation leaves: symbols relocated, the map built and the images loaded, or a
failed run.  `TakeTurn` is one turn of the loop, whole: the accesses the
instruction plans, the section, object and uninitialized-read policies on them,
the step with its list of accesses, the policies after the step, the marking of
initialized bytes, and the rows of changes; `StopAtLimit` is the turn that
finds the instruction limit reached.

| state | in the code |
|---|---|
| `run` | settings, selected layout, symbols, images, procedures |
| `entries` | the declared-object map |
| `vm` | memory, ESP, EBP, LOCAL frames, and the last delta's accesses (`made`) |
| `marks` | the initialized bytes of images and of LOCALs, and whether that list overflowed |
| `reports` | how long each list of warnings and of changes is, and the last row |
| `phase` | running, finished, stopped by a policy, or failed |

The program unfolds as it runs: each turn takes any instruction the current
procedure may hold, so all programs up to the instruction limit are covered
without being listed.  Of the executor's instructions those are kept whose
accesses differ; of registers ESP and EBP; what others hold is chosen.  Calls
nest once.  `touched` is history: the bytes the program wrote under their names.

An access belongs to a LOCAL by its address: where frames overlap, because ESP
was moved up into a live frame before a call, the code takes the oldest LOCAL
around it (`LocalAround`).  The properties speak of all the LOCALs an access
begins in, and differ from `Apart` states only there.

### ParserCode

The parser reads lines, and one action reads one.  `p` is `VmParserState` with
the result it fills; an operator `...Line(s, l)` is the handler of a line's form
and ends in a state that goes on, or in one of the three ways the code stops: a
recorded error, a full table, a full list of diagnostics.  `Resolve` is what
happens after END: branches, calls and INVOKEs are resolved in the code's order.

Names are model values and `Fold` gives their lower-case spelling, so CASEMAP
and the case-insensitive tables are exact.  All tables have the code's lookup:
the first match for labels, procedures, prototypes and LOCALs, the only match
for data symbols and equates.  Data are DWORDs, a LOCAL line declares one name,
and a line refused for its form is the line `bad`.  A `Topic` is a family of
sources: fixed first and last lines, and any lines of a set between them.

### Page

Page and worker exchange messages through two queues in order, as `postMessage`
does.  Pressing Run empties the panels and sends the source with the settings;
the worker starts, loads its artifact at any time or never, and answers each
request; a run may also throw.  The settings groups are in the order in which
their exports were added: an export takes its own group and those before it.
The chain of `if`s that chooses an export (`worker.js:221-353`) is `Passed`, and
the chain of checks that refuses a run (`worker.js:85-219`) is `Lacks`; they are
separate code and must agree.  An artifact is how it loads, its set of exports,
and whether its build is current.  Programs, results and the formatting of
panels are left out; `asked` is history.

## 3. The runs

| run | instance | distinct states |
|---|---|---|
| `wild` | an entry of two arbitrary instructions and a helper of at most two, in any combination of USES and LOCAL; every operand and target some handler refuses, after each of five setups | 121996 |
| `crossing` | three procedures without RET in all short shapes, looping and recursing, an empty one included, both policies that report, both entry-end modes, under fairness | 104275 |
| `disciplined` | helpers with balanced stacks, recursion to depth 3, two USES registers, two LOCALs, INVOKE arguments | 17752 |
| `alu` | bytes of 4, words of 8 and doublewords of 12 bits; every instruction after one that prepares flags or the upper register | 48032 |
| `console` | console and routines, four-bit registers, numbers in base three and four, spans and limits around each limit, `SizeMax` 5 | 33618 |
| `layout` | 19 base policies, 1152 programs, words of six bits | 89114 |
| `memory` | regions of one or two bytes, side by side or apart, a recorder of two changes | 18745 |
| `source_run` | three instructions out of 39, six combinations of policies, two layouts, with and without LOCALs | 456763 |
| `parser` | families of sources around labels, boundaries, declarations, LOCALs, INVOKE, reserved words and full tables | 273334 |
| `page` | artifacts of every age and every way to load, three presses, two controls | 233212 |
| `first_write`, `local_shadowing` | the instances of `source_run` and `parser`; each ends in a counterexample (section 4) | |

* `wild`: the depth count is the number of outstanding helper returns and stays
  within the limit; the root code-stream flag is never set inside a helper; the
  frame arrays keep their bounds; descriptors match frames; LOCAL frames lie in
  the stack, after any jump, unbalanced push or assignment to ESP; a refused
  instruction other than RET and EXIT leaves the machine as it was, apart from
  an entry frame this step made.
* `crossing`: straight movement into another procedure is reported, and stops
  the run under the error policy; the stop at the entry's end stays possible
  exactly while the program has not left its entry; every run ends.
* `disciplined`: frames mirror the outstanding calls, and the executor
  implements nested activations: no step between a call and its return
  disturbs what the return will use or what belongs to callers.
* `alu`: results and valid flags are those of a reference definition in plain
  integers, a division is refused only when no quotient fits, a refused
  instruction changes nothing; every conditional jump decides the order its
  mnemonic names; under the error policy nothing depends on an undefined flag;
  the prediction made before a shift is what the shift does; a register called
  seeded still holds its startup value.
* `console`: limits and the record of rejection hold through every order of
  operations; a failed call changes no output; what was printed reads back as
  what was given; a WriteString warns exactly when it prints.
* `layout`: a built layout has room for what was asked, keeps the gaps and the
  random range, and a fresh one can be rebuilt from its recorded seed; refusals
  blame the real cause, and the limit a diagnostic quotes is one that helps.
* `memory`: regions are disjoint; replaying the recorder gives the bytes there
  are and undoing it those there were; a recorder that says it overflowed is
  full; writes read back; code and constants change only through loaders.
* `source_run`: an instruction let through by strict policies stays inside what
  they protect, and what they stop has changed nothing unless an access ran out
  of a LOCAL it did not name; a warning is listed exactly when an access is what the policy is
  about; a read is called uninitialized exactly when it takes bytes the program
  never wrote under their names; a change to a variable or a PUSH is a row with
  the right bytes.  Exceptions named in the properties are those of section 4.
* `parser`: an accepted program is an image fit for the executor; branches,
  calls and return points lead where the lines of the source say; an INVOKE and
  its callee agree on bytes and prototypes; declarations do not take each
  other's names.
* `page`: once nothing is under way the page shows the answer to the last run;
  a changed setting reached the run on display or the run was refused; every
  run is answered even if it was asked for before the artifact had loaded.

**Bounds.**  In the procedure machine the interesting events are relative to
limits, so the limits are small and reached: two or three frames, three to five
descriptors, depth one to three, a stack of nine to fourteen words.  Programs
of two procedures and two instructions each reach a jump into a helper, out of
it, and a call after either; a third procedure and an empty one are added where
adjacency matters.  The instruction limit (10 to 40) cuts loops after several
rounds, enough to fill the arrays by leaking one frame per round.

In the arithmetic the three widths differ as in the code (an upper half above
each), operands start at zero, one, both sides of each sign bit and all ones,
and two instructions are enough for one to leave behind what the other misreads.
In the console a limit is met by one routine or by several; the longest number
is five characters and more than a limit.

In memory a byte has two values, which is enough for a write to change, keep or
restore it; two regions touch and two are apart, so that an access can run into
a neighbour, a gap and the end of the word.  A recorder of two changes is
straddled by a two-byte write.  In the layout a word has six bits, so that each
sum can pass the end of the word, each region its maximum, and the stack both
sides of the heap.

In the source run bytes are nibbles and a DWORD is two of them, variables of one
and two bytes have a gap between them, and the lists of four accesses (the
code's own number), two warnings and two marks fill up.  Three instructions
suffice for a write, a call or a move of ESP, and a read.  In the parser every
family has at most five free lines among up to fifteen, and its tables, of two
to five entries, can be filled.  In the page three presses let two runs be on
their way when a third is asked for.

**Fairness.**  `crossing` assumes `WF_vars(Step)`: the run loop
(`src/wasm/wasm_api.c:9447`) is a `while` that steps again as long as the status
is OK and the machine is not halted; nothing else runs in that thread.  `page`
assumes that both event loops go on (`Receive`, `Handle`) and that a worker's
script either starts or fails to; a run ends because of the instruction limit,
which is what `crossing` shows.  Nothing is assumed about loading: it may hang
for ever, and runs are answered all the same.

**Deadlock** is checked except in `source_run`, `parser` and the two runs on
their instances, where a run ends and a source comes to its end.  Elsewhere a
program that ended stutters through `Finished`, a page nobody uses through
`Stop`, and in the other modules some call is always possible.

## 4. Where code and documents disagree

Two disagreements have runs that show them:

| run | what happens | what is said |
|---|---|---|
| `first_write` | the first step makes the entry procedure's LOCAL frame, whose four accesses fill the access list (`src/core/vm_exec.c:6082`, `1460`, `1498`), so the first instruction's own write to a variable is neither listed as a change nor remembered as an initialization, and a later read of the variable is called uninitialized | `docs/FULL_IMPLEMENTATION_SPEC.md:1191` |
| `local_shadowing` | INVOKE arguments, and source operands that name an equate, find the global name before the LOCAL (`src/parser/parser.c:9771`, `9841`, `9857`, `7411`) | `docs/INCREMENTAL_IMPLEMENTATION_GUIDE.md:24201` |

Others were met on the way and are what the models do; where a property would
trip over one, its statement names the exception.

In the executor:

* INVOKE of the procedure declared next counts as falling into it
  (`src/core/vm_exec.c:614`; `docs/FULL_IMPLEMENTATION_SPEC.md:486`).
* A jump behind the first instruction of a USES procedure runs its body without
  a frame (`src/core/vm_exec.c:598`; `docs/SUPPORTED_SYNTAX.md:74`).
* RET releases the LOCAL frame, and so moves ESP, before it rejects the token
  (`src/core/vm_exec.c:4845`; `docs/SUPPORTED_SYNTAX.md:620`).
* With the USES array full a refused CALL has already moved ESP
  (`src/core/vm_exec.c:4600`, `4705`).  `RefusedStepChangesNothing` excludes
  this case and RET.
* An empty procedure declared before a USES procedure hides its USES list from
  CALL (`src/core/vm_exec.c:548`).
* Without the optional diagnostic a range that crosses a region's end is
  reported as an unmapped address (`src/core/vm_memory.c:272`, `308`;
  `docs/FULL_IMPLEMENTATION_SPEC.md:5846`).

In the source run:

* The strict section policies stop an INVOKE only after its arguments and token
  were pushed, and reading an INVOKE argument is not planned, so an
  uninitialized one is not told (`src/wasm/wasm_api.c:3663`, `9512`;
  `docs/FULL_IMPLEMENTATION_SPEC.md:3071`, `3205`).
* An access through ESP that begins in a LOCAL and runs beyond it lies on the
  stack, which the strict object check in front of the step leaves out
  (`src/wasm/wasm_api.c:4084`); the one behind it finds the LOCAL (`3307`) and
  stops the run, with the write done (`docs/FULL_IMPLEMENTATION_SPEC.md:3073`,
  `docs/INCREMENTAL_IMPLEMENTATION_GUIDE.md:24923`).
* With a strict capacity and a warning image policy, one access is warned about
  twice (`src/wasm/wasm_api.c:3339`, `4104`).
* LOCAL bytes written through `[ebp-4]` or a pointer are not marked, so reading
  them by name is called uninitialized (`docs/FULL_IMPLEMENTATION_SPEC.md:3462`).
* The check that leaves an access to the executor takes `.code` for readable,
  and a policy's diagnostic replaces the executor's
  (`src/wasm/wasm_api.c:3787`; `docs/FULL_IMPLEMENTATION_SPEC.md:3119`, `5777`).
* A read at ESP is planned for every RET (`src/wasm/wasm_api.c:3532`), but the
  root RET reads nothing and a RET that releases a LOCAL frame reads elsewhere:
  with ESP at an uninitialized variable it is called an uninitialized read, or
  stopped for one, that is never made.
* The reads of the entry procedure's first instruction are planned before its
  LOCAL frame is there (`src/core/vm_exec.c:6082`): a read by ESP is looked up at
  the old ESP, and one that runs from a LOCAL into its neighbour is not told.
  `UninitializedReadsAreTold` leaves both to `ReadsOnStack`: a step that moves
  ESP for its frame, or the root RET, reads by ESP outside `.data` and `.CONST`,
  and inside the LOCAL it names.
* The root RET is stopped for a stack read it never makes
  (`docs/FULL_IMPLEMENTATION_SPEC.md:3738`); the section policies take every
  stack and heap access for a violation (`src/wasm/wasm_api.c:2634`).
* A randomized layout refuses a program with a constant operand before or behind
  its region; with ESP moved into `.data`, PUSH, CALL and INVOKE overwrite
  variables without a row.

In the parser:

* With two labels that differ in case, a branch under CASEMAP:ALL silently takes
  the first, and so does a call (`src/parser/parser.c:1243`, `13613`;
  `docs/FULL_IMPLEMENTATION_SPEC.md:769`).
* INVOKE looks its prototype up under the policy at the end of the source, so a
  correct program may be refused (`src/parser/parser.c:10651`;
  `docs/FULL_IMPLEMENTATION_SPEC.md:762`).
* A PROC inside an open one, one never closed and a stray ENDP are accepted
  (`src/parser/parser.c:10556`; `docs/SUPPORTED_SYNTAX.md:335`).
* A source that is preamble only is accepted and ends as an execution error
  after no instruction.  A label that collides with two data symbols which differ
  in case is accepted (`src/parser/parser.c:1268`).

On the page: if the last run fails after an earlier run's late result, the
earlier run's registers and console stay shown under the error (the messages are
those of the last run, as `SettledPageShowsTheLastRun` says); pressing Run clears
the line that says the worker is broken, and "Running source..." then stays.

## 5. The proofs

All theorems hold for every value of the constants that satisfies the module's
assumptions:

* `ConstantsAssumption`, `InputsAssumption` (executor): regions and registers are
  apart, images have the shape the parser gives them (ordered disjoint procedure
  ranges with one entry).
* `WidthsAssumption` (computing): there are three widths, each with a sign bit,
  the wider the larger.  `ProgramsAssumption`: instructions are instructions and
  a start is a freshly reset CPU over some memory.
* `ConsoleAssumption`, `IrvineAssumption`: a base has two digits at least, the
  characters that are not digits differ from those that are.
* `LayoutAssumption`, `MemoryAssumption`, and `BuilderAssumption`: base policies
  are policies whose maximal sizes end inside the address space.  The default
  policy's maxima are the distances to the next region, and nothing in the
  repository raises one (a size-only configuration only shrinks); without that,
  a quoted maximum may exceed what fits.
* `ObjectMapAssumption`, `SourceRunAssumption`, `LayoutsAssumption`, `SourcesAssumption`:
  an access list has three places at least (the code's has four) and the list of
  changes room for the bytes of one access, an instruction's absolute operand moves
  with `.data`, with `.CONST` or not at all, only one operand is in memory (the
  executor refuses two before any access, `vm_exec_operands_are_supported`) and what
  POP stores is a DWORD; a layout is a policy with separate
  regions, in which the capacities of `.data` and `.CONST` end inside the address
  space and a fixed layout has the fixed bases; the parser's symbols are symbols.
* `ParserAssumption`, `TopicsAssumption` (lines are lines), `PageAssumption`.

They say nothing of how large these sets, tables and numbers are.

| module | theorem | property | argument |
|---|---|---|---|
| `VmExec_proofs` | `CallDepthBounded` | `CallDepthWithinLimit` | `Control` |
| | `RootStreamOutsideHelpers` | `RootStreamOnlyWithoutHelpers` | `Control` |
| | `TypeCorrect` | `TypeOK` | `FramesInv` |
| | `FrameArraysBounded` | `FrameArraysWithinCapacity` | `FramesInv` |
| | `LocalFramesBounded` | `LocalFramesInsideStack` | `FramesInv` |
| | `DescriptorsAccounted` | `DescriptorsMatchFrames` | `FramesInv` |
| | `CrossingsReported` | `CrossingIsReported` | `FramesInv` |
| | `EntryEndStops` | `EligibleMeansInEntry`, given `InvokesLeave` | `FramesInv`, `EntryKept` |
| | `RefusalsChangeNothing` | `RefusedStepChangesNothing` | `FramesInv`, `FrameStillDue` |
| | `CallsMirrored` | `FramesMirrorCalls`, given `KeepsStack` | `CallsInv` |
| | `ActivationsImplemented` | `ImplementsActivations`, given `KeepsStack` | `ActivationsInv` |
| `VmAlu_proofs` | `UnwrittenStaysSeeded` | `UnwrittenKeepsStartup` | `MachineInv` |
| | `BranchesDecide` | `BranchesDecideOrder` | `ComparedInv` |
| | `PredictionsHonest` | `PredictionIsHonest` | one step |
| | `UndefinedFlagsStayPrivate` | `UndefinedFlagsDoNotLeak` | `TwinInv` |
| | `RefusalsKeepMachine` | | one step |
| | `ResultsExact` | `ResultsAreExact`, given the sign bits | one step |
| `VmConsole_proofs` | `TypeCorrect` | `TypeOK` | `Inv` |
| | `StaysWithinLimits` | `OutputWithinLimits` | `Inv` |
| | `RejectionsStayTrue` | `RejectionStaysTrue` | `Inv` |
| | `FailuresChangeNoOutput` | `FailureChangesNoOutput` | one step |
| | `PrintingIsExact` | `PrintedTextIsExact` | `IrvineInv` |
| | `WarningsMatch` | `WarningsMatchOutput` | `IrvineInv` |
| | `RoutinesKeepConsole` | `OutputWithinLimits` | `IrvineInv` |
| `VmMemory_proofs` | `RegionsStayDisjoint` | `RegionsDisjoint` | `Inv` |
| | `ProtectedBytesStay` | `OnlyLoadersChangeProtectedBytes` | `Inv` |
| | `WritesAreReadBack` | `WritesReadBack` | `Inv`, `Filled` |
| | `RecordsAreTrue` | `RecorderTellsTheTruth` | `Recorded` |
| | `LayoutsKeepTheirPromise` | `BuiltLayoutsKeepTheirPromise` | the last build |
| | `RefusalsHonest` | `RefusalsAreHonest` | the last build |
| `SourceRun_proofs` | `RunIsSound` | | `RunInv` |
| | `StrictRuns` | `StrictRunStaysInside` | `RunInv` |
| | `WarnedRuns` | `EscapesAreTold` | `RunInv` |
| | `ChangesListed` | `ChangesAreReported` | `RunInv` |
| `ParserCode_proofs` | `ParserTypeCorrect` | `TypeOK` | `IInv` |
| | `AcceptedImagesFit` | `ImageFitsExecutor` | `IInv` |
| | `DeclarationsApart` | `DeclarationsStayApart` | `Mirrored` |
| | `InvokesMatch` | `InvokeMatchesCallee` | `Mirrored` |
| | `CodeMeant` | `CodeMeansItsSource` | `Following` |
| `Page_proofs` | `SettingsReachRuns` | `ChangedSettingsReachTheRun` | `Inv` |
| | `LastRunShown` | `SettledPageShowsTheLastRun` | `InOrder` |

**Executor.**  `Control` joins the two counters to the flag: the flag may be set
only with no helper pending, and both counters move together.  Neither property
is inductive alone, because a step sets the flag from the counter and moves the
counter from the depth.

`FramesInv` says that the machine is `Safe`: typed, its arrays within capacity,
every LOCAL frame in the stack, the descriptors in use the sum over the frames,
and that the loaded image and captured arguments are typed.  Each `...Outcome`
operator has a lemma that it leaves a Safe machine behind whether it succeeds or
refuses; the steps then follow from the lemmas about `Refuse` and `Retire`.  The
sum is a fold over the stack of frames, which RET and a jump out of a procedure
shorten; `HeldThrough` follows it from one frame to the next.

`RefusalsChangeNothing` goes through the handlers: each checks before it
changes, and a handler that writes twice has made sure that the second write
cannot fail.  What a step may leave behind is the entry procedure's frame, and
`FrameStillDue` says why that is harmless: the frame is made by the first step or
never, so nothing was pushed before it.

`EntryEndStops` has a condition on the program, `InvokesLeave`: no INVOKE in the
selected entry commits to the entry itself or to the procedure that starts at its
ENDP.  The epilogue does not count such a commit as leaving (the first stays
inside, the second lands on the next index like any straight step) and keeps the
flag inside the callee, so the property does not hold of every program.
`EntryKept` adds to the property that a run with the flag has no helper pending,
which makes a RET inside the entry the root RET.

**Calls.**  `CallsMirrored` and `ActivationsImplemented` have two conditions.  Every
program has a shape with `KeepsStack`; without it the properties are false, since a
helper left by a jump leaves its frames behind.  And the word below the stack is no data word, as in the
fixed layout, whose heap ends at 0x00800000 and whose stack begins at 0x008F0000
(`vm_layout.h`): PUSH is refused because nothing is mapped there, and where a data
region lay flush against the stack it would go on below the frames the code checks.

The invariant cannot speak of the innermost call alone, because a RET has to find
its caller as a caller, with frames and words of its own.  `Nested` therefore says
of every open activation, at the machine its call left behind, that it is `Within`
its procedure: ESP and EBP are where its shape puts them, its LOCAL frame is on
top of the frames it found, the word under its frame is the caller's EBP; and that
its token and its callers' words are as its call left them (`Holds`), over the USES
frames its calls pushed.  `CallsInv` adds that nothing precedes the entry procedure's frame
(`Fresh`).  Each handler has a lemma that the innermost activation `GoesOn`: it
stays Within and changes no word above its own.  That lower activations are not
disturbed follows from the order of their places in the stack (`TokensStay`), by
least counterexample over the depth.  A call adds a level (`CallMade`), a RET
finds the level below (`Resumes`).  For the refinement, every step is `Working`,
`Calling` or `Returning`, and each maps to the abstract action of that kind: what
an open activation shows lies at or above the innermost one's lowest word
(`Rooted`), so equal words there are equal activations (`SameActivations`).

**Computing.**  `MachineInv` types the machine, and says with `Tracks` that a
register family not marked written, and the flags likewise, hold their startup
value; every write of a part marks its family.  `ComparedInv` keeps, behind CMP
and SUB, the three orders the flags encode: carry is the unsigned borrow, sign and
overflow differ exactly when the signed difference is negative.
`PredictionsHonest` is about announcing: the count alone tells, before a shift,
whether it will leave a flag undefined.  `TwinInv` runs the machine beside one that
started alike and differs in undefined flags only: `Twins` is agreement on all that
is defined, an instruction maps twins to twins unless it reads an undefined flag,
and under the error policy the check before the step refuses one that would.

**Results.**  `ResultsExact` has one condition, that the sign of a number of w bits
is its bit w - 1 (`SignBit[w] = 2^(w - 1)`), as in the code; the other theorems need
of widths only `WidthsAssumption`.  What an instruction wrote is read back from
register or memory by `RegisterReadBack`, `OperandReadBack` and `CommitReadBack`,
after which a goal is about numbers.  Sums and differences follow from their
carry, borrow and sign (`FlagsAreExact`).  A product is compared in two halves of the
width (`UnsignedProduct`, `SignedProduct`); a quotient and its rest are the only
ones (`OnlyQuotient`), so a division that found none in range is rightly refused.
Shifts and rotates are proved bit by bit, for every count: the installed provers
know nothing of powers of two with a variable exponent, so `PowerNext` has them from
the number of subsets of a set, and every later rule is about `BitOf` alone: the
bits below a power (`BitBelow`), of a quotient (`BitOfQuotient`), of a rest
(`RestBits`), of two parts side by side (`JoinedBits`), of a repeated sign
(`SignRepeats`).  Rotating is swapping two parts (`TurnedBits`); a rotation through
carry is one of w + 1 bits.  `MovesBits` states per operation where each bit comes
from, and `ShiftCpuShows` which flags are valid behind it and what they show.
Only divisions are refused for their numbers (`PlainHandlers`).

**Console.**  `Inv` ties the stored text's size, the capacity with room for the
terminator, the limits in force and the span that was rejected.  A released
console is all zero, so the invariant distinguishes it.  `Counted` adds that the
counts are those of the text.  A printed number is a recursive function of its
quotients; `DigitRule` and `Writes` take it one digit at a time, most
significant first, and Horner's rule reads it back.  A routine forecasts what the
console would answer before it warns, and the console's answer depends on the
length of the text alone, so warning and output agree.

**Memory.**  `Inv` adds to disjointness that the regions lie in the order of
their kinds, as a valid policy places them, and that none has more permissions
than its kind is granted; the second is what keeps a write out of constants.
`Filled` says that every address of a region holds a byte.  A value is spread
over bytes by its weights; `EncodedReadsBack` says that a narrower read of them
is the value modulo its range.  `Recorded` says of the recorder that some chain
of images leads from the bytes of the last clear to those of now, one recorded
change after the other (`Told`), unless it overflowed: each entry's old byte is
what the image before it holds.  Replaying and undoing are then walks along the
chain, in both directions.

**Layout.**  The builders need no strengthening, since an outcome depends on the
last call alone.  A size is rounded up and so never below what was asked for;
placing keeps it; the validity check at the end of both builders compares
neighbours, and `NeighboursSuffice` extends that to all regions.  A fresh layout
is built again because nothing in `Placement` tells the two randomized modes
apart (`AlikePlacedAlike`).  `RefusalsHonest` goes through the refusals in the
order of the checks: the sizes fit or one region's advice is quoted
(`SizesFit`), they collide or they do not (`NoCollision`), and what was placed
with bounds that are multiples of the alignment is valid, so the last check
never refuses.  That a program shrunk to the quoted limit is then placed is
arithmetic on remainders.

**Source run.**  The two properties of the policies speak of the accesses an instruction made and of
plain containment: inside a variable, a section, a LOCAL.  The code decides by other
means: by accesses planned from the operands before the step, and by a bounded list of
those made; by the first entry that overlaps a range, and by offsets from a region's
base.  The proof connects each pair.  `RunInv` says of what every turn starts from that
the machine is `Ready` (its regions where the layout put them, its frames typed with
their procedure's LOCALs) and that `entries` is the map of the relocated symbols.  Each
operation has a lemma that a step leaves a `Good` machine: the list is an exact prefix
of the accesses made (`Mirrored`), and each access of a step that succeeded lay in a
region that permits it (`Sound`).  `SteppedMakes` adds, by `Outcome`, which accesses
each kind of instruction made: those it announced (`Foretold`), or bytes of a frame
behind an access of the stack, which are the only ones the list may lose
(`MadeIsNoted`).  `LeavesIsBeyond` and `EscapesIsAstray` show that for a sound access the code's
verdicts are the plain ones, `ListingCounts` that a list with room grows.

That a strict policy stops in time is the harder half, since it compares two lists.
A strict section policy takes every access of the stack for a violation
(`StackedStops`), so a program under it is stopped at its first CALL and never has a
frame; this is the last part of `RunInv`, and with it every access of a planned
instruction is foretold and the check before the step has seen it
(`SectionsStopInTime`).  The object policy has seen every access too, but judges a
LOCAL by its name before the step and by its address after it.  They differ only where
an access runs out of a LOCAL it did not name, or where LOCALs overlap
(`NamedLocal`, `ObjectsStopInTime`), which is the exception `StrictRunStaysInside` states.

The rows of changes are gathered from two places: what the recorder holds after the
step and the first access of the list that wrote a variable.  The recorder is cleared
at each step, and an instruction that went well read before it wrote and wrote once at
most, last (`ExecuteWrites`, `Effect`), so the recorder's entries are exactly the bytes
that differ (`ChangesGathered`, `WrittenTells`) and the first write listed is the only
one (`OneWriteIsTold`).  That an overlap found in the map is containment in a variable
is `FoundInVariable`.  Setting up a frame writes more than once but names no operand
(`NoneNamed`), so it has no row.

**Parser.**  `IInv` says that the state is `Sound` at each line: ranges are
ordered and end where the code does, only the last may be open, an instruction
points into the code, a waiting label points nowhere yet, and a table that
overflowed or an error keeps the source from being accepted.  `Phased` says
which phase leaves which tables alone.  Every handler has a lemma that it keeps
both; `Resolve` closes them.  `AcceptedImagesFit` discharges, for what the parser
emits, the assumption the executor's proofs make of images.

`Mirrored` relates the tables to the lines read.  As long as nothing was refused
every declaring line has one entry of its kind and every entry is such a line
(`Tells`); a procedure's entry holds exactly the pops of the RETs that follow
its PROC with no other boundary between (`RetsTold`); the open one is the one no
boundary follows, with the LOCALs of its body (`OpenTold`); every INVOKE of a
procedure waits among the calls with the policy of its line (`CallsTold`).
`Grown` is what one line may add to the tables, each handler has a lemma that it
adds no more or ends in a fault, and `ToldStep` carries the mirror over a line.
That names stay apart is then a property of the lines alone: a name that means
one earlier line matches one entry (`OneMatch`), and each handler refuses it.
For INVOKE, that resolution found no fault means that no fixup of a call was
refused (`AllResolved`, `ResolvedCalls`).

`Following` says where the code stands, until `Resolve`: `Traced`.  The code is in
the order of its lines, so a line that has none of its own splits it (`Splits`): a
label that waits has all of the code before its line, one with a target the code
before that target, and a procedure's range begins at its PROC line and ends at the
next ENDP or END line.  Every branch and call has a fixup with its name and the
policy in force at its line (`FixupsTold`).  `Moves` is what one line may do to all
this: append code of its own line, settle or forget waiting labels, open a range
where the code ends or close the open one.  Each handler has a lemma that it does
no more or ends in a fault, and `TracedStep` carries the trace over a line.  When
`Resolve` then refuses nothing, a fixup's target is that of the one entry its name
means (`EntryMeant`), which is the first instruction after the entry's line
(`FirstAfter`); and the range that holds a call is the body its line lies in
(`InsideRange`), since no code stands at a line where a procedure begins or ends.
After `Resolve` the invariant is the property itself (`CodeIsMeant`).

**Page.**  `Inv` says that every message under way is true of the run it
belongs to: a request carries what was asked for, an answer's settings include
it or the run was refused.  The lemma `ChosenExportTakesAll` is the agreement of
the two chains of `if`s.  `InOrder` orders the messages: answers before
requests, both in the order the runs were asked for, so that the last run is
under way or shown, and once it is shown nothing of another run can follow.

**Recursion.**  `Recursion` holds the lemmas on recursive functions and folds:
that the function a recursion describes exists and that a fold over a sequence
grows by one step per element.  They are proved by least counterexample, since an
induction theorem over an arbitrary predicate cannot be applied here; each use
names the set or function it needs.

**Only model-checked**: `EventuallyStops` and `EveryRunIsAnswered`, which are
liveness and out of the prover's reach; and of `SourceRun` the property about marks,
`UninitializedReadsAreTold`.  An attempt to prove it showed that the step that makes or
releases a LOCAL frame, and the root RET, had to be set apart where they read by ESP
(section 4).  The proof would need, besides `RunInv`, an invariant that relates
`marks` and `touched` to every write so far, through frames that are made and released.

## 6. Not modelled

* The lexer, the widths of operands, constant expressions and initializers, the
  recovery after an error inside a block, and the directives that only check
  (`.386`, `.model`): text in, numbers out, each within one line.
* How results are told: JSON, wording, source spans, the deltas of registers and
  flags, the diagnostic policy's tables, the demonstration programs.
* The page's forms, formatters and collapsible panels: no state that outlives an
  event and no protocol.
* The API entry: a version string and a constant.

`SourceRun` leaves the flag checks to `VmAlu`, the Irvine32 routines to
`VmIrvine`, deeper recursion to `VmExec`.

## 7. Plan

1. A proof of `UninitializedReadsAreTold`.
2. Initializers and constant expressions of the parser, as operators checked
   against a reference definition.
3. An artifact that is replaced while the page is open, once the page reloads it.
