------------------------------ MODULE VmMemory ------------------------------
(***************************************************************************)
(* The checked memory (src/core/vm_memory.c): five regions with            *)
(* permissions, little-endian reads and writes of one, two, four or eight  *)
(* bytes, and a bounded recorder of changed bytes.  Allocation may fail.   *)
(***************************************************************************)
EXTENDS Layout, SequencesExt

CONSTANTS ByteBase,    \* 256
          MaxChanges,  \* VM_MEMORY_MAX_BYTE_CHANGES
          Widths,      \* access sizes
          Policies,    \* layout policies memory is initialized with
          Configs,     \* size-only configurations, by region
          Contents,    \* values written
          Loads        \* what loaders copy in: region, offset and bytes

Byte == 0 .. ByteBase - 1

ASSUME MemoryAssumption ==
  /\ ByteBase \in Nat \ {0, 1} /\ MaxChanges \in Nat
  /\ Widths \subseteq Nat \ {0} /\ Contents \subseteq Nat
  /\ \A p \in Policies : p \in Policy
  /\ \A c \in Configs : c \in [Kinds -> Word]
  /\ \A l \in Loads : l \in [region : Kinds, offset : Word, bytes : Seq(Byte)]

VARIABLES
  memory,  \* struct VmMemory
  result,  \* status and value of the last call
  before,  \* history: the bytes when the recorder was last cleared
  loaded   \* history: bytes were loaded, unrecorded, since then

vars == <<memory, result, before, loaded>>

Granted(k) == CASE k = Code  -> {"read", "execute"}
                [] k = Const -> {"read"}
                [] OTHER     -> {"read", "write"}

NoBytes == [i \in {} |-> 0]
Released == [regions |-> [k \in Kinds |-> [base |-> 0, size |-> 0, permissions |-> {}, bytes |-> NoBytes]],
             changes |-> <<>>, overflowed |-> FALSE]

BytesOf(mem) == [k \in Kinds |-> mem.regions[k].bytes]

-----------------------------------------------------------------------------
(* Finding a region *)

End(r) == r.base + r.size

Holds(r, a, n) == a + n <= UMax /\ r.base <= a /\ a + n <= End(r)

Containing(mem, a, n) == {k \in Kinds : Holds(mem.regions[k], a, n)}

First(s) == CHOOSE k \in s : \A j \in s : k <= j

Overlap(r, a, n) == {b \in a .. a + n - 1 : r.base <= b /\ b < End(r)}

\* A protected region that an access outside every region would touch.
Protected(mem, a, n) ==
  {k \in {Code, Const} : a + n <= UMax /\ Overlap(mem.regions[k], a, n) # {}}

Succeeded(status) == status \in {"ok", "ok-unaligned"}

\* A slip: read permission is enough.
PermittedToRead(r, access) == "read" \in r.permissions

Permitted(r, access) == access \in r.permissions

\* A crossing is told from an unmapped address only for a caller who asks for details.
Validate(mem, access, a, n, details) ==
  LET found == Containing(mem, a, n)
      k == First(found)
  IN  IF found = {} /\ details /\ Protected(mem, a, n) # {} THEN "region-boundary-crossing"
      ELSE IF found = {} THEN "invalid-address"
      ELSE IF k = Code THEN "unsupported-code-memory-access"
      ELSE IF ~Permitted(mem.regions[k], access) THEN "permission-denied"
      ELSE IF a % n # 0 THEN "ok-unaligned" ELSE "ok"

-----------------------------------------------------------------------------
(* Bytes and integers *)

\* What a byte counts for: ByteBase to the power of its place.
Weight[i \in Nat] == IF i = 0 THEN 1 ELSE ByteBase * Weight[i - 1]

\* A slip: most significant byte first.
EncodeBigEndian(v, n) == [i \in 1 .. n |-> (v \div Weight[n - i]) % ByteBase]

Encode(v, n) == [i \in 1 .. n |-> (v \div Weight[i - 1]) % ByteBase]

Decode(r, a, n) ==
  FoldLeft(LAMBDA v, i : v + r.bytes[a - r.base + i - 1] * Weight[i - 1], 0, [i \in 1 .. n |-> i])

\* The bytes of a write, changed or not.
AllBytes(r, k, a, s) ==
  [i \in DOMAIN s |-> [address |-> a + i - 1, region |-> k, old |-> r.bytes[a - r.base + i - 1], new |-> s[i]]]

ChangedBytes(r, k, a, s) ==
  FoldLeft(LAMBDA cs, c : IF c.old # c.new THEN Append(cs, c) ELSE cs, <<>>, AllBytes(r, k, a, s))

\* As many of the changes as the recorder has room for.
Retained(mem, cs) == SubSeq(cs, 1, Min({Len(cs), MaxChanges - Len(mem.changes)}))

\* A slip: a full recorder drops changes without saying so.
RecordingSilently(mem, cs) == [mem EXCEPT !.changes = @ \o Retained(mem, cs)]

Recording(mem, cs) ==
  [mem EXCEPT !.changes = @ \o Retained(mem, cs),
              !.overflowed = @ \/ Retained(mem, cs) # cs]

Putting(mem, k, a, s) ==
  [mem EXCEPT !.regions[k].bytes =
     [i \in DOMAIN @ |-> LET j == i - (a - mem.regions[k].base) + 1
                         IN  IF j \in DOMAIN s THEN s[j] ELSE @[i]]]

\* The memory a checked write leaves behind.
Written(mem, a, n, v, details) ==
  LET k == First(Containing(mem, a, n))
      s == Encode(v, n)
  IN  IF ~Succeeded(Validate(mem, "write", a, n, details)) THEN mem
      ELSE Recording(Putting(mem, k, a, s), ChangedBytes(mem.regions[k], k, a, s))

-----------------------------------------------------------------------------
(* The calls *)

Read(a, n, details) ==
  LET status == Validate(memory, "read", a, n, details) IN
  /\ result' = [status |-> status,
                value |-> IF Succeeded(status)
                          THEN Decode(memory.regions[First(Containing(memory, a, n))], a, n) ELSE 0]
  /\ UNCHANGED <<memory, before, loaded>>

Write(a, n, v, details) ==
  /\ memory' = Written(memory, a, n, v, details)
  /\ result' = [status |-> Validate(memory, "write", a, n, details), value |-> 0]
  /\ UNCHANGED <<before, loaded>>

Cleared == [memory EXCEPT !.changes = <<>>, !.overflowed = FALSE]

ClearChanges ==
  /\ memory' = Cleared
  /\ before' = BytesOf(memory) /\ loaded' = FALSE
  /\ UNCHANGED result

\* Loaders bypass permissions and the recorder.
LoadRegionBytes(l) ==
  LET r == memory.regions[l.region]
      n == Len(l.bytes)
  IN  \/ /\ n > r.size \/ l.offset > r.size - n
         /\ result' = [status |-> "invalid-address", value |-> 0]
         /\ UNCHANGED <<memory, before, loaded>>
      \/ /\ n <= r.size /\ l.offset <= r.size - n
         /\ memory' = Putting(memory, l.region, r.base + l.offset, l.bytes)
         /\ result' = [status |-> "ok", value |-> 0]
         /\ loaded' = TRUE /\ UNCHANGED before

StartOver(mem) == memory' = mem /\ before' = BytesOf(mem) /\ loaded' = FALSE

Fresh(mem, status) == StartOver(mem) /\ result' = [status |-> status, value |-> 0]

Allocated(p) ==
  [Released EXCEPT !.regions = [k \in Kinds |->
     [base |-> p.regions[k].base, size |-> SizeIn(p, k), permissions |-> Granted(k),
      bytes |-> [i \in 0 .. SizeIn(p, k) - 1 |-> 0]]]]

\* On memory that holds no regions.
InitWithLayoutPolicy(p) ==
  /\ memory = Released
  /\ \/ ~PolicyIsValid(p) /\ Fresh(Released, "invalid-argument")
     \/ PolicyIsValid(p) /\ Fresh(Released, "out-of-memory")
     \/ PolicyIsValid(p) /\ Fresh(Allocated(p), "ok")

InitFromConfig(c) ==
  \/ memory = Released /\ ~ConfigFits(c) /\ Fresh(Released, "invalid-argument")
  \/ ConfigFits(c) /\ InitWithLayoutPolicy(PolicyFromConfig(c))

Deinit == StartOver(Released) /\ UNCHANGED result

Init == memory = Released /\ result = [status |-> "ok", value |-> 0]
          /\ before = BytesOf(Released) /\ loaded = FALSE

Next ==
  \/ \E a \in Word, n \in Widths, details \in BOOLEAN : Read(a, n, details)
  \/ \E a \in Word, n \in Widths, v \in Contents, details \in BOOLEAN :
       v < Weight[n] /\ Write(a, n, v, details)
  \/ ClearChanges \/ Deinit
  \/ \E l \in Loads : LoadRegionBytes(l)
  \/ \E p \in Policies : InitWithLayoutPolicy(p)
  \/ \E c \in Configs : InitFromConfig(c)

Spec == Init /\ [][Next]_vars

-----------------------------------------------------------------------------
(* Properties *)

\* No two regions share an address, so the region an access finds is the only one, and
\* memory that failed to initialize or was released maps nothing.
RegionsDisjoint ==
  \A j, k \in Kinds : LET q == memory.regions[j] IN LET r == memory.regions[k] IN
    (j < k /\ q.size > 0 /\ r.size > 0) => End(q) <= r.base

Replayed(b, c) == [b EXCEPT ![c.region][c.address - memory.regions[c.region].base] = c.new]
Undone(b, c)   == [b EXCEPT ![c.region][c.address - memory.regions[c.region].base] = c.old]

\* What a step reports as changed is what changed: replaying the recorded changes on the
\* bytes of the last clear gives the bytes now, undoing them backwards gives those bytes
\* back.  A recorder that had to drop a change says so, and only a full one does.
RecorderTellsTheTruth ==
  /\ (~loaded /\ ~memory.overflowed) =>
       /\ FoldLeft(Replayed, before, memory.changes) = BytesOf(memory)
       /\ FoldLeft(Undone, BytesOf(memory), Reverse(memory.changes)) = before
  /\ Len(memory.changes) <= MaxChanges
  /\ memory.overflowed => Len(memory.changes) = MaxChanges

\* A write that succeeds is read back whole, and narrower reads see its bytes from the
\* least significant one up; no byte outside the range changes.
WritesReadBack ==
  \A a \in Word, n \in Widths, v \in Contents :
    (v < Weight[n] /\ Succeeded(Validate(memory, "write", a, n, FALSE))) =>
      LET k == First(Containing(memory, a, n))
          r == Written(memory, a, n, v, FALSE).regions[k]
      IN  /\ Decode(r, a, n) = v
          /\ \A w \in Widths : w <= n => Decode(r, a, w) = v % Weight[w]
          /\ \A i \in DOMAIN r.bytes :
               r.base + i \notin a .. a + n - 1 => r.bytes[i] = memory.regions[k].bytes[i]

\* Programs never change code or constants: only loaders, and starting over, do.
OnlyLoadersChangeProtectedBytes ==
  [][\A k \in {Code, Const} :
       memory'.regions[k].bytes # memory.regions[k].bytes => loaded' \/ before' = BytesOf(memory')]_vars

=============================================================================
