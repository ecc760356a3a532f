----------------------------- MODULE ObjectMap ------------------------------
(***************************************************************************)
(* Declared storage (src/parser/symbols.c, src/parser/object_map.c): where *)
(* it lies under the selected layout, which object an address or a range   *)
(* belongs to, and the relocation of a parsed program from the fixed       *)
(* addresses the parser emits to the selected ones.                        *)
(***************************************************************************)
EXTENDS Layout, SequencesExt

CONSTANT MapCapacity  \* MASM32_SIM_WASM_MAX_OBJECT_MAP_ENTRIES

ASSUME ObjectMapAssumption == MapCapacity \in Nat

\* A symbol: its section's region, its address and its size.
Symbol == [region : {Data, Const}, address : Word, size : Word]

\* vm_object_map_inclusive_end: the last byte of a range is an address.
Fits(a, n) == n > 0 /\ a + n - 1 <= UMax

\* A slip: the byte after the range still counts as inside.
EncloseOneMore(base, size, a, n) == base <= a /\ a + n - 1 <= base + size

Enclose(base, size, a, n) == base <= a /\ a + n <= base + size

-----------------------------------------------------------------------------
(* Relocation *)

Relocates(a, k, p) ==
  /\ a >= FixedBase[k] /\ p.regions[k].base < p.regions[k].limit
  /\ p.regions[k].base + (a - FixedBase[k]) < p.regions[k].limit

Relocated(a, k, p) == p.regions[k].base + (a - FixedBase[k])

-----------------------------------------------------------------------------
(* Building the map *)

\* Where a symbol ends up: as it is when it was relocated already.
Settled(s, p) == p.regions[s.region].base <= s.address /\ s.address < p.regions[s.region].limit

FinalBase(s, p) == IF Settled(s, p) THEN s.address ELSE Relocated(s.address, s.region, p)

Placement(s, p) ==
  LET r == p.regions[s.region]
      b == FinalBase(s, p)
  IN  IF ~Settled(s, p) /\ s.address < FixedBase[s.region] THEN "invalid-argument"
      ELSE IF ~Fits(b, s.size) THEN "integer-overflow"
      ELSE IF b + s.size - 1 >= r.limit THEN "invalid-argument" ELSE "ok"

\* Symbols without storage have no entry.
Stored(symbols) == {i \in DOMAIN symbols : symbols[i].size > 0}

\* The first symbol that cannot be mapped decides.
MapStatus(symbols, p) ==
  LET full(i) == Cardinality({j \in Stored(symbols) : j <= i}) > MapCapacity
      bad == {i \in Stored(symbols) : full(i) \/ Placement(symbols[i], p) # "ok"}
      i   == CHOOSE j \in bad : \A k \in bad : j <= k
  IN  IF bad = {} THEN "ok" ELSE IF full(i) THEN "capacity-exceeded" ELSE Placement(symbols[i], p)

\* By the place of the symbol; the code closes the gaps.
Entries(symbols, p) ==
  [i \in Stored(symbols) |-> [base |-> FinalBase(symbols[i], p), size |-> symbols[i].size]]

-----------------------------------------------------------------------------
(* Looking ranges up *)

\* The first entry around a range, 0 if there is none.
FoundByRange(entries, a, n) ==
  LET in == {i \in DOMAIN entries : Enclose(entries[i].base, entries[i].size, a, n)}
  IN  IF in = {} THEN 0 ELSE CHOOSE i \in in : \A j \in in : i <= j

FoundByAddress(entries, a) == FoundByRange(entries, a, 1)

RegionOf(p, a, n) ==
  {k \in Kinds : p.regions[k].base <= a /\ a + n - 1 < p.regions[k].limit}

TouchesConst(p, a, n) == a < p.regions[Const].limit /\ a + n - 1 >= p.regions[Const].base

\* No caller names an intended object.
Classify(entries, p, a, n, writes) ==
  LET first == FoundByAddress(entries, a)
      last  == FoundByAddress(entries, a + n - 1)
  IN  IF RegionOf(p, a, n) = {} THEN "outside-region"
      ELSE IF writes /\ TouchesConst(p, a, n) THEN "const-read-only-overlap"
      ELSE IF FoundByRange(entries, a, n) # 0 THEN "within-object"
      ELSE IF first # 0 /\ last # 0 /\ first # last THEN "spans-objects"
      ELSE IF first # 0 THEN "starts-in-object"
      ELSE IF last # 0 THEN "ends-in-object" ELSE "region-gap"

EscapesObjects(class) ==
  class \in {"region-gap", "starts-in-object", "ends-in-object", "spans-objects"}

=============================================================================
