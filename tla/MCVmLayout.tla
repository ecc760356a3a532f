----------------------------- MODULE MCVmLayout -----------------------------
(* A word of six bits, regions of eight bytes at their fixed bases.            *)
EXTENDS VmLayout

MCFixedBase == <<8, 16, 24, 32>>
MCFixedSize == <<8, 8, 8, 8, 2>>
MCRandom    == <<9, 61>>
MCMix       == [s \in Word |-> (7 * s + 5) % (UMax + 1)]
MCNextSeed  == [s \in Word |-> (5 * s + 3) % 4]

With(alignment, gap) == [DefaultPolicy EXCEPT !.alignment = alignment, !.gap = gap]

MCBases ==
  {With(a, g) : a \in {1, 4}, g \in {0, 1, 4}}
  \cup {[With(a, 4) EXCEPT !.regions[Heap].max = n, !.regions[StackRegion].max = n,
                            !.heapRequest = 1] : a \in {1, 4}, n \in {6, 12}}
  \cup {[With(a, g) EXCEPT !.randomMin = 2, !.randomLimit = 34] : a \in {1, 4}, g \in {0, 4}}
  \cup {[DefaultPolicy EXCEPT !.mode = "automatic", !.totalLimit = 20],
        [DefaultPolicy EXCEPT !.alignment = 0],
        [DefaultPolicy EXCEPT !.mode = "seeded", !.hasSeed = TRUE, !.seed = 6],
        [DefaultPolicy EXCEPT !.randomMin = 20, !.randomLimit = 20],
        [DefaultPolicy EXCEPT !.randomMin = 61, !.randomLimit = 63]}

MCPrograms ==
  [code : {0, 3, 9}, data : {0, 5, 62}, uninitialized : {0, 3}, const : {2, 6},
   heap : {NoRequest, 5, 13, 62}, stack : {NoRequest, 3, 14, 20}]

=============================================================================
