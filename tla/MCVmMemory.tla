----------------------------- MODULE MCVmMemory -----------------------------
(* Regions of one or two bytes, side by side or a gap apart, bytes of one bit. *)
EXTENDS VmMemory

MCFixedBase == <<1, 2, 4, 5>>
MCFixedSize == <<1, 2, 1, 1, 1>>
MCRandom    == <<3, 8>>
MCMix       == [s \in Word |-> s]

MCPolicies == {DefaultPolicy, [DefaultPolicy EXCEPT !.regions[Heap].limit = 8]}

MCConfigs == {FixedSize, <<0, 1, 1, 1, 1>>, <<1, 3, 1, 1, 1>>, <<1, 1, 1, 1, 8>>,
              <<1, 1, 1, 4, 1>>}

MCLoads == {[region |-> Const, offset |-> 0, bytes |-> <<1>>],
            [region |-> Data, offset |-> 1, bytes |-> <<1, 1>>]}

=============================================================================
