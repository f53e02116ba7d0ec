------------------------ MODULE MCDeviceCredentials ------------------------
(* A small instance of DeviceCredentials: two devices, two flow classes of *)
(* different weight in the one unit and equal in the other, and two        *)
(* capacities, of which the small one is exceeded by any heavy principal.  *)
EXTENDS DeviceCredentials, TLC

MCConfig(s, b) ==
    [weight |-> [k \in Classes |-> IF k = "high" THEN [steady |-> 2, burst |-> 1]
                                                 ELSE [steady |-> 1, burst |-> 1]],
     capacity |-> [steady |-> s, burst |-> b]]

MCInit == MCConfig(1, 1)
MCConfigs == {MCConfig(1, 1), MCConfig(3, 1)}
Symmetry == Permutations(Devices)
=============================================================================
