---------------------------- MODULE MCDeviceSync ----------------------------
(* Instances of DeviceSync for TLC. *)
EXTENDS DeviceSync, TLC

CONSTANTS b1, b2, b3, x, y, z, plain, other, d1, d2, d3

\* Two archives of the same paths and sizes but other bytes, and a third one.
MCBundles == {b1, b2, b3}
MCContents == {x, y, z}
MCContentOf == (b1 :> x) @@ (b2 :> y) @@ (b3 :> z)
MCManifestOf == (x :> plain) @@ (y :> plain) @@ (z :> other)

\* The second bundle is the first one pushed again.
MCRepeatedBundles == {b1, b2}
MCRepeatedContentOf == (b1 :> x) @@ (b2 :> x)

MCManifests == {plain, other}
MCTwoGenerations == {d1, d2}
MCThreeGenerations == {d1, d2, d3}

MCGenerationSymmetry == Permutations(MCThreeGenerations)

=============================================================================
