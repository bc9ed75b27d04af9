--------------------------- MODULE MCBundleStore ---------------------------
(* Instances of BundleStore for TLC. *)
EXTENDS BundleStore, TLC

CONSTANTS s1, s2, c1, c2, r1

MCThreeIds == 1..3
MCTwoIds == 1..2
MCNoLegacy == {}
MCTwoCleaners == {c1, c2}
MCLegacy == {3}
MCOneSender == {s1}
MCTwoSenders == {s1, s2}
MCOneCleaner == {c1}
MCOneReader == {r1}
MCNone == {}

MCSymmetry == Permutations(MCTwoSenders) \union Permutations(MCTwoCleaners)

=============================================================================
