-------------------------- MODULE MCAuthorization --------------------------
(* Instances of Authorization for TLC. *)
EXTENDS Authorization, TLC

CONSTANTS r1, r2, g1, g2, p1, p2, o1

MCRequests == {r1, r2}
MCGrants == {g1, g2}
MCTwoPolls == {p1, p2}
MCOnePoll == {p1}
MCOneOwner == {o1}

MCSymmetry ==
  Permutations(MCRequests) \union Permutations(MCGrants) \union Permutations(MCTwoPolls)

=============================================================================
