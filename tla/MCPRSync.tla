------------------------------ MODULE MCPRSync ------------------------------
(***************************************************************************)
(* Instances of PRSync for TLC.  A behaviour with focus "store" explores   *)
(* the store by itself, with senders that overlap, one cleanup at a time   *)
(* and a reader that asks whenever it likes; one with focus "cleanups"     *)
(* cleanups that overlap, with one sender at a time; one with focus        *)
(* "system" the store and the device, with one sender at a time.           *)
(***************************************************************************)
EXTENDS PRSync, TLC

CONSTANTS s1, s2, c1, c2, r1, x, y, plain, d1, d2

VARIABLE focus

MCTwoIds == 1..2
MCNoLegacy == {}
MCTwoSenders == {s1, s2}
MCTwoCleaners == {c1, c2}
MCOneReader == {r1}

\* Two archives of the same paths and sizes but other bytes.
MCContents == {x, y}
MCManifests == {plain}
MCContentOf == (1 :> x) @@ (2 :> y)
MCManifestOf == (x :> plain) @@ (y :> plain)
MCGenerations == {d1, d2}

MCSymmetry == Permutations(MCTwoSenders) \union Permutations(MCGenerations)

MCInit == SystemInit /\ focus \in {"store", "cleanups", "system"}

\* No two requests are under way at once.
OneAtATime ==
  \A s, t \in Senders : request[s].pc # "idle" /\ request[t].pc # "idle" => s = t

\* The steps of the store in a system: requests arrive one at a time and are
\* not cut short.  What cleanups do to readers is explored with the store.
MCStoreStep ==
  /\ \/ \A s \in Senders : request[s].pc = "idle" /\ \E t \in Senders : Begin(t)
     \/ \E s \in Senders : SenderStep(s)
  /\ UNCHANGED <<deviceVars, waiting>>

MCNext ==
  \/ /\ focus = "store" /\ Next /\ UNCHANGED cleaner[c2]
     /\ UNCHANGED <<focus, deviceVars, waiting>>
  \/ /\ focus = "cleanups" /\ UNCHANGED <<focus, reader, deviceVars, waiting>>
     /\ Next /\ OneAtATime'
  \/ focus = "system" /\ (Request \/ Serve \/ DeviceStep \/ MCStoreStep) /\ UNCHANGED focus

MCSpec == MCInit /\ [][MCNext]_<<systemVars, focus>>

=============================================================================
