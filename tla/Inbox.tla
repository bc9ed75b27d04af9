------------------------------- MODULE Inbox -------------------------------
(***************************************************************************)
(* What the hosted inbox promises its readers: at most one current bundle, *)
(* whose metadata and bytes can both be fetched, and a revision that names *)
(* the state of the inbox.  BundleStore implements it with a D1 database   *)
(* and an R2 bucket; DeviceSync uses it as its environment.                *)
(***************************************************************************)
EXTENDS Naturals

CONSTANTS
  Bundles,     \* identities of stored archives
  NoBundle     \* the value of the reference of an empty inbox

VARIABLES
  current,     \* the bundle the inbox references, or NoBundle
  revision,    \* the revision counter of the inbox
  stored       \* bundles whose metadata and object both exist

vars == <<current, revision, stored>>

Init ==
  /\ current = NoBundle
  /\ revision = 0
  /\ stored = {}

\* The reference is dropped; what it named may still be stored.
Clear ==
  /\ current' = NoBundle
  /\ revision' = revision + 1
  /\ UNCHANGED stored

\* A bundle that was not retrievable before becomes retrievable and current.
Publish(b) ==
  /\ b \notin stored
  /\ current' = b
  /\ revision' = revision + 1
  /\ stored' = stored \union {b}

\* An archive nobody references is removed.
Discard(b) ==
  /\ b # current
  /\ stored' = stored \ {b}
  /\ UNCHANGED <<current, revision>>

Next ==
  \/ Clear
  \/ \E b \in Bundles : Publish(b) \/ Discard(b)

Spec == Init /\ [][Next]_vars

=============================================================================
