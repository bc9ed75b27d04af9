----------------------------- MODULE DeviceSync -----------------------------
(***************************************************************************)
(* Synchronization on the reader device: the client and its conditional    *)
(* manifest snapshot (sync.rs), the attempt that surrounds it with Wi-Fi   *)
(* (wifi.rs), and the native runtime that starts attempts, cancels them    *)
(* when it goes to sleep and hands a new library to the reader             *)
(* (runtime.rs).  Its environment is the abstract inbox of module Inbox.   *)
(*                                                                         *)
(* The runtime is one thread that polls the attempt between two rounds of  *)
(* its input loop, so the attempt is interrupted at its `await` points     *)
(* only: an action of the attempt is what it does from one to the next.    *)
(***************************************************************************)
EXTENDS Naturals, FiniteSets

CONSTANTS
  Bundles,       \* identities of stored archives
  Contents,      \* bytes of an archive; an entity tag identifies them
  Manifests,     \* manifests: the entry point, and paths with sizes
  ContentOf,     \* the bytes of each bundle
  ManifestOf,    \* the manifest of each content
  NoBundle,      \* the reference of an empty inbox
  NoContent,     \* no entity tag, or no such directory
  Generations,   \* directories under the library root
  NoGeneration,  \* no `current` link, or no library open in the reader
  MaxRevision    \* bound: no push or clear happens at this revision

ASSUME ContentAssumption ==
  /\ ContentOf \in [Bundles -> Contents]
  /\ ManifestOf \in [Contents -> Manifests]
  /\ NoContent \notin Contents
  /\ NoBundle \notin Bundles
  /\ NoGeneration \notin Generations

VARIABLES
  current, revision, stored,  \* the inbox
  running,         \* the native runtime is up
  session,         \* SyncClient.session is Some
  snapshot,        \* SyncClient.snapshot
  disk,            \* generation -> its content
  link,            \* the generation `current` points to
  shown,           \* the generation the reader has open
  attempt,         \* SyncTask, and the client's progress in it
  wakeRequested,   \* UiState.wake_sync_requested
  bundleReady      \* UiState.bundle_ready

inbox == <<current, revision, stored>>
client == <<session, snapshot>>
library == <<disk, link>>
ui == <<wakeRequested, bundleReady>>
vars == <<inbox, running, client, library, shown, attempt, ui>>

Service == INSTANCE Inbox

\* An empty manifest has no entity tag.
Snapshot == [known : BOOLEAN, revision : Nat, etag : Contents \union {NoContent}]
NoSnapshot == [known |-> FALSE, revision |-> 0, etag |-> NoContent]
Empty(r) == [known |-> TRUE, revision |-> r, etag |-> NoContent]
Current(r, e) == [known |-> TRUE, revision |-> r, etag |-> e]

Outcomes == {"none", "updated", "cleared", "unchanged", "stale", "failed"}

AttemptState ==
  [pc : {"idle", "up", "session", "authorize", "manifest", "bundle", "down"},
   reauthorized : BOOLEAN,
   reply : Snapshot,        \* revision and tag of the manifest to download
   outcome : Outcomes]

NoAttempt ==
  [pc |-> "idle", reauthorized |-> FALSE, reply |-> NoSnapshot, outcome |-> "none"]
Started == [NoAttempt EXCEPT !.pc = "up"]

Init ==
  /\ Service!Init
  /\ running = TRUE
  /\ session = FALSE
  /\ snapshot = NoSnapshot
  /\ disk = [g \in Generations |-> NoContent]
  /\ link = NoGeneration
  /\ shown = NoGeneration
  /\ attempt = Started
  /\ wakeRequested = FALSE
  /\ bundleReady = FALSE

-----------------------------------------------------------------------------
(* The conditions of the client.  An operator named Faulty... is the one   *)
(* below it with a plausible mistake; no specification uses it, it serves  *)
(* to see a property fail.                                                 *)

\* The tag the service answers with.
Etag == IF current = NoBundle THEN NoContent ELSE ContentOf[current]

\* reader_manifest_inner: either condition suffices.
NotModified ==
  /\ current # NoBundle
  /\ \/ snapshot.known /\ snapshot.revision = revision
     \/ snapshot.etag = Etag

FaultyMatches == snapshot.etag = Etag
\* What the client demands of a not-modified answer: both.
Matches == snapshot.etag = Etag /\ snapshot.revision = revision

FaultySameManifest == TRUE
\* The archive the bundle route serves by now has the requested manifest.
SameManifest == ManifestOf[Etag] = ManifestOf[attempt.reply.etag]

FaultyRetry == TRUE
\* The guard of the retry in `synchronize`.
Retry == ~ attempt.reauthorized

FaultyKept(g) == [disk EXCEPT ![g] = Etag, ![link] = NoContent]
\* Extraction leaves the other generations alone.
Extracted(g) == [disk EXCEPT ![g] = Etag]

FaultyReadyAfter(outcome) == outcome = "updated"
\* apply_sync_event: which outcomes call for a handoff.
ReadyAfter(outcome) == bundleReady \/ outcome \in {"updated", "cleared"}

-----------------------------------------------------------------------------
(* The attempt.                                                            *)

GoTo(label) == attempt' = [attempt EXCEPT !.pc = label]

\* The client returns; Wi-Fi is shut down next.
End(outcome) == attempt' = [attempt EXCEPT !.pc = "down", !.outcome = outcome]

BringUp ==
  /\ attempt.pc = "up"
  /\ GoTo("session") \/ End("failed")
  /\ UNCHANGED <<inbox, running, client, library, shown, ui>>

\* A held session may have expired by the device's clock.
CheckSession ==
  /\ attempt.pc = "session"
  /\ \/ session /\ GoTo("manifest")
     \/ GoTo("authorize")
  /\ UNCHANGED <<inbox, running, client, library, shown, ui>>

\* The polls of `authorize` end with a session.
Authorize ==
  /\ attempt.pc = "authorize"
  /\ session' = TRUE
  /\ GoTo("manifest")
  /\ UNCHANGED <<inbox, running, snapshot, library, shown, ui>>

\* Any request may fail, be denied or expire, be answered with an error, and
\* any local operation may fail.
Fail ==
  /\ attempt.pc \in {"session", "authorize", "manifest", "bundle"}
  /\ End("failed")
  /\ UNCHANGED <<inbox, running, client, library, shown, ui>>

\* The server rejects the session: authorize once more, once.
Reject ==
  /\ attempt.pc \in {"manifest", "bundle"}
  /\ Retry
  /\ session' = FALSE
  /\ attempt' = [attempt EXCEPT !.pc = "session", !.reauthorized = TRUE]
  /\ UNCHANGED <<inbox, running, snapshot, library, shown, ui>>

ReceiveEmpty ==
  /\ attempt.pc = "manifest"
  /\ current = NoBundle
  /\ IF snapshot = Empty(revision)
       THEN End("unchanged") /\ UNCHANGED <<snapshot, link>>
       ELSE /\ End("cleared")
            /\ link' = NoGeneration
            /\ snapshot' = Empty(revision)
  /\ UNCHANGED <<inbox, running, session, disk, shown, ui>>

ReceiveNotModified ==
  /\ attempt.pc = "manifest"
  /\ NotModified
  /\ IF snapshot.etag # NoContent /\ Matches THEN End("unchanged") ELSE End("stale")
  /\ UNCHANGED <<inbox, running, client, library, shown, ui>>

ReceiveCurrent ==
  /\ attempt.pc = "manifest"
  /\ current # NoBundle
  /\ ~ NotModified
  /\ attempt' = [attempt EXCEPT !.pc = "bundle", !.reply = Current(revision, Etag)]
  /\ UNCHANGED <<inbox, running, client, library, shown, ui>>

\* The bundle route serves what is current by now.  An archive whose manifest
\* is another one is removed again.
Download ==
  /\ attempt.pc = "bundle"
  /\ current # NoBundle
  /\ IF ~ SameManifest
       THEN End("stale") /\ UNCHANGED <<library, snapshot>>
       ELSE \E g \in Generations :
              /\ disk[g] = NoContent
              /\ disk' = Extracted(g)
              /\ link' = g
              /\ snapshot' = attempt.reply
              /\ End("updated")
  /\ UNCHANGED <<inbox, running, session, shown, ui>>

\* The inbox was emptied in between: the route answers 404.
DownloadNothing ==
  /\ attempt.pc = "bundle"
  /\ current = NoBundle
  /\ End("stale")
  /\ UNCHANGED <<inbox, running, client, library, shown, ui>>

\* publish_library fails after the extraction, whose directory stays.
PublishFails ==
  /\ attempt.pc = "bundle"
  /\ current # NoBundle
  /\ SameManifest
  /\ \E g \in Generations : disk[g] = NoContent /\ disk' = Extracted(g)
  /\ End("failed")
  /\ UNCHANGED <<inbox, running, client, link, shown, ui>>

\* Wi-Fi goes down; if that fails the attempt has failed, whatever the client
\* returned.  The runtime learns the result in the same round.
Finish ==
  /\ attempt.pc = "down"
  /\ \E result \in {attempt.outcome, "failed"} : bundleReady' = ReadyAfter(result)
  /\ attempt' = NoAttempt
  /\ UNCHANGED <<inbox, running, client, library, shown, wakeRequested>>

AttemptStep ==
  \/ BringUp \/ CheckSession \/ Authorize \/ Fail \/ Reject
  \/ ReceiveEmpty \/ ReceiveNotModified \/ ReceiveCurrent
  \/ Download \/ DownloadNothing \/ PublishFails \/ Finish

-----------------------------------------------------------------------------
(* The runtime.                                                            *)

\* The user asks for a synchronization; the same round of the loop takes the
\* request, and drops it if an attempt is under way.
StartManual ==
  /\ running
  /\ ~ wakeRequested
  /\ attempt.pc = "idle"
  /\ attempt' = Started
  /\ UNCHANGED <<inbox, running, client, library, shown, ui>>

\* The round after waking up takes that request before anything else.
StartAfterWake ==
  /\ running
  /\ wakeRequested
  /\ wakeRequested' = FALSE
  /\ attempt' = IF attempt.pc = "idle" THEN Started ELSE attempt
  /\ UNCHANGED <<inbox, running, client, library, shown, bundleReady>>

\* After two seconds without input the reader opens what `current` points to;
\* then retired generations are removed, unless that fails on the way.
HandOff ==
  /\ running
  /\ bundleReady
  /\ ~ wakeRequested
  /\ bundleReady' = FALSE
  /\ shown' = link
  /\ \E removed \in SUBSET (Generations \ {link}) :
       disk' = [g \in Generations |-> IF g \in removed THEN NoContent ELSE disk[g]]
  /\ UNCHANGED <<inbox, running, client, link, attempt, wakeRequested>>

\* sleep_cycle: an attempt under way is dropped and Wi-Fi shut down; on waking
\* up a synchronization is requested.
Sleep ==
  /\ running
  /\ ~ wakeRequested
  /\ attempt' = NoAttempt
  /\ wakeRequested' = TRUE
  /\ UNCHANGED <<inbox, running, client, library, shown, bundleReady>>

\* The runtime ends: an error of the loop, or a power action, which loses the
\* memory file system as well.
Exit ==
  /\ running
  /\ running' = FALSE
  /\ attempt' = NoAttempt
  /\ session' = FALSE
  /\ snapshot' = NoSnapshot
  /\ wakeRequested' = FALSE
  /\ bundleReady' = FALSE
  /\ shown' = NoGeneration
  /\ \/ UNCHANGED library
     \/ link' = NoGeneration /\ disk' = [g \in Generations |-> NoContent]
  /\ UNCHANGED inbox

\* `run` opens the library that is there and starts the first attempt.
Boot ==
  /\ ~ running
  /\ running' = TRUE
  /\ shown' = link
  /\ attempt' = Started
  /\ UNCHANGED <<inbox, client, library, ui>>

RuntimeStep == StartManual \/ StartAfterWake \/ HandOff \/ Sleep \/ Exit \/ Boot

-----------------------------------------------------------------------------

\* Senders and the cleanup of the service.
InboxStep ==
  /\ \/ revision < MaxRevision /\ Service!Clear
     \/ \E b \in Bundles : revision < MaxRevision /\ Service!Publish(b)
     \/ \E b \in Bundles : b \in stored /\ Service!Discard(b)
  /\ UNCHANGED <<running, client, library, shown, attempt, ui>>

Next == AttemptStep \/ RuntimeStep \/ InboxStep

Spec == Init /\ [][Next]_vars

\* The loop takes the request of a wake and polls the attempt in every round,
\* and every await of an attempt has a timeout.  Between two sleeps the user now
\* and then leaves the device alone for two seconds, and then the reader can
\* open the library; a handoff that fails is repeated in the next round.
Fairness ==
  /\ WF_vars(AttemptStep)
  /\ WF_vars(StartAfterWake)
  /\ SF_vars(HandOff)

FairSpec == Spec /\ Fairness

-----------------------------------------------------------------------------
(* Properties.                                                             *)

\* Every variable has its type.
TypeOK ==
  /\ current \in Bundles \union {NoBundle}
  /\ revision \in Nat
  /\ stored \subseteq Bundles
  /\ running \in BOOLEAN
  /\ session \in BOOLEAN
  /\ snapshot \in Snapshot
  /\ disk \in [Generations -> Contents \union {NoContent}]
  /\ link \in Generations \union {NoGeneration}
  /\ shown \in Generations \union {NoGeneration}
  /\ attempt \in AttemptState
  /\ wakeRequested \in BOOLEAN
  /\ bundleReady \in BOOLEAN

\* Whatever synchronization, handoffs, cancellation and restarts do, the pages
\* the user reads and the library `current` points to are there.
GenerationsInUseExist ==
  \A g \in {shown, link} : g # NoGeneration => disk[g] # NoContent

\* The snapshot describes the library, although the manifest and the bundle
\* come from two requests and attempts are dropped at any point between them:
\* an empty snapshot means no library, another one a library of that manifest.
SnapshotDescribesLibrary ==
  snapshot.known =>
    IF snapshot.etag = NoContent
      THEN link = NoGeneration
      ELSE link # NoGeneration /\ ManifestOf[disk[link]] = ManifestOf[snapshot.etag]

\* An attempt ends "unchanged" only when the library is what the inbox holds at
\* that moment, byte for byte, even if pushes overtook an earlier download.
UnchangedIsCurrent ==
  [][attempt.outcome # "unchanged" /\ attempt'.outcome = "unchanged" =>
       IF current = NoBundle
         THEN link = NoGeneration
         ELSE link # NoGeneration /\ disk[link] = ContentOf[current]]_vars

\* Every attempt ends, with Wi-Fi down: a server that rejects every session
\* does not keep it going.
AttemptEnds == attempt.pc # "idle" ~> attempt.pc = "idle"

\* A library waiting for the handoff is shown in the end, unless the runtime
\* ends, while further attempts come and go, fail or are cancelled by sleep.
HandOffHappens == running /\ bundleReady /\ shown # link ~> shown = link \/ ~ running

\* docs/prsync.md, "do nothing if the reader already has that bundle": an
\* attempt that finds in the inbox the bytes the library holds does not fail.
SameBundleIsNoFailure ==
  [][attempt.pc = "manifest" /\ attempt'.outcome = "stale" =>
       link = NoGeneration \/ disk[link] # ContentOf[current]]_vars

\* README of prs-t1-agent, "A successful replacement is handed to the reader at
\* an idle boundary": a library that was replaced is shown, or is about to be
\* announced or handed over.
ReplacementIsHandedOver ==
  running /\ shown # link =>
    bundleReady \/ attempt.outcome \in {"updated", "cleared"}

=============================================================================
