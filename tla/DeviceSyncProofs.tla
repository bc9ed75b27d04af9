-------------------------- MODULE DeviceSyncProofs --------------------------
(***************************************************************************)
(* Proofs about DeviceSync for all sets of bundles, contents, manifests    *)
(* and generation directories: pages in use exist, the snapshot describes  *)
(* the library, and "unchanged" is said of the current archive only.       *)
(***************************************************************************)
EXTENDS DeviceSync, TLAPS

USE ContentAssumption DEF ContentAssumption

-----------------------------------------------------------------------------
(* The inductive invariant.                                                *)

\* While the archive is being fetched, the reply is one the inbox gave: if the
\* revision is still its own, the tag is that of the current bundle.
ReplyInv ==
  attempt.pc = "bundle" =>
    /\ attempt.reply.known
    /\ attempt.reply.etag \in Contents
    /\ attempt.reply.revision <= revision
    /\ attempt.reply.revision = revision =>
         current # NoBundle /\ attempt.reply.etag = ContentOf[current]

\* A snapshot whose revision is still that of the inbox describes it: either
\* the inbox is empty, or the library holds the bytes of the current bundle; an
\* older one may stand for a library of other bytes with the same manifest.
SnapshotInv ==
  /\ ~ snapshot.known => snapshot.etag = NoContent
  /\ snapshot.known => snapshot.revision <= revision
  /\ snapshot.known /\ snapshot.revision = revision /\ snapshot.etag # NoContent =>
       current # NoBundle /\ disk[link] = ContentOf[current]
  /\ snapshot.known /\ snapshot.revision = revision /\ snapshot.etag = NoContent =>
       current = NoBundle

IInv ==
  /\ TypeOK
  /\ GenerationsInUseExist
  /\ SnapshotDescribesLibrary
  /\ ReplyInv
  /\ SnapshotInv

\* At the start nothing is stored, shown or known.
LEMMA InitInv == Init => IInv
<1> SUFFICES ASSUME Init PROVE IInv OBVIOUS
<1>1. Started \in AttemptState /\ Started.pc = "up" /\ NoSnapshot \in Snapshot
  BY DEF Started, NoAttempt, AttemptState, NoSnapshot, Snapshot, Outcomes
<1>2. TypeOK BY <1>1 DEF Init, Service!Init, TypeOK
<1>3. ~ snapshot.known /\ snapshot.etag = NoContent BY DEF Init, NoSnapshot
<1>4. GenerationsInUseExist BY DEF Init, GenerationsInUseExist
<1> QED BY <1>1, <1>2, <1>3, <1>4
     DEF Init, IInv, SnapshotDescribesLibrary, ReplyInv, SnapshotInv

\* The tag of a bundle is a content, that of an empty inbox is none.
LEMMA EtagIsContent ==
  ASSUME TypeOK
  PROVE  /\ current # NoBundle => Etag = ContentOf[current] /\ Etag \in Contents
         /\ current = NoBundle => Etag = NoContent
BY DEF TypeOK, Etag

\* Steps of the attempt that leave snapshot and library alone.
Talking ==
  \/ BringUp \/ CheckSession \/ Authorize \/ Fail \/ Reject
  \/ ReceiveNotModified \/ ReceiveCurrent \/ DownloadNothing \/ Finish

\* They keep the types, and only a current manifest leads to a download.
LEMMA TalkingKeeps ==
  ASSUME IInv, Talking
  PROVE  /\ UNCHANGED <<inbox, snapshot, library, shown>>
         /\ TypeOK'
         /\ ReplyInv'
<1>1. TypeOK /\ ReplyInv BY DEF IInv
<1> USE DEF TypeOK, ReplyInv, GoTo, End, AttemptState, Outcomes, inbox, client, library, ui
<1>2. CASE BringUp BY <1>1, <1>2 DEF BringUp
<1>3. CASE CheckSession BY <1>1, <1>3 DEF CheckSession
<1>4. CASE Authorize BY <1>1, <1>4 DEF Authorize
<1>5. CASE Fail BY <1>1, <1>5 DEF Fail
<1>6. CASE Reject BY <1>1, <1>6 DEF Reject
<1>7. CASE ReceiveNotModified BY <1>1, <1>7 DEF ReceiveNotModified
<1>8. CASE ReceiveCurrent
  <2>1. Etag = ContentOf[current] /\ Etag \in Contents /\ current # NoBundle
    BY <1>1, <1>8, EtagIsContent DEF ReceiveCurrent
  <2>2. Current(revision, Etag) \in Snapshot BY <1>1, <2>1 DEF Current, Snapshot
  <2>3. /\ attempt' \in AttemptState
        /\ attempt'.reply = Current(revision, Etag)
    BY <1>1, <1>8, <2>2 DEF ReceiveCurrent
  <2>4. UNCHANGED <<current, revision, stored, running, session, snapshot, disk, link, shown,
                    wakeRequested, bundleReady>>
    BY <1>8 DEF ReceiveCurrent
  <2> HIDE DEF AttemptState
  <2> QED BY <1>1, <2>1, <2>3, <2>4 DEF Current
<1>9. CASE DownloadNothing BY <1>1, <1>9 DEF DownloadNothing
<1>10. CASE Finish
  <2>1. NoAttempt \in AttemptState /\ NoAttempt.pc = "idle"
    BY DEF NoAttempt, NoSnapshot, Snapshot
  <2>2. bundleReady' \in BOOLEAN BY <1>1, <1>10 DEF Finish, ReadyAfter
  <2>3. /\ UNCHANGED <<current, revision, stored, running, session, snapshot, disk, link, shown,
                       wakeRequested>>
        /\ attempt' = NoAttempt
    BY <1>10 DEF Finish
  <2> HIDE DEF AttemptState
  <2> QED BY <1>1, <2>1, <2>2, <2>3
<1> QED BY <1>2, <1>3, <1>4, <1>5, <1>6, <1>7, <1>8, <1>9, <1>10 DEF Talking

\* An answer that the inbox is empty drops the library and its snapshot.
LEMMA EmptyKeeps == ASSUME IInv, ReceiveEmpty PROVE IInv'
<1>1. TypeOK /\ GenerationsInUseExist /\ SnapshotDescribesLibrary /\ ReplyInv /\ SnapshotInv
  BY DEF IInv
<1>2. /\ UNCHANGED <<current, revision, stored, running, session, disk, shown, wakeRequested, bundleReady>>
      /\ current = NoBundle
  BY DEF ReceiveEmpty, inbox, ui
<1>3. attempt'.pc = "down" /\ attempt' \in AttemptState
  BY <1>1 DEF ReceiveEmpty, End, TypeOK, AttemptState, Outcomes
<1>4. \/ UNCHANGED <<snapshot, link>>
      \/ link' = NoGeneration /\ snapshot' = Empty(revision)
  BY DEF ReceiveEmpty
<1>5. TypeOK'
  <2>1. Empty(revision) \in Snapshot BY <1>1 DEF Empty, Snapshot, TypeOK
  <2> QED BY <1>1, <1>2, <1>3, <1>4, <2>1 DEF TypeOK
<1> USE DEF Empty
<1>6. GenerationsInUseExist' BY <1>1, <1>2, <1>4 DEF GenerationsInUseExist
<1>7. SnapshotDescribesLibrary' BY <1>1, <1>2, <1>4 DEF SnapshotDescribesLibrary
<1>8. ReplyInv' BY <1>3 DEF ReplyInv
<1>9. SnapshotInv' BY <1>1, <1>2, <1>4 DEF SnapshotInv, TypeOK
<1> QED BY <1>5, <1>6, <1>7, <1>8, <1>9 DEF IInv

\* Extraction fills a directory that neither the reader nor `current` uses.
LEMMA ExtractionIsElsewhere ==
  ASSUME IInv, current # NoBundle, NEW g \in Generations, disk[g] = NoContent,
         disk' = Extracted(g)
  PROVE  /\ disk' \in [Generations -> Contents \union {NoContent}]
         /\ disk'[g] = ContentOf[current]
         /\ disk'[g] # NoContent
         /\ shown # NoGeneration => disk'[shown] = disk[shown]
         /\ link # NoGeneration => disk'[link] = disk[link]
<1>1. TypeOK /\ GenerationsInUseExist BY DEF IInv
<1>2. Etag = ContentOf[current] /\ Etag \in Contents BY <1>1, EtagIsContent
<1> QED BY <1>1, <1>2 DEF TypeOK, GenerationsInUseExist, Extracted

\* A published archive has the manifest of the snapshot that comes with it.
LEMMA DownloadKeeps == ASSUME IInv, Download PROVE IInv'
<1>1. TypeOK /\ GenerationsInUseExist /\ SnapshotDescribesLibrary /\ ReplyInv /\ SnapshotInv
  BY DEF IInv
<1>2. /\ UNCHANGED <<current, revision, stored, running, session, shown, wakeRequested, bundleReady>>
      /\ current # NoBundle
      /\ attempt.pc = "bundle"
  BY DEF Download, inbox, ui
<1>3. CASE ~ SameManifest
  <2>1. UNCHANGED <<disk, link, snapshot>> BY <1>3 DEF Download, library
  <2>2. attempt'.pc = "down" /\ attempt' \in AttemptState
    BY <1>1, <1>3 DEF Download, End, TypeOK, AttemptState, Outcomes
  <2> QED BY <1>1, <1>2, <2>1, <2>2
       DEF IInv, TypeOK, GenerationsInUseExist, SnapshotDescribesLibrary, ReplyInv, SnapshotInv
<1>4. CASE SameManifest
  <2>1. PICK g \in Generations :
          /\ disk[g] = NoContent
          /\ disk' = Extracted(g)
          /\ link' = g
          /\ snapshot' = attempt.reply
          /\ End("updated")
    BY <1>4 DEF Download
  <2>2. attempt'.pc = "down" /\ attempt' \in AttemptState
    BY <1>1, <2>1 DEF End, TypeOK, AttemptState, Outcomes
  <2>3. /\ disk' \in [Generations -> Contents \union {NoContent}]
        /\ disk'[g] = ContentOf[current]
        /\ disk'[g] # NoContent
        /\ shown # NoGeneration => disk'[shown] = disk[shown]
    BY <1>2, <2>1, ExtractionIsElsewhere
  <2>4. snapshot' \in Snapshot BY <1>1, <2>1 DEF TypeOK, AttemptState
  <2>5. TypeOK' BY <1>1, <1>2, <2>1, <2>2, <2>3, <2>4 DEF TypeOK
  <2>6. GenerationsInUseExist' BY <1>1, <1>2, <2>1, <2>3 DEF GenerationsInUseExist
  <2>7. ManifestOf[ContentOf[current]] = ManifestOf[attempt.reply.etag]
    BY <1>1, <1>2, <1>4, EtagIsContent DEF SameManifest
  <2>8. SnapshotDescribesLibrary'
    BY <1>1, <1>2, <2>1, <2>3, <2>7 DEF SnapshotDescribesLibrary, ReplyInv
  <2>9. SnapshotInv' BY <1>1, <1>2, <2>1, <2>3 DEF SnapshotInv, ReplyInv
  <2>10. ReplyInv' BY <2>2 DEF ReplyInv
  <2> QED BY <2>5, <2>6, <2>8, <2>9, <2>10 DEF IInv
<1> QED BY <1>3, <1>4

\* A publication that fails leaves its directory behind and nothing else.
LEMMA PublishFailsKeeps == ASSUME IInv, PublishFails PROVE IInv'
<1>1. TypeOK /\ GenerationsInUseExist /\ SnapshotDescribesLibrary /\ ReplyInv /\ SnapshotInv
  BY DEF IInv
<1>2. /\ UNCHANGED <<current, revision, stored, running, session, snapshot, link, shown,
                     wakeRequested, bundleReady>>
      /\ current # NoBundle
  BY DEF PublishFails, inbox, client, ui
<1>3. attempt'.pc = "down" /\ attempt' \in AttemptState
  BY <1>1 DEF PublishFails, End, TypeOK, AttemptState, Outcomes
<1>4. PICK g \in Generations : disk[g] = NoContent /\ disk' = Extracted(g) BY DEF PublishFails
<1>5. /\ disk' \in [Generations -> Contents \union {NoContent}]
      /\ shown # NoGeneration => disk'[shown] = disk[shown]
      /\ link # NoGeneration => disk'[link] = disk[link]
  BY <1>2, <1>4, ExtractionIsElsewhere
<1>6. TypeOK' BY <1>1, <1>2, <1>3, <1>5 DEF TypeOK
<1>7. GenerationsInUseExist' BY <1>1, <1>2, <1>5 DEF GenerationsInUseExist
<1>8. SnapshotDescribesLibrary' BY <1>1, <1>2, <1>5 DEF SnapshotDescribesLibrary
<1>9. SnapshotInv' BY <1>1, <1>2, <1>5 DEF SnapshotInv, SnapshotDescribesLibrary
<1>10. ReplyInv' BY <1>3 DEF ReplyInv
<1> QED BY <1>6, <1>7, <1>8, <1>9, <1>10 DEF IInv

-----------------------------------------------------------------------------

\* The runtime: a handoff removes what is not linked and shows what is, and a
\* restart forgets the snapshot.
LEMMA RuntimeKeeps == ASSUME IInv, RuntimeStep PROVE IInv'
<1>1. TypeOK /\ GenerationsInUseExist /\ SnapshotDescribesLibrary /\ ReplyInv /\ SnapshotInv
  BY DEF IInv
<1>2. Started \in AttemptState /\ NoAttempt \in AttemptState /\ NoSnapshot \in Snapshot
  BY DEF Started, NoAttempt, AttemptState, NoSnapshot, Snapshot, Outcomes
<1>3. Started.pc = "up" /\ NoAttempt.pc = "idle" BY DEF Started, NoAttempt
<1> USE DEF inbox, client, library, ui
<1>4. CASE StartManual \/ StartAfterWake \/ Sleep
  <2>1. /\ UNCHANGED <<current, revision, stored, running, session, snapshot, disk, link, shown, bundleReady>>
        /\ wakeRequested' \in BOOLEAN
        /\ attempt' \in {attempt, Started, NoAttempt}
    BY <1>1, <1>4 DEF StartManual, StartAfterWake, Sleep, TypeOK
  <2> QED BY <1>1, <1>2, <1>3, <2>1
       DEF IInv, TypeOK, GenerationsInUseExist, SnapshotDescribesLibrary, ReplyInv, SnapshotInv
<1>5. CASE HandOff
  <2>1. /\ UNCHANGED <<current, revision, stored, running, session, snapshot, link, attempt, wakeRequested>>
        /\ bundleReady' = FALSE
        /\ shown' = link
    BY <1>5 DEF HandOff
  <2>2. PICK removed \in SUBSET (Generations \ {link}) :
          disk' = [g \in Generations |-> IF g \in removed THEN NoContent ELSE disk[g]]
    BY <1>5 DEF HandOff
  <2>3. /\ disk' \in [Generations -> Contents \union {NoContent}]
        /\ link # NoGeneration => disk'[link] = disk[link]
    BY <1>1, <2>2 DEF TypeOK
  <2>4. TypeOK' BY <1>1, <2>1, <2>3 DEF TypeOK
  <2>5. GenerationsInUseExist' BY <1>1, <2>1, <2>3 DEF GenerationsInUseExist
  <2>6. SnapshotDescribesLibrary' BY <1>1, <2>1, <2>3 DEF SnapshotDescribesLibrary
  <2>7. SnapshotInv' BY <1>1, <2>1, <2>3 DEF SnapshotInv, SnapshotDescribesLibrary
  <2>8. ReplyInv' BY <1>1, <2>1 DEF ReplyInv
  <2> QED BY <2>4, <2>5, <2>6, <2>7, <2>8 DEF IInv
<1>6. CASE Exit
  <2>1. /\ UNCHANGED <<current, revision, stored>>
        /\ running' = FALSE /\ session' = FALSE /\ wakeRequested' = FALSE /\ bundleReady' = FALSE
        /\ attempt' = NoAttempt /\ snapshot' = NoSnapshot /\ shown' = NoGeneration
        /\ \/ UNCHANGED <<disk, link>>
           \/ link' = NoGeneration /\ disk' = [g \in Generations |-> NoContent]
    BY <1>6 DEF Exit
  <2>2. ~ snapshot'.known /\ snapshot'.etag = NoContent BY <2>1 DEF NoSnapshot
  <2>3. TypeOK' BY <1>1, <1>2, <2>1 DEF TypeOK
  <2>4. GenerationsInUseExist' BY <1>1, <2>1 DEF GenerationsInUseExist
  <2> QED BY <1>3, <2>1, <2>2, <2>3, <2>4
       DEF IInv, SnapshotDescribesLibrary, ReplyInv, SnapshotInv
<1>7. CASE Boot
  <2>1. /\ UNCHANGED <<current, revision, stored, session, snapshot, disk, link, wakeRequested, bundleReady>>
        /\ running' = TRUE /\ shown' = link /\ attempt' = Started
    BY <1>7 DEF Boot
  <2> QED BY <1>1, <1>2, <1>3, <2>1
       DEF IInv, TypeOK, GenerationsInUseExist, SnapshotDescribesLibrary, ReplyInv, SnapshotInv
<1> QED BY <1>4, <1>5, <1>6, <1>7 DEF RuntimeStep

\* The inbox may move on in any way that counts the revision up whenever the
\* reference changes: nothing the client holds claims to be about the present.
LEMMA InboxMovesOn ==
  ASSUME IInv,
         UNCHANGED <<running, session, snapshot, disk, link, shown, attempt, wakeRequested, bundleReady>>,
         current' \in Bundles \union {NoBundle}, stored' \subseteq Bundles, revision' \in Nat,
         revision <= revision',
         revision' = revision => current' = current
  PROVE  IInv'
<1>1. TypeOK /\ GenerationsInUseExist /\ SnapshotDescribesLibrary /\ ReplyInv /\ SnapshotInv
  BY DEF IInv
<1>2. TypeOK' BY <1>1 DEF TypeOK
<1>3. GenerationsInUseExist' /\ SnapshotDescribesLibrary'
  BY <1>1 DEF GenerationsInUseExist, SnapshotDescribesLibrary
<1>4. snapshot.revision \in Nat /\ attempt.reply.revision \in Nat /\ revision \in Nat
  BY <1>1 DEF TypeOK, Snapshot, AttemptState
<1>5. ReplyInv' BY <1>1, <1>4 DEF ReplyInv
<1>6. SnapshotInv' BY <1>1, <1>4 DEF SnapshotInv
<1> QED BY <1>2, <1>3, <1>5, <1>6 DEF IInv

\* A push and a clear do so.
LEMMA InboxKeeps == ASSUME IInv, InboxStep PROVE IInv'
<1>1. TypeOK BY DEF IInv
<1>2. UNCHANGED <<running, session, snapshot, disk, link, shown, attempt, wakeRequested, bundleReady>>
  BY DEF InboxStep, client, library, ui
<1>3. /\ current' \in Bundles \union {NoBundle}
      /\ stored' \subseteq Bundles
      /\ revision' = revision + 1 \/ UNCHANGED <<current, revision>>
  BY <1>1 DEF InboxStep, Service!Clear, Service!Publish, Service!Discard, TypeOK
<1>4. revision' \in Nat /\ revision <= revision' /\ (revision' = revision => current' = current)
  BY <1>1, <1>3 DEF TypeOK
<1> QED BY <1>2, <1>3, <1>4, InboxMovesOn

\* Every step keeps the invariant.
LEMMA NextInv == IInv /\ [Next]_vars => IInv'
<1> SUFFICES ASSUME IInv, [Next]_vars PROVE IInv' OBVIOUS
<1>1. TypeOK /\ GenerationsInUseExist /\ SnapshotDescribesLibrary /\ ReplyInv /\ SnapshotInv
  BY DEF IInv
<1>2. CASE Talking
  <2>1. UNCHANGED <<current, revision, stored, snapshot, disk, link, shown>> /\ TypeOK' /\ ReplyInv'
    BY <1>2, TalkingKeeps DEF inbox, library
  <2> QED BY <1>1, <2>1 DEF IInv, GenerationsInUseExist, SnapshotDescribesLibrary, SnapshotInv
<1>3. CASE ReceiveEmpty BY <1>3, EmptyKeeps
<1>4. CASE Download BY <1>4, DownloadKeeps
<1>5. CASE PublishFails BY <1>5, PublishFailsKeeps
<1>6. CASE RuntimeStep BY <1>6, RuntimeKeeps
<1>7. CASE InboxStep BY <1>7, InboxKeeps
<1>8. CASE UNCHANGED vars
  BY <1>1, <1>8 DEF vars, inbox, client, library, ui, IInv, TypeOK, GenerationsInUseExist,
     SnapshotDescribesLibrary, ReplyInv, SnapshotInv
<1> QED BY <1>2, <1>3, <1>4, <1>5, <1>6, <1>7, <1>8 DEF Next, AttemptStep, Talking

-----------------------------------------------------------------------------

\* The invariant the theorems below follow from.
THEOREM Inductive == Spec => []IInv
<1> QED BY InitInv, NextInv, PTL DEF Spec

\* Every variable of client, runtime and file system keeps its type.
THEOREM TypeCorrect == Spec => []TypeOK
<1>1. IInv => TypeOK BY DEF IInv
<1> QED BY Inductive, <1>1, PTL

\* The library at `current` and the pages that are open are never removed.
THEOREM InUse == Spec => []GenerationsInUseExist
<1>1. IInv => GenerationsInUseExist BY DEF IInv
<1> QED BY Inductive, <1>1, PTL

\* The snapshot the next conditional request is made from tells of the library
\* that is there, wherever an attempt was broken off.
THEOREM SnapshotRight == Spec => []SnapshotDescribesLibrary
<1>1. IInv => SnapshotDescribesLibrary BY DEF IInv
<1> QED BY Inductive, <1>1, PTL

\* The client says "unchanged" on two answers, and of what it holds.
LEMMA UnchangedTold ==
  ASSUME IInv, [Next]_vars, attempt.outcome # "unchanged", attempt'.outcome = "unchanged"
  PROVE  IF current = NoBundle
           THEN link = NoGeneration
           ELSE link # NoGeneration /\ disk[link] = ContentOf[current]
<1>1. TypeOK /\ SnapshotDescribesLibrary /\ SnapshotInv BY DEF IInv
<1>2. ReceiveEmpty \/ ReceiveNotModified
  <2>1. attempt' # attempt OBVIOUS
  <2>2. Started.outcome = "none" /\ NoAttempt.outcome = "none" BY DEF Started, NoAttempt
  <2>3. ~ RuntimeStep
    BY <2>1, <2>2
    DEF RuntimeStep, StartManual, StartAfterWake, HandOff, Sleep, Exit, Boot
  <2>4. ~ InboxStep /\ ~ UNCHANGED vars BY <2>1 DEF InboxStep, vars
  <2>5. attempt \in AttemptState BY <1>1 DEF TypeOK
  <2>6. ~ (BringUp \/ CheckSession \/ Authorize \/ Fail \/ Reject \/ ReceiveCurrent)
    BY <2>5
    DEF BringUp, CheckSession, Authorize, Fail, Reject, ReceiveCurrent, GoTo, End, AttemptState
  <2>7. ~ (Download \/ DownloadNothing \/ PublishFails \/ Finish)
    BY <2>2, <2>5
    DEF Download, DownloadNothing, PublishFails, Finish, End, AttemptState
  <2> QED BY <2>3, <2>4, <2>6, <2>7 DEF Next, AttemptStep
<1>3. CASE ReceiveEmpty
  <2>1. attempt \in AttemptState BY <1>1 DEF TypeOK
  <2>2. current = NoBundle /\ snapshot = Empty(revision)
    BY <1>3, <2>1 DEF ReceiveEmpty, End, AttemptState
  <2> QED BY <1>1, <2>2 DEF SnapshotDescribesLibrary, Empty
<1>4. CASE ReceiveNotModified
  <2>1. attempt \in AttemptState BY <1>1 DEF TypeOK
  <2>2. snapshot.etag # NoContent /\ Matches /\ current # NoBundle
    BY <1>4, <2>1 DEF ReceiveNotModified, NotModified, End, AttemptState
  <2> QED BY <1>1, <2>2 DEF SnapshotDescribesLibrary, SnapshotInv, Matches
<1> QED BY <1>2, <1>3, <1>4

\* The client reports "unchanged" only when it holds the bytes of the current
\* bundle, or nothing when there is none.
THEOREM UnchangedTrue == Spec => UnchangedIsCurrent
<1>1. IInv /\ [Next]_vars => [attempt.outcome # "unchanged" /\ attempt'.outcome = "unchanged" =>
        IF current = NoBundle
          THEN link = NoGeneration
          ELSE link # NoGeneration /\ disk[link] = ContentOf[current]]_vars
  BY UnchangedTold
<1> QED BY Inductive, <1>1, PTL DEF Spec, UnchangedIsCurrent

\* Seen from the inbox, the device is a reader: only the inbox's own steps
\* change it, in every behaviour of the composition.
THEOREM InboxUndisturbed == Spec => Service!Spec
<1>1. Init => Service!Init BY DEF Init
<1>2. [Next]_vars => [Service!Next]_Service!vars
  <2> SUFFICES ASSUME [Next]_vars PROVE [Service!Next]_Service!vars OBVIOUS
  <2>1. CASE InboxStep BY <2>1 DEF InboxStep, Service!Next
  <2>2. CASE AttemptStep \/ RuntimeStep
    <3>1. UNCHANGED inbox
      BY <2>2 DEF AttemptStep, BringUp, CheckSession, Authorize, Fail, Reject, ReceiveEmpty,
         ReceiveNotModified, ReceiveCurrent, Download, DownloadNothing, PublishFails, Finish,
         RuntimeStep, StartManual, StartAfterWake, HandOff, Sleep, Exit, Boot
    <3> QED BY <3>1 DEF inbox, Service!vars
  <2>3. CASE UNCHANGED vars BY <2>3 DEF vars, inbox, Service!vars
  <2> QED BY <2>1, <2>2, <2>3 DEF Next
<1> QED BY <1>1, <1>2, PTL DEF Spec, Service!Spec

=============================================================================
