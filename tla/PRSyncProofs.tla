---------------------------- MODULE PRSyncProofs ----------------------------
(***************************************************************************)
(* Proofs about PRSync, for every store, client and environment: what was  *)
(* proved of store and device each by itself holds of the two together,    *)
(* and the revision the device remembers vouches for its library.          *)
(***************************************************************************)
EXTENDS PRSync, BundleStoreProofs, TLAPS

\* The client again, with what DeviceSyncProofs proves of it.
Proved == INSTANCE DeviceSyncProofs
            WITH Bundles <- BundleIds, stored <- bundles \intersect objects,
                 current <- reader[Device].bundle, revision <- reader[Device].revision

\* Its assumptions are those of the system.
LEMMA ClientAssumption == Proved!ContentAssumption
BY DeviceAssumption, IdsAssumption DEF Proved!ContentAssumption

\* The client of the system is the client of the proofs: it starts alike,
LEMMA SameInit == Client!Init => Proved!Init
BY DEF Client!Init, Proved!Init, Client!Service!Init, Proved!Service!Init,
       Client!NoSnapshot, Proved!NoSnapshot, Client!Started, Proved!Started,
       Client!NoAttempt, Proved!NoAttempt

\* its steps are the same,
LEMMA SameAttempt == ASSUME Receive \/ Proceed PROVE Proved!AttemptStep
<1> USE DEF Proved!AttemptStep, Client!inbox, Proved!inbox, Client!client,
            Proved!client, Client!library, Proved!library, Client!ui, Proved!ui,
            Client!GoTo, Proved!GoTo, Client!End, Proved!End
<1>1. CASE Client!BringUp BY <1>1 DEF Client!BringUp, Proved!BringUp
<1>2. CASE Client!CheckSession BY <1>2 DEF Client!CheckSession, Proved!CheckSession
<1>3. CASE Client!Authorize BY <1>3 DEF Client!Authorize, Proved!Authorize
<1>4. CASE Client!Fail BY <1>4 DEF Client!Fail, Proved!Fail
<1>5. CASE Client!Reject
  BY <1>5 DEF Client!Reject, Proved!Reject, Client!Retry, Proved!Retry
<1>6. CASE Client!Finish
  BY <1>6 DEF Client!Finish, Proved!Finish, Client!ReadyAfter, Proved!ReadyAfter,
              Client!NoAttempt, Proved!NoAttempt, Client!NoSnapshot,
              Proved!NoSnapshot
<1>7. CASE Client!ReceiveEmpty
  BY <1>7 DEF Client!ReceiveEmpty, Proved!ReceiveEmpty, Client!Empty, Proved!Empty
<1>8. CASE Client!ReceiveNotModified
  BY <1>8 DEF Client!ReceiveNotModified, Proved!ReceiveNotModified,
              Client!NotModified, Proved!NotModified, Client!Matches,
              Proved!Matches, Client!Etag, Proved!Etag
<1>9. CASE Client!ReceiveCurrent
  BY <1>9 DEF Client!ReceiveCurrent, Proved!ReceiveCurrent, Client!NotModified,
              Proved!NotModified, Client!Etag, Proved!Etag, Client!Current,
              Proved!Current
<1>10. CASE Client!Download
  BY <1>10 DEF Client!Download, Proved!Download, Client!SameManifest,
               Proved!SameManifest, Client!Extracted, Proved!Extracted, Client!Etag,
               Proved!Etag
<1>11. CASE Client!DownloadNothing
  BY <1>11 DEF Client!DownloadNothing, Proved!DownloadNothing
<1>12. CASE Client!PublishFails
  BY <1>12 DEF Client!PublishFails, Proved!PublishFails, Client!SameManifest,
               Proved!SameManifest, Client!Extracted, Proved!Extracted, Client!Etag,
               Proved!Etag
<1> QED BY <1>1, <1>2, <1>3, <1>4, <1>5, <1>6, <1>7, <1>8, <1>9, <1>10, <1>11, <1>12 DEF Receive, Proceed

\* and so is the runtime around them.
LEMMA SameRuntime == ASSUME Client!RuntimeStep PROVE Proved!RuntimeStep
<1> USE DEF Proved!RuntimeStep, Client!inbox, Proved!inbox, Client!client,
            Proved!client, Client!library, Proved!library, Client!ui, Proved!ui,
            Client!Started, Proved!Started, Client!NoAttempt, Proved!NoAttempt,
            Client!NoSnapshot, Proved!NoSnapshot
<1>1. CASE Client!StartManual BY <1>1 DEF Client!StartManual, Proved!StartManual
<1>2. CASE Client!StartAfterWake
  BY <1>2 DEF Client!StartAfterWake, Proved!StartAfterWake
<1>3. CASE Client!HandOff BY <1>3 DEF Client!HandOff, Proved!HandOff
<1>4. CASE Client!Sleep BY <1>4 DEF Client!Sleep, Proved!Sleep
<1>5. CASE Client!Exit BY <1>5 DEF Client!Exit, Proved!Exit
<1>6. CASE Client!Boot BY <1>6 DEF Client!Boot, Proved!Boot
<1> QED BY <1>1, <1>2, <1>3, <1>4, <1>5, <1>6 DEF Client!RuntimeStep

-----------------------------------------------------------------------------
(* The invariant: that of the store, that of the client over the inbox as  *)
(* it last found it, and what holds before the first request.              *)

BeginningInv ==
  /\ revision = 0 => current = NoBundle
  /\ reader[Device].pc = "idle" => reader[Device] = NoRead

SystemIInv == IInv /\ BeginningInv /\ Proved!IInv

LEMMA SystemInitInv == SystemInit => SystemIInv
<1> SUFFICES ASSUME SystemInit PROVE SystemIInv OBVIOUS
<1>1. IInv BY InitInv DEF SystemInit
<1>2. BeginningInv BY DeviceAssumption DEF SystemInit, Init, BeginningInv
<1>3. Proved!IInv BY SameInit, ClientAssumption, Proved!InitInv DEF SystemInit
<1> QED BY <1>1, <1>2, <1>3 DEF SystemIInv

\* The device adds nothing to the store but requests of a reader.
LEMMA StoreSteps == [SystemNext]_systemVars => [Next]_vars
<1> SUFFICES ASSUME [SystemNext]_systemVars PROVE [Next]_vars OBVIOUS
<1>1. ASSUME ReaderStep(Device) PROVE Next BY <1>1, DeviceAssumption DEF Next
<1> QED BY <1>1 DEF SystemNext, Request, Serve, DeviceStep, StoreStep, systemVars, ReaderStep

\* The store's invariant is kept.
LEMMA StoreKeeps == IInv /\ [Next]_vars => IInv'
BY NextTypeOK, NextStoreInv, NextDeadlineInv, NextReaderInv DEF IInv

\* A step of the store or of a request, as the client sees it.
LEMMA ViewMovesOn ==
  ASSUME IInv, BeginningInv, [Next]_vars
  PROVE  /\ BeginningInv'
         /\ reader'[Device].bundle \in BundleIds \union {NoBundle}
         /\ (bundles \intersect objects)' \subseteq BundleIds
         /\ reader'[Device].revision \in Nat
         /\ reader[Device].revision <= reader'[Device].revision
         /\ reader'[Device].revision = reader[Device].revision =>
              reader'[Device].bundle = reader[Device].bundle
<1>1. IInv' BY StoreKeeps
<1>2. /\ reader[Device] \in ReaderState /\ reader'[Device] \in ReaderState
      /\ (bundles \intersect objects)' \subseteq BundleIds
      /\ revision \in Nat /\ revision' \in Nat
  BY <1>1, DeviceAssumption DEF IInv, TypeOK
<1>3. /\ reader'[Device].bundle \in BundleIds \union {NoBundle}
      /\ reader'[Device].revision \in Nat /\ reader[Device].revision \in Nat
  BY <1>2 DEF ReaderState, OptionalId
<1>4. \/ reader'[Device] = reader[Device]
      \/ /\ reader'[Device].pc # "idle"
         /\ UNCHANGED <<current, revision>>
         /\ \/ reader'[Device].bundle = current /\ reader'[Device].revision = revision
            \/ UNCHANGED <<reader[Device].bundle, reader[Device].revision>>
  <2>1. CASE UNCHANGED reader BY <2>1
  <2>2. reader \in [Readers -> ReaderState] /\ Device \in Readers
    BY DeviceAssumption DEF IInv, TypeOK
  <2>3. ASSUME NEW r \in Readers, ReaderStep(r), r # Device PROVE reader'[Device] = reader[Device]
    BY <2>2, <2>3 DEF ReaderStep, BeginRead, FetchRow, FetchObject
  <2>4. CASE ReaderStep(Device)
    BY <2>2, <2>4 DEF ReaderStep, BeginRead, FetchRow, FetchObject, ReaderState, database
  <2> QED BY <2>1, <2>3, <2>4, ReaderFrame
<1>5. revision' = 0 => current' = NoBundle
  BY <1>2, InboxStep DEF BeginningInv
<1>6. reader'[Device].pc = "idle" => reader'[Device] = NoRead
  BY <1>4 DEF BeginningInv
<1>7. reader[Device].pc # "idle" =>
        /\ reader[Device].revision <= revision
        /\ reader[Device].revision = revision => reader[Device].bundle = current
  BY DeviceAssumption DEF IInv, ReaderInv
<1>8. reader[Device].pc = "idle" => reader[Device].bundle = NoBundle /\ reader[Device].revision = 0
  BY DEF BeginningInv, NoRead
<1>9. reader[Device].revision <= reader'[Device].revision
  BY <1>2, <1>3, <1>4, <1>7, <1>8
<1>10. reader'[Device].revision = reader[Device].revision =>
         reader'[Device].bundle = reader[Device].bundle
  BY <1>2, <1>3, <1>4, <1>7, <1>8 DEF BeginningInv
<1> QED BY <1>2, <1>3, <1>5, <1>6, <1>9, <1>10 DEF BeginningInv

\* Every step of the system keeps the invariant.
LEMMA SystemNextInv == SystemIInv /\ [SystemNext]_systemVars => SystemIInv'
<1> SUFFICES ASSUME SystemIInv, [SystemNext]_systemVars PROVE SystemIInv' OBVIOUS
<1>1. IInv /\ BeginningInv /\ Proved!IInv BY DEF SystemIInv
<1>2. [Next]_vars BY StoreSteps
<1>3. IInv' /\ BeginningInv' BY <1>1, <1>2, StoreKeeps, ViewMovesOn
<1>4. CASE UNCHANGED deviceVars
  <2>1. Proved!IInv'
    BY <1>1, <1>2, <1>4, ViewMovesOn, ClientAssumption, Proved!InboxMovesOn DEF deviceVars
  <2> QED BY <1>3, <2>1 DEF SystemIInv
<1>5. CASE DeviceStep
  <2>1. [Proved!Next]_Proved!vars
    BY <1>5, SameAttempt, SameRuntime DEF DeviceStep, Proved!Next
  <2> QED BY <1>1, <1>3, <2>1, ClientAssumption, Proved!NextInv DEF SystemIInv
<1>6. UNCHANGED deviceVars \/ DeviceStep
  BY DEF SystemNext, Request, Serve, StoreStep, systemVars
<1> QED BY <1>3, <1>4, <1>5, <1>6 DEF SystemIInv

-----------------------------------------------------------------------------

THEOREM SystemInductive == SystemSpec => []SystemIInv
<1> QED BY SystemInitInv, SystemNextInv, PTL DEF SystemSpec

\* The device does to the store what any reader does: whatever is proved of
\* the store holds with the device asking it.
THEOREM StoreUndisturbed == SystemSpec => Spec
<1>1. SystemInit => Init BY DEF SystemInit
<1> QED BY <1>1, StoreSteps, PTL DEF SystemSpec, Spec

\* What the reader has open and what `current` points to exist, and the
\* snapshot describes the library, whenever the Worker answers and out of
\* whatever inbox.
THEOREM LibraryKept == SystemSpec => [](Client!GenerationsInUseExist /\ Client!SnapshotDescribesLibrary)
<1>1. SystemIInv => Client!GenerationsInUseExist /\ Client!SnapshotDescribesLibrary
  BY DEF SystemIInv, Proved!IInv, Client!GenerationsInUseExist,
         Proved!GenerationsInUseExist,
         Client!SnapshotDescribesLibrary, Proved!SnapshotDescribesLibrary
<1> QED BY SystemInductive, <1>1, PTL

\* A revision that is still that of the inbox vouches for the library.
THEOREM RevisionVouches == SystemSpec => []RevisionNamesLibrary
<1>1. ASSUME SystemIInv, snapshot.known, snapshot.revision = revision
      PROVE  IF current = NoBundle
               THEN link = NoGeneration
               ELSE link # NoGeneration /\ disk[link] = ContentOf[current]
  <2>1. /\ Proved!TypeOK /\ Proved!SnapshotInv /\ Proved!SnapshotDescribesLibrary
        /\ BeginningInv /\ IInv
    BY <1>1 DEF SystemIInv, Proved!IInv
  <2>2. reader[Device].revision \in Nat /\ revision \in Nat
    BY <2>1 DEF Proved!TypeOK, IInv, TypeOK
  <2>3. revision <= reader[Device].revision BY <1>1, <2>1 DEF Proved!SnapshotInv
  <2>4. CASE reader[Device].pc = "idle"
    <3>1. reader[Device].bundle = NoBundle /\ reader[Device].revision = 0
      BY <2>1, <2>4 DEF BeginningInv, NoRead
    <3>2. revision = 0 BY <2>2, <2>3, <3>1
    <3> QED BY <1>1, <2>1, <3>1, <3>2
         DEF BeginningInv, Proved!SnapshotInv, Proved!SnapshotDescribesLibrary
  <2>5. CASE reader[Device].pc # "idle"
    <3>1. /\ reader[Device].revision <= revision
          /\ reader[Device].revision = revision => reader[Device].bundle = current
      BY <2>1, <2>5, DeviceAssumption DEF IInv, ReaderInv
    <3>2. reader[Device].revision = revision /\ reader[Device].bundle = current
      BY <2>2, <2>3, <3>1
    <3> QED BY <1>1, <2>1, <3>2 DEF Proved!SnapshotInv, Proved!SnapshotDescribesLibrary
  <2> QED BY <2>4, <2>5
<1>2. SystemIInv => RevisionNamesLibrary BY <1>1 DEF RevisionNamesLibrary
<1> QED BY SystemInductive, <1>2, PTL

\* "Unchanged" is true of the inbox the Worker saw, and of the inbox as long as
\* its revision is the same.
THEOREM UnchangedServed == SystemSpec => UnchangedWhenServed
<1>1. ASSUME SystemIInv, [SystemNext]_systemVars,
             attempt.outcome # "unchanged", attempt'.outcome = "unchanged"
      PROVE  /\ IF reader[Device].bundle = NoBundle
                  THEN link = NoGeneration
                  ELSE link # NoGeneration /\ disk[link] = ContentOf[reader[Device].bundle]
             /\ reader[Device].revision = revision => reader[Device].bundle = current
  <2>1. Proved!IInv /\ IInv /\ BeginningInv BY <1>1 DEF SystemIInv
  <2>2. DeviceStep
    BY <1>1 DEF SystemNext, Request, Serve, StoreStep, systemVars, deviceVars
  <2>3. [Proved!Next]_Proved!vars
  BY <2>2, SameAttempt, SameRuntime DEF DeviceStep, Proved!Next
  <2>4. IF reader[Device].bundle = NoBundle
          THEN link = NoGeneration
          ELSE link # NoGeneration /\ disk[link] = ContentOf[reader[Device].bundle]
    BY <1>1, <2>1, <2>3, ClientAssumption, Proved!UnchangedTold
  <2>5. reader[Device].revision = revision => reader[Device].bundle = current
    <3>1. CASE reader[Device].pc = "idle" BY <2>1, <3>1 DEF BeginningInv, NoRead
    <3>2. CASE reader[Device].pc # "idle" BY <2>1, <3>2, DeviceAssumption DEF IInv, ReaderInv
    <3> QED BY <3>1, <3>2
  <2> QED BY <2>4, <2>5
<1>2. SystemIInv /\ [SystemNext]_systemVars =>
        [attempt.outcome # "unchanged" /\ attempt'.outcome = "unchanged" =>
           /\ IF reader[Device].bundle = NoBundle
                THEN link = NoGeneration
                ELSE link # NoGeneration /\ disk[link] = ContentOf[reader[Device].bundle]
           /\ reader[Device].revision = revision => reader[Device].bundle = current]_systemVars
  BY <1>1
<1> QED BY SystemInductive, <1>2, PTL DEF SystemSpec, UnchangedWhenServed

=============================================================================
