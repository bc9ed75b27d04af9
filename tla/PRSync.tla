------------------------------- MODULE PRSync -------------------------------
(***************************************************************************)
(* The reader device and the Worker's store together.  The client of the   *)
(* device (DeviceSync) no longer looks into an inbox: each of its requests *)
(* is an invocation of the reader routes (BundleStore), which takes one    *)
(* statement after the other while pushes, clears and cleanups go on, and  *)
(* whose answer the device gets later, or never: the attempt may be        *)
(* dropped with the request under way.  So the client sees the inbox as    *)
(* its latest invocation found it, and that may be long gone.              *)
(***************************************************************************)
EXTENDS BundleStore

CONSTANTS
  Device,        \* the reader whose invocations are the device's requests
  Contents, Manifests, ContentOf, ManifestOf, NoContent, Generations, NoGeneration

ASSUME DeviceAssumption ==
  /\ Device \in Readers
  /\ ContentOf \in [BundleIds -> Contents]
  /\ ManifestOf \in [Contents -> Manifests]
  /\ NoContent \notin Contents
  /\ NoGeneration \notin Generations

VARIABLES
  running, session, snapshot, disk, link, shown, attempt, wakeRequested, bundleReady,
  waiting    \* the device has sent a request and waits for the answer

deviceVars == <<running, session, snapshot, disk, link, shown, attempt, wakeRequested, bundleReady>>
systemVars == <<vars, deviceVars, waiting>>

\* What the device takes for the inbox: what the SELECT of its latest
\* invocation returned.
Client == INSTANCE DeviceSync
            WITH Bundles <- BundleIds, stored <- bundles \intersect objects,
                 current <- reader[Device].bundle, revision <- reader[Device].revision

SystemInit == Init /\ Client!Init /\ waiting = FALSE

\* The request arrives: its first statement.  An earlier request, which the
\* device gave up, has ended by then; nothing depends on when.
Request ==
  /\ attempt.pc \in {"manifest", "bundle"}
  /\ ~ waiting
  /\ BeginRead(Device)
  /\ waiting' = TRUE
  /\ UNCHANGED deviceVars

\* The statements after it.  The manifest is in the row, so the route of the
\* manifest ends there.
Serve ==
  /\ \/ FetchRow(Device)
     \/ FetchObject(Device) /\ (waiting => attempt.pc = "bundle")
  /\ UNCHANGED <<deviceVars, waiting>>

\* The route has what it answers with; it answers "failed" with an error.
Answered ==
  /\ waiting
  /\ \/ reader[Device].pc = "served"
     \/ reader[Device].pc = "get" /\ attempt.pc = "manifest"

\* Steps of the attempt that an answer makes.
Receive ==
  \/ Client!ReceiveEmpty \/ Client!ReceiveNotModified \/ Client!ReceiveCurrent
  \/ Client!Download \/ Client!DownloadNothing \/ Client!PublishFails

\* Steps it makes without one: not all of them while it waits, but a request
\* may fail, be rejected or time out whatever becomes of it in the Worker.
Proceed ==
  \/ Client!BringUp \/ Client!CheckSession \/ Client!Authorize
  \/ Client!Fail \/ Client!Reject \/ Client!Finish

\* With the attempt's step, or its end, it no longer waits.
DeviceStep ==
  /\ UNCHANGED vars
  /\ (Answered /\ Receive) \/ Proceed \/ Client!RuntimeStep
  /\ waiting' = (waiting /\ attempt' = attempt)

\* Senders, cleanups and other readers.
StoreStep ==
  /\ Next
  /\ UNCHANGED <<reader[Device], deviceVars, waiting>>

SystemNext == Request \/ Serve \/ DeviceStep \/ StoreStep

SystemSpec == SystemInit /\ [][SystemNext]_systemVars

-----------------------------------------------------------------------------
(* Properties.                                                             *)

\* The client may be answered out of an inbox that has changed since, by an
\* invocation overtaken between its statements, and attempts are dropped at
\* any point: still, while the revision it remembers is that of the inbox, the
\* library of the device is what the inbox holds, byte for byte, and there is
\* none when the inbox is empty.  "If-Revision" relies on it.
RevisionNamesLibrary ==
  snapshot.known /\ snapshot.revision = revision =>
    IF current = NoBundle
      THEN link = NoGeneration
      ELSE link # NoGeneration /\ disk[link] = ContentOf[current]

\* An attempt says "unchanged" of the library the inbox held when the Worker
\* looked, and if the inbox has not changed since, of what it holds now.
UnchangedWhenServed ==
  [][attempt.outcome # "unchanged" /\ attempt'.outcome = "unchanged" =>
       /\ IF reader[Device].bundle = NoBundle
            THEN link = NoGeneration
            ELSE link # NoGeneration /\ disk[link] = ContentOf[reader[Device].bundle]
       /\ reader[Device].revision = revision => reader[Device].bundle = current]_systemVars

=============================================================================
