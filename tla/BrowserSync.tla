----------------------------- MODULE BrowserSync ----------------------------
(***************************************************************************)
(* The reader in a browser page (web/reader-web): its synchronization      *)
(* client (prsync-client.mjs), and the page that shows a library from the  *)
(* inbox or from a local directory (main.js).  Its environment is the      *)
(* abstract inbox of module Inbox.                                         *)
(*                                                                         *)
(* JavaScript runs from one `await` to the next, and a button starts an    *)
(* operation only while none is under way.  What the server answers is     *)
(* fixed when it answers; the page does nothing until the answer arrives.  *)
(* Nothing outlives the page, which may be reloaded at any point.          *)
(***************************************************************************)
EXTENDS Naturals

CONSTANTS
  Deliveries,   \* identities of stored archives
  ArchiveOf,    \* the archive of each: its bytes and its manifest; its tag names it
  MaxDelivered  \* bound: no push or clear happens at this revision

VARIABLES
  posted, number, kept,  \* the inbox
  access,    \* session: "none", "valid", or "expired" by the clock of the page
  known,     \* snapshot
  showing,   \* reader, and where it came from: an archive, "directory" or "nothing"
  offered,   \* whether "Sync now" can be pressed
  visit      \* the operation under way

hosted == <<posted, number, kept>>
browserVars == <<hosted, access, known, showing, offered, visit>>

Remote == INSTANCE Inbox WITH Bundles <- Deliveries, NoBundle <- "none",
                            current <- posted, revision <- number, stored <- kept

KnownArchives == {ArchiveOf[b] : b \in Deliveries}
Blank == [bytes |-> "none", manifest |-> "none"]
Directory == [bytes |-> "local", manifest |-> "local"]
Posted == IF posted = "none" THEN Blank ELSE ArchiveOf[posted]

NothingKnown == [kind |-> "unknown", revision |-> 0, tag |-> Blank]
KnownEmpty(revision) == [kind |-> "empty", revision |-> revision, tag |-> Blank]
KnownCurrent(revision, tag) == [kind |-> "current", revision |-> revision, tag |-> tag]

Still(outcome) == [at |-> "idle", reply |-> NothingKnown, outcome |-> outcome]
Visiting(place) == [at |-> place, reply |-> NothingKnown, outcome |-> "none"]

BrowserInit ==
  /\ Remote!Init
  /\ access = "none" /\ known = NothingKnown /\ showing = Blank /\ offered = FALSE
  /\ visit = Still("none")

\* The end of every operation; `finally` asks for the session, and drops an
\* expired one.
EndVisit(outcome, session) ==
  /\ visit' = Still(outcome)
  /\ offered' = (session = "valid")
  /\ access' = IF session = "valid" THEN "valid" ELSE "none"

\* authorize; nothing of an earlier session is kept.
PressAuthorize ==
  /\ visit.at = "idle" /\ visit' = Visiting("authorize")
  /\ access' = "none" /\ known' = NothingKnown
  /\ UNCHANGED <<hosted, showing, offered>>

\* A poll ends with a session, a refusal, the end of the request or an error.
Answered ==
  /\ visit.at = "authorize"
  /\ \/ access' = "valid" /\ visit' = Visiting("session") /\ UNCHANGED offered
     \/ EndVisit("failed", "none")
  /\ UNCHANGED <<hosted, known, showing>>

PressSync ==
  /\ visit.at = "idle" /\ offered /\ visit' = Visiting("session")
  /\ UNCHANGED <<hosted, access, known, showing, offered>>

\* validSessionOrClear; the request for the manifest is sent.
CheckSession ==
  /\ visit.at = "session"
  /\ IF access = "valid" THEN visit' = Visiting("manifest") /\ UNCHANGED <<access, offered>>
     ELSE EndVisit("failed", access)
  /\ UNCHANGED <<hosted, known, showing>>

\* clearSessionIfRejected, and any other error of a request or an answer.
RequestFails ==
  /\ visit.at \in {"manifest", "bundle"}
  /\ \E session \in {access, "none"} : EndVisit("failed", session)
  /\ UNCHANGED <<hosted, known, showing>>

\* The server compares the one condition the page sends.
NotModified == posted # "none" /\ known.kind # "unknown" /\ known.revision = number

ReceiveNotModified ==
  /\ visit.at = "manifest" /\ NotModified
  /\ EndVisit(IF known = KnownCurrent(number, Posted) THEN "unchanged" ELSE "failed", access)
  /\ UNCHANGED <<hosted, known, showing>>

ReceiveEmpty ==
  /\ visit.at = "manifest" /\ posted = "none"
  /\ IF known = KnownEmpty(number) THEN EndVisit("unchanged", access) /\ UNCHANGED <<known, showing>>
     ELSE EndVisit("cleared", access) /\ known' = KnownEmpty(number) /\ showing' = Blank
  /\ UNCHANGED hosted

\* The manifest is kept until the archive has arrived.  (That nothing changed
\* is found by NotModified; the page compares all the same.)
ReceiveCurrent ==
  /\ visit.at = "manifest" /\ posted # "none" /\ ~NotModified
  /\ IF known = KnownCurrent(number, Posted)
     THEN EndVisit("unchanged", access)
     ELSE /\ visit' = [Visiting("bundle") EXCEPT !.reply = KnownCurrent(number, Posted)]
          /\ UNCHANGED <<access, offered>>
  /\ UNCHANGED <<hosted, known, showing>>

\* load_sync_bundle
BundleAccepted == posted # "none" /\ Posted.manifest = visit.reply.tag.manifest

\* activateSyncedLibrary: an archive that is refused leaves the page as it
\* was; one that cannot be drawn is shown all the same, and not known.
ShowBundle ==
  /\ visit.at = "bundle"
  /\ \/ BundleAccepted /\ showing' = Posted /\ known' = visit.reply /\ EndVisit("replaced", access)
     \/ BundleAccepted /\ showing' = Posted /\ EndVisit("failed", access) /\ UNCHANGED known
     \/ EndVisit("failed", access) /\ UNCHANGED <<showing, known>>
  /\ UNCHANGED hosted

\* chooseLibrary
PressOpen ==
  /\ visit.at = "idle" /\ visit' = Visiting("directory")
  /\ UNCHANGED <<hosted, access, known, showing, offered>>

\* Mutant: a directory that cannot be opened is not told to the client.
FaultyOpenDirectory ==
  /\ visit.at = "directory"
  /\ \/ showing' = Directory /\ known' = NothingKnown /\ EndVisit("opened", access)
     \/ showing' = Blank /\ UNCHANGED known /\ EndVisit("failed", access)
     \/ UNCHANGED <<showing, known>> /\ EndVisit("cancelled", access)
  /\ UNCHANGED hosted

\* The directory is opened, fails to be, or is not chosen at all.
OpenDirectory ==
  /\ visit.at = "directory"
  /\ \/ showing' = Directory /\ known' = NothingKnown /\ EndVisit("opened", access)
     \/ showing' = Blank /\ known' = NothingKnown /\ EndVisit("failed", access)
     \/ UNCHANGED <<showing, known>> /\ EndVisit("cancelled", access)
  /\ UNCHANGED hosted

\* The page is loaded again, or closed and opened.
ReloadPage ==
  /\ access' = "none" /\ known' = NothingKnown /\ showing' = Blank /\ offered' = FALSE
  /\ visit' = Still("none")
  /\ UNCHANGED hosted

SessionExpires ==
  /\ access = "valid" /\ access' = "expired"
  /\ UNCHANGED <<hosted, known, showing, offered, visit>>

RemoteStep ==
  /\ number < MaxDelivered /\ Remote!Next
  /\ UNCHANGED <<access, known, showing, offered, visit>>

BrowserNext ==
  \/ PressAuthorize \/ Answered \/ PressSync \/ CheckSession \/ RequestFails
  \/ ReceiveNotModified \/ ReceiveEmpty \/ ReceiveCurrent \/ ShowBundle
  \/ PressOpen \/ OpenDirectory \/ ReloadPage \/ SessionExpires \/ RemoteStep

BrowserSpec == BrowserInit /\ [][BrowserNext]_browserVars

-----------------------------------------------------------------------------
(* Properties.                                                             *)

BrowserTypeOK ==
  /\ access \in {"none", "valid", "expired"} /\ offered \in BOOLEAN
  /\ known.kind \in {"unknown", "empty", "current"} /\ known.revision \in 0 .. number
  /\ showing \in KnownArchives \union {Blank, Directory}
  /\ visit.at \in {"idle", "authorize", "session", "manifest", "bundle", "directory"}
  /\ visit.at \in {"authorize", "session", "manifest", "bundle"} => visit.outcome = "none"

\* "Cloud library is unchanged" is said only when the page shows what is
\* current in the inbox then, whatever was pushed between manifest and
\* archive, opened from a directory, refused or half activated before.
UnchangedIsShown ==
  [][visit'.outcome = "unchanged" /\ visit' # visit
       => showing = Posted]_browserVars

=============================================================================
