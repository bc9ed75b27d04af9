---------------------------- MODULE BundleStore ----------------------------
(***************************************************************************)
(* The Worker's storage of the single current bundle (storage.rs): the D1  *)
(* tables `inbox`, `bundles` and `bundle_lifecycle`, the R2 bucket, the    *)
(* handlers of concurrent pushes and clears, the reader route that opens   *)
(* the current object, and the hourly cleanup.                             *)
(*                                                                         *)
(* Every action ends at an `await` of the code: one D1 statement, one D1   *)
(* batch (a transaction) or one R2 call.  Between two of them any other    *)
(* invocation may run, and the invocation itself may end: the awaited call *)
(* may fail before or after it took effect, or the runtime may drop it.    *)
(***************************************************************************)
EXTENDS Integers, FiniteSets

CONSTANTS
  BundleIds,       \* the UUIDs candidate_id may draw; numbered in R2 key order
  Legacy,          \* ids of objects stored before lifecycle rows existed
  NoBundle,        \* NULL in D1, None in the handlers
  Senders,         \* invocations of PUT and DELETE /api/v1/sender/bundle
  Readers,         \* invocations of GET /api/v1/reader/bundle
  Cleaners,        \* invocations of the scheduled event
  Retention,       \* CLEANUP_RETENTION_SECONDS
  LifecycleLimit,  \* CLEANUP_BATCH_SIZE
  ObjectLimit,     \* CLEANUP_MAX_R2_OBJECTS
  Horizon,         \* bound: until then requests arrive and runs may be cut short
  MaxTime,         \* bound on the clock
  MaxRevision,     \* bound: no push or clear arrives at this revision
  MayAbort         \* bound: whether invocations of senders and cleaners may end early

ASSUME IdsAssumption ==
  /\ BundleIds \subseteq Nat
  /\ Legacy \subseteq BundleIds
  /\ NoBundle \notin BundleIds
ASSUME TimeAssumption == Retention \in Nat /\ Horizon \in Nat /\ MaxTime \in Nat

VARIABLES
  current,       \* inbox.current_bundle_id
  revision,      \* inbox.revision
  bundles,       \* ids with a row in `bundles`
  lifecycle,     \* id -> bundle_lifecycle.state, "absent" without a row
  cleanupAfter,  \* id -> bundle_lifecycle.cleanup_after
  objects,       \* ids whose object is in R2
  uploaded,      \* id -> the upload time R2 reports for its object
  drawn,         \* ids candidate_id has returned, and the legacy ones
  now,           \* the clock, in units of the retention arithmetic
  request,       \* sender -> its invocation
  cleaner,       \* cleaner -> its invocation
  reader         \* reader -> its invocation

database == <<current, revision, bundles, lifecycle, cleanupAfter>>
bucket == <<objects, uploaded>>
vars == <<database, bucket, drawn, now, request, cleaner, reader>>

OptionalId == BundleIds \union {NoBundle}

RequestState ==
  [pc : {"idle", "read_inbox", "read_row", "clear_inbox", "delete_previous",
         "reserve", "put", "publish"},
   op : {"push", "clear"},
   at : Nat,                  \* the request timestamp the handler captured
   previous : OptionalId,     \* what current_bundle returned
   candidate : OptionalId]    \* the id of the upload, once reserved

CleanerState ==
  [pc : {"idle", "lifecycle", "delete", "finish", "scan", "check_current",
         "delete_untracked"},
   at : Nat,                  \* the scheduled timestamp
   batch : SUBSET BundleIds,  \* expired_lifecycle_candidates not yet visited
   page : SUBSET BundleIds,   \* listed objects not yet visited
   target : OptionalId]       \* the row or object the loop body is at

ReaderState ==
  [pc : {"idle", "read_row", "get", "served", "failed"},
   bundle : OptionalId,
   revision : Nat]

NoRequest ==
  [pc |-> "idle", op |-> "clear", at |-> 0, previous |-> NoBundle, candidate |-> NoBundle]
NoCleanup == [pc |-> "idle", at |-> 0, batch |-> {}, page |-> {}, target |-> NoBundle]
NoRead == [pc |-> "idle", bundle |-> NoBundle, revision |-> 0]

-----------------------------------------------------------------------------
(* The conditions and values the SQL statements compute.  An operator      *)
(* named Faulty... is the one below it with a plausible mistake; no        *)
(* specification uses it, it serves to see a property fail.                *)

FaultyClearedRevision == revision
\* UPDATE inbox SET revision = revision + 1, by a clear and by a publication.
ClearedRevision == revision + 1
PublishedRevision == revision + 1

FaultyDeadline(at) == at
\* cleanup_after, of a reservation and of a publication.
Deadline(at) == at + Retention

FaultyPublishable(b) == b \in drawn
\* The INSERT of `publish` selects from the `uploading` row, so without that
\* row nothing is inserted, the reference violates its foreign key and the
\* batch rolls back.
Publishable(b) == lifecycle[b] = "uploading"

FaultyClaimable(b, time) == lifecycle[b] # "absent" /\ cleanupAfter[b] <= time
\* The WHERE clause of claim_lifecycle, which checks the row once more.
Claimable(b, time) ==
  lifecycle[b] # "absent" /\ cleanupAfter[b] <= time /\ ~ (b = current /\ b \in bundles)

FaultyExpired(time) ==
  {b \in BundleIds : lifecycle[b] \in {"uploading", "published"} /\ cleanupAfter[b] <= time}
Expired(time) == {b \in BundleIds : lifecycle[b] # "absent" /\ cleanupAfter[b] <= time}

Earlier(a, b) ==
  \/ cleanupAfter[a] < cleanupAfter[b]
  \/ cleanupAfter[a] = cleanupAfter[b] /\ a < b

\* ORDER BY cleanup_after, lifecycle_id LIMIT CLEANUP_BATCH_SIZE
ExpiredBatch(time) ==
  {b \in Expired(time) :
     Cardinality({a \in Expired(time) : Earlier(a, b)}) < LifecycleLimit}

\* The first page R2 lists: the lowest keys, ObjectLimit of them at most.
FirstObjects == {b \in objects : Cardinality({a \in objects : a < b}) < ObjectLimit}

\* Of those, the objects old enough to be considered.
AgedObjects(time) == {b \in FirstObjects : uploaded[b] + Retention <= time}

Init ==
  /\ current = NoBundle
  /\ revision = 0
  /\ bundles = {}
  /\ lifecycle = [b \in BundleIds |-> "absent"]
  /\ cleanupAfter = [b \in BundleIds |-> 0]
  /\ objects = Legacy
  /\ uploaded = [b \in BundleIds |-> 0]
  /\ drawn = Legacy
  /\ now = 0
  /\ request = [s \in Senders |-> NoRequest]
  /\ cleaner = [c \in Cleaners |-> NoCleanup]
  /\ reader = [r \in Readers |-> NoRead]

-----------------------------------------------------------------------------
(* Senders: BundleStore::push and BundleStore::clear.                      *)

\* The handler goes on to the next awaited call.
Goto(s, label) == request' = [request EXCEPT ![s].pc = label]

\* The handler returns, with an answer or with an error.
Return(s) == request' = [request EXCEPT ![s] = NoRequest]

\* What follows the removal of the previous object: a clear (also the one of
\* an oversized upload) is done, a push validates and reserves.
AfterDelete(s) == IF request[s].op = "push" THEN Goto(s, "reserve") ELSE Return(s)

\* An authenticated request reaches the store and captures its timestamp.
Begin(s) ==
  /\ request[s].pc = "idle"
  /\ now <= Horizon
  /\ revision < MaxRevision
  /\ \E op \in {"push", "clear"} :
       request' = [request EXCEPT ![s] =
                     [NoRequest EXCEPT !.pc = "read_inbox", !.op = op, !.at = now]]
  /\ UNCHANGED <<database, bucket, drawn, now, cleaner, reader>>

ReadInbox(s) ==
  /\ request[s].pc = "read_inbox"
  /\ request' = [request EXCEPT
                   ![s].previous = current,
                   ![s].pc = IF current = NoBundle THEN "clear_inbox" ELSE "read_row"]
  /\ UNCHANGED <<database, bucket, drawn, now, cleaner, reader>>

\* The second SELECT of current_bundle; a row that is gone is an error.
ReadRow(s) ==
  /\ request[s].pc = "read_row"
  /\ IF request[s].previous \in bundles THEN Goto(s, "clear_inbox") ELSE Return(s)
  /\ UNCHANGED <<database, bucket, drawn, now, cleaner, reader>>

ClearInbox(s) ==
  /\ request[s].pc = "clear_inbox"
  /\ current' = NoBundle
  /\ revision' = ClearedRevision
  /\ IF request[s].previous = NoBundle THEN AfterDelete(s) ELSE Goto(s, "delete_previous")
  /\ UNCHANGED <<bundles, lifecycle, cleanupAfter, bucket, drawn, now, cleaner, reader>>

DeletePrevious(s) ==
  /\ request[s].pc = "delete_previous"
  /\ objects' = objects \ {request[s].previous}
  /\ AfterDelete(s)
  /\ UNCHANGED <<database, uploaded, drawn, now, cleaner, reader>>

\* validate_for_publication fails, after the inbox was cleared.
RejectArchive(s) ==
  /\ request[s].pc = "reserve"
  /\ Return(s)
  /\ UNCHANGED <<database, bucket, drawn, now, cleaner, reader>>

\* The archive is valid: draw an id and insert its `uploading` row.
Reserve(s) ==
  /\ request[s].pc = "reserve"
  /\ \E b \in BundleIds \ drawn :
       /\ drawn' = drawn \union {b}
       /\ lifecycle' = [lifecycle EXCEPT ![b] = "uploading"]
       /\ cleanupAfter' = [cleanupAfter EXCEPT ![b] = Deadline(request[s].at)]
       /\ request' = [request EXCEPT ![s].candidate = b, ![s].pc = "put"]
  /\ UNCHANGED <<current, revision, bundles, bucket, now, cleaner, reader>>

Put(s) ==
  /\ request[s].pc = "put"
  /\ objects' = objects \union {request[s].candidate}
  /\ uploaded' = [uploaded EXCEPT ![request[s].candidate] = now]
  /\ Goto(s, "publish")
  /\ UNCHANGED <<database, drawn, now, cleaner, reader>>

\* The D1 batch of `publish`: metadata, reference and lifecycle row together.
Publish(s) ==
  /\ request[s].pc = "publish"
  /\ IF Publishable(request[s].candidate)
       THEN /\ bundles' = bundles \union {request[s].candidate}
            /\ current' = request[s].candidate
            /\ revision' = PublishedRevision
            /\ lifecycle' = [lifecycle EXCEPT ![request[s].candidate] = "published"]
            /\ cleanupAfter' = [cleanupAfter EXCEPT
                                  ![request[s].candidate] = Deadline(request[s].at)]
       ELSE UNCHANGED database
  /\ Return(s)
  /\ UNCHANGED <<bucket, drawn, now, cleaner, reader>>

\* The awaited call fails, or the runtime ends the invocation.  A call that
\* took effect before its answer was lost is the call followed by Abort.
Abort(s) ==
  /\ MayAbort
  /\ request[s].pc # "idle"
  /\ Return(s)
  /\ UNCHANGED <<database, bucket, drawn, now, cleaner, reader>>

SenderStep(s) ==
  \/ ReadInbox(s) \/ ReadRow(s) \/ ClearInbox(s) \/ DeletePrevious(s)
  \/ RejectArchive(s) \/ Reserve(s) \/ Put(s) \/ Publish(s)

-----------------------------------------------------------------------------
(* Readers: BundleStore::current, then current_object.                     *)

\* The first SELECT of `current`; an empty inbox is answered at once.
BeginRead(r) ==
  /\ reader[r].pc \in {"idle", "served", "failed"}
  /\ reader' = [reader EXCEPT ![r] =
                  [pc |-> IF current = NoBundle THEN "served" ELSE "read_row",
                   bundle |-> current, revision |-> revision]]
  /\ UNCHANGED <<database, bucket, drawn, now, request, cleaner>>

FetchRow(r) ==
  /\ reader[r].pc = "read_row"
  /\ reader' = [reader EXCEPT ![r].pc =
                  IF reader[r].bundle \in bundles THEN "get" ELSE "failed"]
  /\ UNCHANGED <<database, bucket, drawn, now, request, cleaner>>

FetchObject(r) ==
  /\ reader[r].pc = "get"
  /\ reader' = [reader EXCEPT ![r].pc =
                  IF reader[r].bundle \in objects THEN "served" ELSE "failed"]
  /\ UNCHANGED <<database, bucket, drawn, now, request, cleaner>>

ReaderStep(r) == BeginRead(r) \/ FetchRow(r) \/ FetchObject(r)

-----------------------------------------------------------------------------
(* The scheduled cleanup.                                                  *)

\* The event carries the time it was scheduled for, which may have passed.
BeginCleanup(c, at) ==
  /\ cleaner[c].pc = "idle"
  /\ cleaner' = [cleaner EXCEPT ![c] =
                   [NoCleanup EXCEPT !.pc = "lifecycle", !.at = at,
                                     !.batch = ExpiredBatch(at)]]
  /\ UNCHANGED <<database, bucket, drawn, now, request, reader>>

\* The batch is visited in any order; the code takes the earliest deadline first.
ClaimLifecycle(c) ==
  /\ cleaner[c].pc = "lifecycle"
  /\ \E b \in cleaner[c].batch :
       IF Claimable(b, cleaner[c].at)
         THEN /\ lifecycle' = [lifecycle EXCEPT ![b] = "cleanup_claimed"]
              /\ cleaner' = [cleaner EXCEPT ![c].batch = @ \ {b},
                                            ![c].target = b, ![c].pc = "delete"]
         ELSE /\ cleaner' = [cleaner EXCEPT ![c].batch = @ \ {b}]
              /\ UNCHANGED lifecycle
  /\ UNCHANGED <<current, revision, bundles, cleanupAfter, bucket, drawn, now,
                 request, reader>>

DeleteClaimed(c) ==
  /\ cleaner[c].pc = "delete"
  /\ objects' = objects \ {cleaner[c].target}
  /\ cleaner' = [cleaner EXCEPT ![c].pc = "finish"]
  /\ UNCHANGED <<database, uploaded, drawn, now, request, reader>>

FaultyDeleteClaimedFails(c) ==
  /\ cleaner[c].pc = "delete"
  /\ cleaner' = [cleaner EXCEPT ![c].pc = "finish"]
  /\ UNCHANGED <<database, bucket, drawn, now, request, reader>>

\* A failed R2 delete is logged; the claimed row stays for a later run.
DeleteClaimedFails(c) ==
  /\ cleaner[c].pc = "delete"
  /\ cleaner' = [cleaner EXCEPT ![c].pc = "lifecycle", ![c].target = NoBundle]
  /\ UNCHANGED <<database, bucket, drawn, now, request, reader>>

\* finish_lifecycle_cleanup: one batch, the metadata row first, then the
\* lifecycle row if it is still claimed and no metadata refers to it.
FinishLifecycle(c) ==
  /\ cleaner[c].pc = "finish"
  /\ LET b == cleaner[c].target
     IN /\ bundles' = IF b = current THEN bundles ELSE bundles \ {b}
        /\ lifecycle' = IF lifecycle[b] = "cleanup_claimed" /\ b \notin bundles'
                          THEN [lifecycle EXCEPT ![b] = "absent"]
                          ELSE lifecycle
  /\ cleaner' = [cleaner EXCEPT ![c].pc = "lifecycle", ![c].target = NoBundle]
  /\ UNCHANGED <<current, revision, cleanupAfter, bucket, drawn, now, request, reader>>

ListObjects(c) ==
  /\ cleaner[c].pc = "lifecycle"
  /\ cleaner[c].batch = {}
  /\ cleaner' = [cleaner EXCEPT ![c].pc = "scan", ![c].page = AgedObjects(cleaner[c].at)]
  /\ UNCHANGED <<database, bucket, drawn, now, request, reader>>

\* object_is_tracked: an object with a lifecycle row is left to the claim.  The
\* page, too, is visited in any order.
CheckTracked(c) ==
  /\ cleaner[c].pc = "scan"
  /\ \E b \in cleaner[c].page :
       cleaner' = [cleaner EXCEPT
                     ![c].page = @ \ {b},
                     ![c].target = IF lifecycle[b] = "absent" THEN b ELSE NoBundle,
                     ![c].pc = IF lifecycle[b] = "absent" THEN "check_current" ELSE "scan"]
  /\ UNCHANGED <<database, bucket, drawn, now, request, reader>>

\* object_is_current
CheckCurrent(c) ==
  /\ cleaner[c].pc = "check_current"
  /\ cleaner' = IF cleaner[c].target = current /\ current \in bundles
                  THEN [cleaner EXCEPT ![c].pc = "scan", ![c].target = NoBundle]
                  ELSE [cleaner EXCEPT ![c].pc = "delete_untracked"]
  /\ UNCHANGED <<database, bucket, drawn, now, request, reader>>

DeleteUntracked(c) ==
  /\ cleaner[c].pc = "delete_untracked"
  /\ objects' = objects \ {cleaner[c].target}
  /\ cleaner' = [cleaner EXCEPT ![c].pc = "scan", ![c].target = NoBundle]
  /\ UNCHANGED <<database, uploaded, drawn, now, request, reader>>

DeleteUntrackedFails(c) ==
  /\ cleaner[c].pc = "delete_untracked"
  /\ cleaner' = [cleaner EXCEPT ![c].pc = "scan", ![c].target = NoBundle]
  /\ UNCHANGED <<database, bucket, drawn, now, request, reader>>

EndCleanup(c) ==
  /\ cleaner[c].pc = "scan"
  /\ cleaner[c].page = {}
  /\ cleaner' = [cleaner EXCEPT ![c] = NoCleanup]
  /\ UNCHANGED <<database, bucket, drawn, now, request, reader>>

\* A failing D1 call or R2 list ends the whole run.  Bound: this happens
\* up to the horizon.
AbortCleanup(c) ==
  /\ MayAbort
  /\ now <= Horizon
  /\ cleaner[c].pc # "idle"
  /\ cleaner' = [cleaner EXCEPT ![c] = NoCleanup]
  /\ UNCHANGED <<database, bucket, drawn, now, request, reader>>

CleanerStep(c) ==
  \/ \E at \in 0..now : BeginCleanup(c, at)
  \/ ClaimLifecycle(c) \/ DeleteClaimed(c) \/ FinishLifecycle(c)
  \/ ListObjects(c) \/ CheckTracked(c) \/ CheckCurrent(c) \/ DeleteUntracked(c)
  \/ EndCleanup(c)

-----------------------------------------------------------------------------

\* Past the horizon the clock waits for the requests under way.
Tick ==
  /\ now < MaxTime
  /\ now < Horizon \/ \A s \in Senders : request[s].pc = "idle"
  /\ now' = now + 1
  /\ UNCHANGED <<database, bucket, drawn, request, cleaner, reader>>

Next ==
  \/ \E s \in Senders : Begin(s) \/ SenderStep(s) \/ Abort(s)
  \/ \E r \in Readers : ReaderStep(r)
  \/ \E c \in Cleaners :
       CleanerStep(c) \/ DeleteClaimedFails(c) \/ DeleteUntrackedFails(c) \/ AbortCleanup(c)
  \/ Tick

Spec == Init /\ [][Next]_vars

\* Requests end, time passes, the schedule fires again and again without delay,
\* and an R2 delete that is retried for ever does not fail for ever.
Fairness ==
  /\ \A s \in Senders : WF_vars(SenderStep(s) \/ Abort(s))
  /\ SF_vars(Tick)
  /\ \A c \in Cleaners :
       /\ WF_vars(CleanerStep(c))
       /\ SF_vars(BeginCleanup(c, now))
       /\ SF_vars(DeleteClaimed(c))
       /\ SF_vars(DeleteUntracked(c))

FairSpec == Spec /\ Fairness

-----------------------------------------------------------------------------
(* Properties.                                                             *)

\* Every variable has its type: no step of any invocation leaves a revision,
\* a row, a timestamp or a label the code could not have.
TypeOK ==
  /\ current \in OptionalId
  /\ revision \in Nat
  /\ bundles \subseteq BundleIds
  /\ lifecycle \in [BundleIds -> {"absent", "uploading", "published", "cleanup_claimed"}]
  /\ cleanupAfter \in [BundleIds -> Nat]
  /\ objects \subseteq BundleIds
  /\ uploaded \in [BundleIds -> Nat]
  /\ drawn \subseteq BundleIds
  /\ now \in Nat
  /\ request \in [Senders -> RequestState]
  /\ cleaner \in [Cleaners -> CleanerState]
  /\ reader \in [Readers -> ReaderState]

\* Whatever pushes, clears and cleanups interleave, the bundle the inbox
\* references has its metadata row, a `published` lifecycle row and its R2
\* object: the reader routes can serve it at any moment.
CurrentIsServable ==
  current # NoBundle =>
    /\ current \in bundles
    /\ lifecycle[current] = "published"
    /\ current \in objects

\* An upload that has not outlived the retention period still holds its
\* `uploading` row, and its object once stored: however many cleanups ran
\* since it began, its publication will succeed.
FreshUploadSurvives ==
  \A s \in Senders :
    /\ request[s].pc \in {"put", "publish"}
    /\ now < request[s].at + Retention
    => /\ lifecycle[request[s].candidate] = "uploading"
       /\ request[s].pc = "publish" => request[s].candidate \in objects

\* A revision names one state of the inbox: while the revision a reader got is
\* still the revision of the inbox, the inbox references what that reader saw.
\* The conditional manifest request (If-Revision) relies on it.
RevisionNamesState ==
  \A r \in Readers :
    reader[r].pc # "idle" /\ reader[r].revision = revision => reader[r].bundle = current

\* A reader that lost the race for a row or an object was overtaken: the bundle
\* it failed to get is no longer the current one, so the next attempt sees a
\* different inbox.
ReaderFailsOnlyWhenReplaced ==
  [][\A r \in Readers :
       reader[r].pc # "failed" /\ reader'[r].pc = "failed" => reader[r].bundle # current]_vars

\* Cleanup removes in dependency order: a metadata row goes only when its
\* object is gone, also when R2 deletes fail and runs overlap.
MetadataOutlivesObject ==
  [][\A b \in bundles : b \notin bundles' => b \notin objects']_vars

\* The inbox as its readers know it: a bundle counts as stored when both its
\* metadata and its object exist.
Promise == INSTANCE Inbox WITH Bundles <- BundleIds, stored <- bundles \intersect objects

\* Every interleaving of the handlers and the cleanup is a behaviour of the
\* abstract inbox.
ImplementsInbox == Promise!Spec

\* Storage is reclaimed: whatever a failed, abandoned or overtaken invocation
\* left behind, an object, a metadata row or a lifecycle row of a bundle that
\* is not current does not stay for ever.
StorageReclaimed ==
  \A b \in BundleIds :
    b \in objects \/ lifecycle[b] # "absent"
      ~> (b \notin objects /\ lifecycle[b] = "absent" /\ b \notin bundles) \/ b = current

\* docs/prsync.md, "A replaced object is deleted before the replacement is
\* stored": when a push has stored its object, no earlier published object is
\* left, apart from the ones an invocation is about to delete.
ReplacedObjectDeleted ==
  \A s \in Senders :
    request[s].pc = "publish" =>
      \A b \in bundles \intersect objects :
        \/ b = current
        \/ \E t \in Senders : request[t].pc = "delete_previous" /\ request[t].previous = b

=============================================================================
