------------------------- MODULE BundleStoreProofs -------------------------
(***************************************************************************)
(* Machine-checked proofs about BundleStore: for any number of invocations *)
(* and ids and any value of the bounds, the current bundle stays servable, *)
(* a fresh upload survives cleanup, a revision names one inbox state, and  *)
(* the store implements the abstract inbox.                                *)
(***************************************************************************)
EXTENDS BundleStore, TLAPS

\* An id that occurs anywhere was drawn: the next upload gets another one.
DrawnInv ==
  \A b \in BundleIds :
    lifecycle[b] # "absent" \/ b \in objects \/ b \in bundles => b \in drawn

\* The trigger and the foreign keys on `bundles`: metadata has a lifecycle row
\* that is past uploading.
MetadataInv == \A b \in bundles : lifecycle[b] \in {"published", "cleanup_claimed"}

Uploading(s) == request[s].pc \in {"put", "publish"}

\* What a handler remembers stays true over its awaits: the previous bundle is
\* never again published, and the candidate is nobody else's.
RequestInv ==
  \A s \in Senders :
    /\ request[s].previous # NoBundle =>
         /\ request[s].previous \in drawn
         /\ lifecycle[request[s].previous] # "uploading"
    /\ request[s].pc = "delete_previous" =>
         request[s].previous # NoBundle /\ request[s].previous # current
    /\ Uploading(s) =>
         /\ request[s].candidate \in drawn
         /\ request[s].candidate \notin bundles
    /\ request[s].pc = "publish" /\ lifecycle[request[s].candidate] = "uploading" =>
         request[s].candidate \in objects

DistinctInv ==
  \A s, t \in Senders :
    s # t /\ Uploading(s) /\ Uploading(t) => request[s].candidate # request[t].candidate

\* What a cleanup is about to delete can no longer be published.
CleanerInv ==
  \A c \in Cleaners :
    /\ cleaner[c].page \subseteq drawn
    /\ cleaner[c].pc \in {"delete", "finish"} =>
         /\ cleaner[c].target \in drawn
         /\ lifecycle[cleaner[c].target] \in {"cleanup_claimed", "absent"}
    /\ cleaner[c].pc = "finish" =>
         cleaner[c].target \notin objects \/ cleaner[c].target \notin bundles
    /\ cleaner[c].pc \in {"check_current", "delete_untracked"} =>
         /\ cleaner[c].target \in drawn
         /\ lifecycle[cleaner[c].target] = "absent"

\* Deadlines count from the request, and a cleanup never looks into the future.
DeadlineInv ==
  /\ \A c \in Cleaners : cleaner[c].at <= now
  /\ \A s \in Senders :
       Uploading(s) =>
         /\ cleanupAfter[request[s].candidate] = request[s].at + Retention
         /\ now < request[s].at + Retention => lifecycle[request[s].candidate] = "uploading"

\* A reader's revision is not ahead of the inbox, and what it fetches exists.
ReaderInv ==
  \A r \in Readers :
    /\ reader[r].pc # "idle" =>
         /\ reader[r].revision <= revision
         /\ reader[r].revision = revision => reader[r].bundle = current
    /\ reader[r].pc \in {"read_row", "get"} => reader[r].bundle # NoBundle

StoreInv == DrawnInv /\ MetadataInv /\ RequestInv /\ DistinctInv /\ CleanerInv /\ CurrentIsServable

IInv == TypeOK /\ StoreInv /\ DeadlineInv /\ ReaderInv

-----------------------------------------------------------------------------

USE IdsAssumption, TimeAssumption

\* The initial state, an empty inbox with nothing but legacy objects.
LEMMA InitInv == Init => IInv
<1> SUFFICES ASSUME Init PROVE IInv OBVIOUS
<1>1. /\ NoRequest \in RequestState
      /\ NoCleanup \in CleanerState
      /\ NoRead \in ReaderState
  BY DEF NoRequest, NoCleanup, NoRead, RequestState, CleanerState, ReaderState, OptionalId
<1>2. TypeOK BY <1>1 DEF Init, TypeOK, OptionalId
<1>3. StoreInv
  BY DEF Init, StoreInv, DrawnInv, MetadataInv, RequestInv, DistinctInv, CleanerInv, CurrentIsServable,
         Uploading, NoRequest, NoCleanup
<1>4. DeadlineInv BY DEF Init, DeadlineInv, Uploading, NoRequest, NoCleanup
<1>5. ReaderInv BY DEF Init, ReaderInv, NoRead
<1> QED BY <1>2, <1>3, <1>4, <1>5 DEF IInv

CandidateIsId(s) == Uploading(s) => request[s].candidate \in BundleIds

\* No step of a sender's invocation leaves the types.
LEMMA SenderTypeOK ==
  ASSUME TypeOK, NEW s \in Senders, CandidateIsId(s), Begin(s) \/ SenderStep(s) \/ Abort(s)
  PROVE  TypeOK'
<1>1. /\ request \in [Senders -> RequestState]
      /\ request[s] \in RequestState
      /\ NoRequest \in RequestState
      /\ NoBundle \in OptionalId
  BY DEF TypeOK, RequestState, NoRequest, OptionalId
<1>2. /\ request[s].at \in Nat
      /\ request[s].candidate \in OptionalId
      /\ request[s].previous \in OptionalId
  BY <1>1 DEF RequestState
<1>3. ASSUME NEW label, Goto(s, label),
             label \in {"read_inbox", "read_row", "clear_inbox", "delete_previous", "reserve", "put", "publish"}
      PROVE  request' \in [Senders -> RequestState]
  BY <1>1, <1>3 DEF Goto, RequestState
<1>4. Return(s) => request' \in [Senders -> RequestState]
  BY <1>1 DEF Return
<1>5. AfterDelete(s) => request' \in [Senders -> RequestState]
  BY <1>3, <1>4 DEF AfterDelete
<1> USE DEF database, bucket
<1>6. CASE Begin(s)
  <2>1. PICK op \in {"push", "clear"} :
          request' = [request EXCEPT ![s] =
                        [NoRequest EXCEPT !.pc = "read_inbox", !.op = op, !.at = now]]
    BY <1>6 DEF Begin
  <2>2. [NoRequest EXCEPT !.pc = "read_inbox", !.op = op, !.at = now] \in RequestState
    BY <1>1, now \in Nat DEF RequestState, TypeOK
  <2>3. request' \in [Senders -> RequestState]
    BY <2>1, <2>2, <1>1
  <2> QED BY <1>6, <2>3 DEF Begin, TypeOK
<1>7. CASE ReadInbox(s)
  <2>1. current \in OptionalId BY DEF TypeOK
  <2>2. request' \in [Senders -> RequestState] BY <1>7, <1>1, <2>1 DEF ReadInbox, RequestState
  <2> QED BY <1>7, <2>2 DEF ReadInbox, TypeOK
<1>8. CASE ReadRow(s) BY <1>8, <1>3, <1>4 DEF ReadRow, TypeOK
<1>9. CASE ClearInbox(s) BY <1>9, <1>1, <1>3, <1>5 DEF ClearInbox, ClearedRevision, TypeOK
<1>10. CASE DeletePrevious(s) BY <1>10, <1>5 DEF DeletePrevious, TypeOK
<1>11. CASE RejectArchive(s) BY <1>11, <1>4 DEF RejectArchive, TypeOK
<1>12. CASE Reserve(s)
  <2>1. PICK b \in BundleIds \ drawn :
          /\ drawn' = drawn \union {b}
          /\ lifecycle' = [lifecycle EXCEPT ![b] = "uploading"]
          /\ cleanupAfter' = [cleanupAfter EXCEPT ![b] = Deadline(request[s].at)]
          /\ request' = [request EXCEPT ![s].candidate = b, ![s].pc = "put"]
    BY <1>12 DEF Reserve
  <2>2. b \in OptionalId BY DEF OptionalId
  <2>3. request' \in [Senders -> RequestState] BY <2>1, <2>2, <1>1 DEF RequestState
  <2>4. Deadline(request[s].at) \in Nat BY <1>2 DEF Deadline
  <2> QED BY <1>12, <2>1, <2>3, <2>4 DEF Reserve, TypeOK
<1>13. CASE Put(s) BY <1>13, <1>3 DEF Put, TypeOK, CandidateIsId, Uploading
<1>14. CASE Publish(s)
  <2>1. request[s].candidate \in BundleIds BY <1>14 DEF Publish, CandidateIsId, Uploading
  <2>2. Deadline(request[s].at) \in Nat BY <1>2 DEF Deadline
  <2>3. request' \in [Senders -> RequestState] BY <1>14, <1>4 DEF Publish
  <2>4. CASE Publishable(request[s].candidate)
    <3>1. current' \in OptionalId /\ bundles' \subseteq BundleIds
      BY <1>14, <2>1, <2>4 DEF Publish, TypeOK, OptionalId
    <3>2. revision' \in Nat
      BY <1>14, <2>4 DEF Publish, PublishedRevision, TypeOK
    <3>3. lifecycle' \in [BundleIds -> {"absent", "uploading", "published", "cleanup_claimed"}]
      BY <1>14, <2>4 DEF Publish, TypeOK
    <3>4. cleanupAfter' \in [BundleIds -> Nat]
      BY <1>14, <2>2, <2>4 DEF Publish, TypeOK
    <3> QED BY <1>14, <2>3, <3>1, <3>2, <3>3, <3>4 DEF Publish, TypeOK
  <2>5. CASE ~ Publishable(request[s].candidate)
    BY <1>14, <2>3, <2>5 DEF Publish, TypeOK
  <2> QED BY <2>4, <2>5
<1>15. CASE Abort(s) BY <1>15, <1>4 DEF Abort, TypeOK
<1> QED BY <1>6, <1>7, <1>8, <1>9, <1>10, <1>11, <1>12, <1>13, <1>14, <1>15 DEF SenderStep

CleanerNext(c) == CleanerStep(c) \/ DeleteClaimedFails(c) \/ DeleteUntrackedFails(c) \/ AbortCleanup(c)

\* The candidates and pages of a cleanup are ids.
LEMMA BatchesAreIds ==
  ASSUME TypeOK, NEW time
  PROVE  ExpiredBatch(time) \subseteq BundleIds /\ AgedObjects(time) \subseteq objects
  BY DEF ExpiredBatch, Expired, AgedObjects, FirstObjects

TargetIsId(c) ==
  cleaner[c].pc \in {"delete", "finish", "check_current", "delete_untracked"} =>
    cleaner[c].target \in BundleIds

\* No step of a cleanup leaves the types.
LEMMA CleanerTypeOK ==
  ASSUME TypeOK, NEW c \in Cleaners, TargetIsId(c), CleanerNext(c)
  PROVE  TypeOK'
<1>1. /\ cleaner \in [Cleaners -> CleanerState]
      /\ cleaner[c] \in CleanerState
      /\ NoCleanup \in CleanerState
      /\ NoBundle \in OptionalId
  BY DEF TypeOK, CleanerState, NoCleanup, OptionalId
<1>2. /\ cleaner[c].at \in Nat
      /\ cleaner[c].batch \subseteq BundleIds
      /\ cleaner[c].page \subseteq BundleIds
  BY <1>1 DEF CleanerState
<1> USE DEF database, bucket
<1>3. ASSUME NEW at \in 0..now, BeginCleanup(c, at) PROVE TypeOK'
  <2>1. [NoCleanup EXCEPT !.pc = "lifecycle", !.at = at, !.batch = ExpiredBatch(at)]
          \in CleanerState
    <3>1. at \in Nat BY DEF TypeOK
    <3> QED BY <1>1, <3>1, BatchesAreIds DEF CleanerState
  <2>2. cleaner' \in [Cleaners -> CleanerState] BY <1>3, <2>1, <1>1 DEF BeginCleanup
  <2> QED BY <1>3, <2>2 DEF BeginCleanup, TypeOK
<1>4. CASE ClaimLifecycle(c)
  <2>1. PICK b \in cleaner[c].batch :
          \/ /\ lifecycle' = [lifecycle EXCEPT ![b] = "cleanup_claimed"]
             /\ cleaner' = [cleaner EXCEPT ![c].batch = @ \ {b},
                                           ![c].target = b, ![c].pc = "delete"]
          \/ /\ cleaner' = [cleaner EXCEPT ![c].batch = @ \ {b}]
             /\ UNCHANGED lifecycle
    BY <1>4 DEF ClaimLifecycle
  <2>2. b \in OptionalId /\ cleaner[c].batch \ {b} \in SUBSET BundleIds BY <1>2 DEF OptionalId
  <2>3. cleaner' \in [Cleaners -> CleanerState] BY <2>1, <2>2, <1>1 DEF CleanerState
  <2> QED BY <1>4, <2>1, <2>3 DEF ClaimLifecycle, TypeOK
<1>5. CASE DeleteClaimed(c)
  <2>1. cleaner' \in [Cleaners -> CleanerState] BY <1>5, <1>1 DEF DeleteClaimed, CleanerState
  <2> QED BY <1>5, <2>1 DEF DeleteClaimed, TypeOK
<1>6. CASE DeleteClaimedFails(c)
  <2>1. cleaner' \in [Cleaners -> CleanerState] BY <1>6, <1>1 DEF DeleteClaimedFails, CleanerState
  <2> QED BY <1>6, <2>1 DEF DeleteClaimedFails, TypeOK
<1>7. CASE FinishLifecycle(c)
  <2>1. cleaner' \in [Cleaners -> CleanerState] BY <1>7, <1>1 DEF FinishLifecycle, CleanerState
  <2> QED BY <1>7, <2>1 DEF FinishLifecycle, TypeOK
<1>8. CASE ListObjects(c)
  <2>1. AgedObjects(cleaner[c].at) \in SUBSET BundleIds BY BatchesAreIds DEF TypeOK
  <2>2. cleaner' \in [Cleaners -> CleanerState] BY <1>8, <2>1, <1>1 DEF ListObjects, CleanerState
  <2> QED BY <1>8, <2>2 DEF ListObjects, TypeOK
<1>9. CASE CheckTracked(c)
  <2>1. PICK b \in cleaner[c].page :
          cleaner' = [cleaner EXCEPT
                     ![c].page = @ \ {b},
                     ![c].target = IF lifecycle[b] = "absent" THEN b ELSE NoBundle,
                     ![c].pc = IF lifecycle[b] = "absent" THEN "check_current" ELSE "scan"]
    BY <1>9 DEF CheckTracked
  <2>2. b \in OptionalId /\ cleaner[c].page \ {b} \in SUBSET BundleIds BY <1>2 DEF OptionalId
  <2>3. cleaner' \in [Cleaners -> CleanerState] BY <2>1, <2>2, <1>1 DEF CleanerState
  <2> QED BY <1>9, <2>3 DEF CheckTracked, TypeOK
<1>10. CASE CheckCurrent(c)
  <2>1. cleaner' \in [Cleaners -> CleanerState] BY <1>10, <1>1 DEF CheckCurrent, CleanerState
  <2> QED BY <1>10, <2>1 DEF CheckCurrent, TypeOK
<1>11. CASE DeleteUntracked(c)
  <2>1. cleaner' \in [Cleaners -> CleanerState] BY <1>11, <1>1 DEF DeleteUntracked, CleanerState
  <2> QED BY <1>11, <2>1 DEF DeleteUntracked, TypeOK
<1>12. CASE DeleteUntrackedFails(c)
  <2>1. cleaner' \in [Cleaners -> CleanerState] BY <1>12, <1>1 DEF DeleteUntrackedFails, CleanerState
  <2> QED BY <1>12, <2>1 DEF DeleteUntrackedFails, TypeOK
<1>13. CASE EndCleanup(c) BY <1>13, <1>1 DEF EndCleanup, TypeOK
<1>14. CASE AbortCleanup(c) BY <1>14, <1>1 DEF AbortCleanup, TypeOK
<1> QED BY <1>3, <1>4, <1>5, <1>6, <1>7, <1>8, <1>9, <1>10, <1>11, <1>12, <1>13, <1>14
        DEF CleanerStep, CleanerNext

\* No step of a reader leaves the types.
LEMMA ReaderTypeOK ==
  ASSUME TypeOK, NEW r \in Readers, ReaderStep(r)
  PROVE  TypeOK'
<1>1. reader \in [Readers -> ReaderState] /\ current \in OptionalId /\ revision \in Nat
  BY DEF TypeOK
<1> USE DEF database, bucket
<1>2. CASE BeginRead(r)
  <2>1. reader' \in [Readers -> ReaderState] BY <1>1, <1>2 DEF BeginRead, ReaderState
  <2> QED BY <1>2, <2>1 DEF BeginRead, TypeOK
<1>3. CASE FetchRow(r)
  <2>1. reader' \in [Readers -> ReaderState] BY <1>1, <1>3 DEF FetchRow, ReaderState
  <2> QED BY <1>3, <2>1 DEF FetchRow, TypeOK
<1>4. CASE FetchObject(r)
  <2>1. reader' \in [Readers -> ReaderState] BY <1>1, <1>4 DEF FetchObject, ReaderState
  <2> QED BY <1>4, <2>1 DEF FetchObject, TypeOK
<1> QED BY <1>2, <1>3, <1>4 DEF ReaderStep

\* TypeOK is preserved by every step from a state of the invariant.
LEMMA NextTypeOK == IInv /\ [Next]_vars => TypeOK'
<1> SUFFICES ASSUME IInv, [Next]_vars PROVE TypeOK' OBVIOUS
<1>1. TypeOK BY DEF IInv
<1>2. \A s \in Senders : CandidateIsId(s)
  BY DEF IInv, StoreInv, RequestInv, CandidateIsId, TypeOK
<1>3. \A c \in Cleaners : TargetIsId(c)
  BY DEF IInv, StoreInv, CleanerInv, TargetIsId, TypeOK
<1>4. CASE Tick BY <1>4, <1>1 DEF Tick, TypeOK, database, bucket
<1>5. CASE UNCHANGED vars BY <1>5, <1>1 DEF vars, TypeOK, database, bucket
<1> QED BY <1>1, <1>2, <1>3, <1>4, <1>5, SenderTypeOK, CleanerTypeOK, ReaderTypeOK DEF Next, CleanerNext

\* The steps of a push or a clear preserve the invariant of the store.
LEMMA SenderStoreInv ==
  ASSUME TypeOK, TypeOK', StoreInv, NEW s \in Senders, Begin(s) \/ SenderStep(s) \/ Abort(s)
  PROVE  StoreInv'
<1> USE DEF TypeOK, StoreInv, OptionalId, RequestState, database, bucket
<1>1. CASE Begin(s)
  BY <1>1 DEF Begin, NoRequest,
     DrawnInv, MetadataInv, RequestInv, DistinctInv, CleanerInv, CurrentIsServable, Uploading
<1>2. CASE ReadInbox(s)
  <2>1. RequestInv'
    BY <1>2 DEF ReadInbox, RequestInv, DrawnInv, MetadataInv, DistinctInv, CleanerInv, CurrentIsServable, Uploading
  <2>2. DistinctInv'
    BY <1>2 DEF ReadInbox, DistinctInv, RequestInv, Uploading
  <2> QED BY <2>1, <2>2, <1>2 DEF ReadInbox, DrawnInv, MetadataInv, CleanerInv, CurrentIsServable
<1>3. CASE ReadRow(s)
  <2>1. RequestInv'
    BY <1>3 DEF ReadRow, Goto, Return, NoRequest, RequestInv, DrawnInv, MetadataInv, DistinctInv, CleanerInv, CurrentIsServable, Uploading
  <2>2. DistinctInv'
    BY <1>3 DEF ReadRow, Goto, Return, NoRequest, DistinctInv, RequestInv, Uploading
  <2> QED BY <2>1, <2>2, <1>3 DEF ReadRow, DrawnInv, MetadataInv, CleanerInv, CurrentIsServable
<1>4. CASE ClearInbox(s)
  <2>1. RequestInv'
    BY <1>4 DEF ClearInbox, Goto, Return, NoRequest, AfterDelete, RequestInv, DrawnInv, MetadataInv, DistinctInv, CleanerInv, CurrentIsServable, Uploading
  <2>2. DistinctInv'
    BY <1>4 DEF ClearInbox, Goto, Return, NoRequest, AfterDelete, DistinctInv, RequestInv, Uploading
  <2>3. CurrentIsServable'
    BY <1>4 DEF ClearInbox, Goto, Return, NoRequest, AfterDelete, CurrentIsServable, RequestInv, CleanerInv, DrawnInv, MetadataInv, Uploading
  <2> QED BY <2>1, <2>2, <2>3, <1>4 DEF ClearInbox, DrawnInv, MetadataInv, CleanerInv
<1>5. CASE DeletePrevious(s)
  <2>1. DrawnInv'
    BY <1>5 DEF DeletePrevious, Goto, Return, NoRequest, AfterDelete, DrawnInv, RequestInv, Uploading
  <2>2. RequestInv'
    BY <1>5 DEF DeletePrevious, Goto, Return, NoRequest, AfterDelete, RequestInv, DrawnInv, MetadataInv, DistinctInv, CleanerInv, CurrentIsServable, Uploading
  <2>3. DistinctInv'
    BY <1>5 DEF DeletePrevious, Goto, Return, NoRequest, AfterDelete, DistinctInv, RequestInv, Uploading
  <2>4. CleanerInv'
    BY <1>5 DEF DeletePrevious, Goto, Return, NoRequest, AfterDelete, CleanerInv, DrawnInv, MetadataInv, RequestInv, DistinctInv, Uploading
  <2>5. CurrentIsServable'
    BY <1>5 DEF DeletePrevious, Goto, Return, NoRequest, AfterDelete, CurrentIsServable, RequestInv, CleanerInv, DrawnInv, MetadataInv, Uploading
  <2> QED BY <2>1, <2>2, <2>3, <2>4, <2>5, <1>5 DEF DeletePrevious, MetadataInv
<1>6. CASE RejectArchive(s)
  BY <1>6 DEF RejectArchive, Return, NoRequest,
     DrawnInv, MetadataInv, RequestInv, DistinctInv, CleanerInv, CurrentIsServable, Uploading
<1>7. CASE Reserve(s)
  <2>1. DrawnInv'
    BY <1>7 DEF Reserve, DrawnInv, RequestInv, Uploading
  <2>2. MetadataInv'
    BY <1>7 DEF Reserve, MetadataInv, RequestInv, CleanerInv, DrawnInv
  <2>3. RequestInv'
    BY <1>7 DEF Reserve, RequestInv, DrawnInv, MetadataInv, DistinctInv, CleanerInv, CurrentIsServable, Uploading
  <2>4. DistinctInv'
    BY <1>7 DEF Reserve, DistinctInv, RequestInv, Uploading
  <2>5. CleanerInv'
    BY <1>7 DEF Reserve, CleanerInv, DrawnInv, MetadataInv, RequestInv, DistinctInv, Uploading
  <2>6. CurrentIsServable'
    BY <1>7 DEF Reserve, CurrentIsServable, RequestInv, CleanerInv, DrawnInv, MetadataInv, Uploading
  <2> QED BY <2>1, <2>2, <2>3, <2>4, <2>5, <2>6
<1>8. CASE Put(s)
  <2>1. DrawnInv'
    BY <1>8 DEF Put, Goto, DrawnInv, RequestInv, Uploading
  <2>2. RequestInv'
    BY <1>8 DEF Put, Goto, RequestInv, DrawnInv, MetadataInv, DistinctInv, CleanerInv, CurrentIsServable, Uploading
  <2>3. DistinctInv'
    BY <1>8 DEF Put, Goto, DistinctInv, RequestInv, Uploading
  <2>4. CleanerInv'
    BY <1>8 DEF Put, Goto, CleanerInv, DrawnInv, MetadataInv, RequestInv, DistinctInv, Uploading
  <2>5. CurrentIsServable'
    BY <1>8 DEF Put, Goto, CurrentIsServable, RequestInv, CleanerInv, DrawnInv, MetadataInv, Uploading
  <2> QED BY <2>1, <2>2, <2>3, <2>4, <2>5, <1>8 DEF Put, MetadataInv
<1>9. CASE Publish(s)
  <2>1. Uploading(s) /\ request[s].candidate \in BundleIds /\ NoRequest.pc = "idle"
    BY <1>9 DEF Publish, Uploading, RequestInv, NoRequest
  <2>2. CASE ~ Publishable(request[s].candidate)
    BY <1>9, <2>2 DEF Publish, Return, NoRequest, DrawnInv, MetadataInv, RequestInv, DistinctInv,
                      CleanerInv, CurrentIsServable, Uploading
  <2>3. CASE Publishable(request[s].candidate)
    <3> DEFINE b == request[s].candidate
    <3>1. /\ lifecycle[b] = "uploading" /\ b \in objects /\ b \in drawn
          /\ bundles' = bundles \union {b}
          /\ current' = b
          /\ lifecycle' = [lifecycle EXCEPT ![b] = "published"]
          /\ request' = [request EXCEPT ![s] = NoRequest]
          /\ UNCHANGED <<objects, drawn, cleaner>>
      BY <1>9, <2>1, <2>3 DEF Publish, Publishable, Return, RequestInv
    <3>2. DrawnInv' /\ MetadataInv' /\ CurrentIsServable'
      BY <2>1, <3>1 DEF DrawnInv, MetadataInv, CurrentIsServable
    <3>3. RequestInv'
      BY <2>1, <3>1 DEF RequestInv, DistinctInv, Uploading, NoRequest
    <3>4. DistinctInv'
      BY <2>1, <3>1 DEF DistinctInv, Uploading
    <3>5. CleanerInv'
      BY <2>1, <3>1 DEF CleanerInv
    <3> QED BY <3>2, <3>3, <3>4, <3>5
  <2> QED BY <2>2, <2>3
<1>10. CASE Abort(s)
  BY <1>10 DEF Abort, Return, NoRequest,
     DrawnInv, MetadataInv, RequestInv, DistinctInv, CleanerInv, CurrentIsServable, Uploading
<1> QED BY <1>1, <1>2, <1>3, <1>4, <1>5, <1>6, <1>7, <1>8, <1>9, <1>10 DEF SenderStep

\* The steps of a cleanup preserve the invariant of the store.
LEMMA CleanerStoreInv ==
  ASSUME TypeOK, TypeOK', StoreInv, NEW c \in Cleaners, CleanerNext(c)
  PROVE  StoreInv'
<1> USE DEF TypeOK, StoreInv, OptionalId, CleanerState, database, bucket
<1>1. ASSUME NEW at \in 0..now, BeginCleanup(c, at) PROVE StoreInv'
  BY <1>1 DEF BeginCleanup, NoCleanup,
     DrawnInv, MetadataInv, RequestInv, DistinctInv, CleanerInv, CurrentIsServable, Uploading
<1>2. CASE ClaimLifecycle(c)
  <2>1. DrawnInv'
    BY <1>2 DEF ClaimLifecycle, Claimable, DrawnInv, RequestInv, Uploading
  <2>2. MetadataInv'
    BY <1>2 DEF ClaimLifecycle, Claimable, MetadataInv, RequestInv, CleanerInv, DrawnInv
  <2>3. RequestInv'
    BY <1>2 DEF ClaimLifecycle, Claimable, RequestInv, DrawnInv, MetadataInv, DistinctInv, CleanerInv, CurrentIsServable, Uploading
  <2>4. CleanerInv'
    BY <1>2 DEF ClaimLifecycle, Claimable, CleanerInv, DrawnInv, MetadataInv, RequestInv, DistinctInv, Uploading
  <2>5. CurrentIsServable'
    BY <1>2 DEF ClaimLifecycle, Claimable, CurrentIsServable, RequestInv, CleanerInv, DrawnInv, MetadataInv, Uploading
  <2> QED BY <2>1, <2>2, <2>3, <2>4, <2>5, <1>2 DEF ClaimLifecycle, DistinctInv, Uploading
<1>3. CASE DeleteClaimed(c)
  <2>1. DrawnInv'
    BY <1>3 DEF DeleteClaimed, DrawnInv, RequestInv, Uploading
  <2>2. RequestInv'
    BY <1>3 DEF DeleteClaimed, RequestInv, DrawnInv, MetadataInv, DistinctInv, CleanerInv, CurrentIsServable, Uploading
  <2>3. CleanerInv'
    BY <1>3 DEF DeleteClaimed, CleanerInv, DrawnInv, MetadataInv, RequestInv, DistinctInv, Uploading
  <2>4. CurrentIsServable'
    BY <1>3 DEF DeleteClaimed, CurrentIsServable, RequestInv, CleanerInv, DrawnInv, MetadataInv, Uploading
  <2> QED BY <2>1, <2>2, <2>3, <2>4, <1>3 DEF DeleteClaimed, MetadataInv, DistinctInv, Uploading
<1>4. CASE DeleteClaimedFails(c)
  BY <1>4 DEF DeleteClaimedFails,
     DrawnInv, MetadataInv, RequestInv, DistinctInv, CleanerInv, CurrentIsServable, Uploading
<1>5. CASE FinishLifecycle(c)
  <2>1. DrawnInv'
    BY <1>5 DEF FinishLifecycle, DrawnInv, RequestInv, Uploading
  <2>2. MetadataInv'
    BY <1>5 DEF FinishLifecycle, MetadataInv, RequestInv, CleanerInv, DrawnInv
  <2>3. RequestInv'
    BY <1>5 DEF FinishLifecycle, RequestInv, DrawnInv, MetadataInv, DistinctInv, CleanerInv, CurrentIsServable, Uploading
  <2>4. CleanerInv'
    BY <1>5 DEF FinishLifecycle, CleanerInv, DrawnInv, MetadataInv, RequestInv, DistinctInv, Uploading
  <2>5. CurrentIsServable'
    BY <1>5 DEF FinishLifecycle, CurrentIsServable, RequestInv, CleanerInv, DrawnInv, MetadataInv, Uploading
  <2> QED BY <2>1, <2>2, <2>3, <2>4, <2>5, <1>5 DEF FinishLifecycle, DistinctInv, Uploading
<1>6. CASE ListObjects(c)
  BY <1>6 DEF ListObjects,
     DrawnInv, MetadataInv, RequestInv, DistinctInv, CleanerInv, CurrentIsServable, Uploading
<1>7. CASE CheckTracked(c)
  BY <1>7 DEF CheckTracked,
     DrawnInv, MetadataInv, RequestInv, DistinctInv, CleanerInv, CurrentIsServable, Uploading
<1>8. CASE CheckCurrent(c)
  BY <1>8 DEF CheckCurrent,
     DrawnInv, MetadataInv, RequestInv, DistinctInv, CleanerInv, CurrentIsServable, Uploading
<1>9. CASE DeleteUntracked(c)
  <2>1. DrawnInv'
    BY <1>9 DEF DeleteUntracked, DrawnInv, RequestInv, Uploading
  <2>2. RequestInv'
    BY <1>9 DEF DeleteUntracked, RequestInv, DrawnInv, MetadataInv, DistinctInv, CleanerInv, CurrentIsServable, Uploading
  <2>3. CleanerInv'
    BY <1>9 DEF DeleteUntracked, CleanerInv, DrawnInv, MetadataInv, RequestInv, DistinctInv, Uploading
  <2>4. CurrentIsServable'
    BY <1>9 DEF DeleteUntracked, CurrentIsServable, RequestInv, CleanerInv, DrawnInv, MetadataInv, Uploading
  <2> QED BY <2>1, <2>2, <2>3, <2>4, <1>9 DEF DeleteUntracked, MetadataInv, DistinctInv, Uploading
<1>10. CASE DeleteUntrackedFails(c)
  BY <1>10 DEF DeleteUntrackedFails,
     DrawnInv, MetadataInv, RequestInv, DistinctInv, CleanerInv, CurrentIsServable, Uploading
<1>11. CASE EndCleanup(c)
  BY <1>11 DEF EndCleanup, NoCleanup,
     DrawnInv, MetadataInv, RequestInv, DistinctInv, CleanerInv, CurrentIsServable, Uploading
<1>12. CASE AbortCleanup(c)
  BY <1>12 DEF AbortCleanup, NoCleanup,
     DrawnInv, MetadataInv, RequestInv, DistinctInv, CleanerInv, CurrentIsServable, Uploading
<1> QED BY <1>1, <1>2, <1>3, <1>4, <1>5, <1>6, <1>7, <1>8, <1>9, <1>10, <1>11, <1>12
        DEF CleanerNext, CleanerStep

\* The steps of a reader and of the clock do not touch the store.
LEMMA OtherStoreInv ==
  ASSUME StoreInv, UNCHANGED <<database, objects, drawn, request, cleaner>>
  PROVE  StoreInv'
  BY DEF StoreInv, DrawnInv, MetadataInv, RequestInv, DistinctInv, CleanerInv, CurrentIsServable,
         Uploading, database

\* StoreInv is preserved by every step from a state of the invariant.
LEMMA NextStoreInv == IInv /\ [Next]_vars => StoreInv'
<1> SUFFICES ASSUME IInv, [Next]_vars PROVE StoreInv' OBVIOUS
<1>1. TypeOK /\ TypeOK' /\ StoreInv BY NextTypeOK DEF IInv
<1>2. ASSUME NEW r \in Readers, ReaderStep(r) PROVE StoreInv'
  BY <1>1, <1>2, OtherStoreInv DEF ReaderStep, BeginRead, FetchRow, FetchObject, bucket
<1>3. CASE Tick BY <1>1, <1>3, OtherStoreInv DEF Tick, bucket
<1>4. CASE UNCHANGED vars BY <1>1, <1>4, OtherStoreInv DEF vars, bucket
<1> QED BY <1>1, <1>2, <1>3, <1>4, SenderStoreInv, CleanerStoreInv DEF Next, CleanerNext

-----------------------------------------------------------------------------

\* A deadline a candidate was given is met or still ahead after every step.
LEMMA NextDeadlineInv == IInv /\ [Next]_vars => DeadlineInv'
<1> SUFFICES ASSUME IInv, [Next]_vars PROVE DeadlineInv' OBVIOUS
<1> USE DEF IInv, TypeOK, OptionalId, RequestState, CleanerState, database, bucket
<1>1. ASSUME NEW s \in Senders, Begin(s) \/ SenderStep(s) \/ Abort(s) PROVE DeadlineInv'
  <2>1. CASE Begin(s) BY <2>1 DEF Begin, NoRequest, DeadlineInv, Uploading
  <2>2. CASE ReadInbox(s) BY <2>2 DEF ReadInbox, DeadlineInv, Uploading
  <2>3. CASE ReadRow(s) BY <2>3 DEF ReadRow, Goto, Return, NoRequest, DeadlineInv, Uploading
  <2>4. CASE ClearInbox(s)
    BY <2>4 DEF ClearInbox, AfterDelete, Goto, Return, NoRequest, DeadlineInv, Uploading
  <2>5. CASE DeletePrevious(s)
    BY <2>5 DEF DeletePrevious, AfterDelete, Goto, Return, NoRequest, DeadlineInv, Uploading
  <2>6. CASE RejectArchive(s) BY <2>6 DEF RejectArchive, Return, NoRequest, DeadlineInv, Uploading
  <2>7. CASE Reserve(s)
    BY <2>7 DEF Reserve, Deadline, DeadlineInv, Uploading, StoreInv, RequestInv
  <2>8. CASE Put(s) BY <2>8 DEF Put, Goto, DeadlineInv, Uploading
  <2>9. CASE Publish(s)
    <3>1. \A t \in Senders : Uploading(t)' => Uploading(t) /\ t # s /\ request'[t] = request[t]
      BY <2>9 DEF Publish, Return, NoRequest, Uploading
    <3>2. \A t \in Senders :
            Uploading(t)' =>
              /\ lifecycle'[request[t].candidate] = lifecycle[request[t].candidate]
              /\ cleanupAfter'[request[t].candidate] = cleanupAfter[request[t].candidate]
      <4> TAKE t \in Senders
      <4> HAVE Uploading(t)'
      <4>1. Uploading(t) /\ Uploading(s) /\ t # s BY <2>9, <3>1 DEF Publish, Uploading
      <4>2. request[t].candidate # request[s].candidate BY <4>1 DEF StoreInv, DistinctInv
      <4>3. request[s].candidate \in BundleIds /\ request[t].candidate \in BundleIds
        BY <4>1 DEF StoreInv, RequestInv
      <4>4. CASE Publishable(request[s].candidate)
        BY <2>9, <4>2, <4>3, <4>4, ZenonT(40) DEF Publish
      <4>5. CASE ~ Publishable(request[s].candidate) BY <2>9, <4>5 DEF Publish
      <4> QED BY <4>4, <4>5
    <3> QED BY <2>9, <3>1, <3>2 DEF Publish, DeadlineInv
  <2>10. CASE Abort(s) BY <2>10 DEF Abort, Return, NoRequest, DeadlineInv, Uploading
  <2> QED BY <1>1, <2>1, <2>2, <2>3, <2>4, <2>5, <2>6, <2>7, <2>8, <2>9, <2>10 DEF SenderStep
<1>2. ASSUME NEW c \in Cleaners, CleanerNext(c) PROVE DeadlineInv'
  <2>1. ASSUME NEW at \in 0..now, BeginCleanup(c, at) PROVE DeadlineInv'
    BY <2>1 DEF BeginCleanup, NoCleanup, DeadlineInv, Uploading
  <2>2. CASE ClaimLifecycle(c)
    BY <2>2 DEF ClaimLifecycle, Claimable, DeadlineInv, Uploading, StoreInv, RequestInv
  <2>3. CASE FinishLifecycle(c)
    BY <2>3 DEF FinishLifecycle, DeadlineInv, Uploading, StoreInv, RequestInv
  <2>4. CASE DeleteClaimed(c) \/ DeleteClaimedFails(c)
    BY <2>4, SMTT(20) DEF DeleteClaimed, DeleteClaimedFails, DeadlineInv, Uploading
  <2>5. CASE ListObjects(c) \/ CheckTracked(c) \/ CheckCurrent(c)
    <3>1. CASE ListObjects(c) BY <3>1 DEF ListObjects, DeadlineInv, Uploading
    <3>2. CASE CheckTracked(c) BY <3>2 DEF CheckTracked, DeadlineInv, Uploading
    <3>3. CASE CheckCurrent(c) BY <3>3 DEF CheckCurrent, DeadlineInv, Uploading
    <3> QED BY <2>5, <3>1, <3>2, <3>3
  <2>6. CASE DeleteUntracked(c) \/ DeleteUntrackedFails(c)
    BY <2>6 DEF DeleteUntracked, DeleteUntrackedFails, DeadlineInv, Uploading
  <2>7. CASE EndCleanup(c) \/ AbortCleanup(c)
    BY <2>7 DEF EndCleanup, AbortCleanup, NoCleanup, DeadlineInv, Uploading
  <2> QED BY <1>2, <2>1, <2>2, <2>3, <2>4, <2>5, <2>6, <2>7 DEF CleanerNext, CleanerStep
<1>3. ASSUME NEW r \in Readers, ReaderStep(r) PROVE DeadlineInv'
  BY <1>3 DEF ReaderStep, BeginRead, FetchRow, FetchObject, DeadlineInv, Uploading
<1>4. CASE Tick BY <1>4 DEF Tick, DeadlineInv, Uploading
<1>5. CASE UNCHANGED vars BY <1>5 DEF vars, DeadlineInv, Uploading
<1> QED BY <1>1, <1>2, <1>3, <1>4, <1>5 DEF Next, CleanerNext

\* How a step changes the inbox: not at all, or to a higher revision.
LEMMA InboxStep ==
  ASSUME IInv, [Next]_vars
  PROVE  UNCHANGED <<current, revision>> \/ revision' = revision + 1
<1>1. ASSUME NEW s \in Senders, Begin(s) \/ SenderStep(s) \/ Abort(s)
      PROVE  UNCHANGED <<current, revision>> \/ revision' = revision + 1
  BY <1>1 DEF SenderStep, Begin, ReadInbox, ReadRow, ClearInbox, DeletePrevious, RejectArchive, Reserve,
              Put, Publish, Abort, ClearedRevision, PublishedRevision, database
<1>2. ASSUME NEW c \in Cleaners, CleanerNext(c)
      PROVE  UNCHANGED <<current, revision>>
  BY <1>2 DEF CleanerNext, CleanerStep, BeginCleanup, ClaimLifecycle, DeleteClaimed, DeleteClaimedFails,
              FinishLifecycle, ListObjects, CheckTracked, CheckCurrent, DeleteUntracked,
              DeleteUntrackedFails, EndCleanup, AbortCleanup, database
<1>3. ASSUME NEW r \in Readers, ReaderStep(r)
      PROVE  UNCHANGED <<current, revision>>
  BY <1>3 DEF ReaderStep, BeginRead, FetchRow, FetchObject, database
<1> QED BY <1>1, <1>2, <1>3 DEF Next, CleanerNext, Tick, vars, database

\* The steps of senders and cleanups leave the readers alone.
LEMMA ReaderFrame ==
  ASSUME [Next]_vars, reader' # reader
  PROVE  \E r \in Readers : ReaderStep(r)
<1>1. ASSUME NEW s \in Senders, Begin(s) \/ SenderStep(s) \/ Abort(s) PROVE UNCHANGED reader
  BY <1>1 DEF SenderStep, Begin, ReadInbox, ReadRow, ClearInbox, DeletePrevious, RejectArchive, Reserve,
              Put, Publish, Abort
<1>2. ASSUME NEW c \in Cleaners, CleanerNext(c) PROVE UNCHANGED reader
  BY <1>2 DEF CleanerNext, CleanerStep, BeginCleanup, ClaimLifecycle, DeleteClaimed, DeleteClaimedFails,
              FinishLifecycle, ListObjects, CheckTracked, CheckCurrent, DeleteUntracked,
              DeleteUntrackedFails, EndCleanup, AbortCleanup
<1> QED BY <1>1, <1>2 DEF Next, CleanerNext, Tick, vars

\* ReaderInv is preserved: readers copy the inbox, everybody else moves it on.
LEMMA NextReaderInv == IInv /\ [Next]_vars => ReaderInv'
<1> SUFFICES ASSUME IInv, [Next]_vars PROVE ReaderInv' OBVIOUS
<1> USE DEF IInv, TypeOK, ReaderState
<1>1. ASSUME NEW r \in Readers, ReaderStep(r) PROVE ReaderInv'
  BY <1>1 DEF ReaderStep, BeginRead, FetchRow, FetchObject, ReaderInv, database
<1>2. CASE UNCHANGED reader
  BY <1>2, InboxStep DEF ReaderInv
<1> QED BY <1>1, <1>2, ReaderFrame

-----------------------------------------------------------------------------

\* IInv is an inductive invariant of the store.
THEOREM Inductive == Spec => []IInv
<1>1. IInv /\ [Next]_vars => IInv'
  BY NextTypeOK, NextStoreInv, NextDeadlineInv, NextReaderInv DEF IInv
<1> QED BY InitInv, <1>1, PTL DEF Spec

\* Every variable of the store keeps its type in every behaviour.
THEOREM TypeCorrect == Spec => []TypeOK
<1>1. IInv => TypeOK BY DEF IInv
<1> QED BY Inductive, <1>1, PTL

\* The current bundle can always be served.
THEOREM Servable == Spec => []CurrentIsServable
<1>1. IInv => CurrentIsServable BY DEF IInv, StoreInv
<1> QED BY Inductive, <1>1, PTL

\* Within the retention period no cleanup takes an upload away.
THEOREM FreshUpload == Spec => []FreshUploadSurvives
<1>1. IInv => FreshUploadSurvives
  BY DEF IInv, StoreInv, RequestInv, DeadlineInv, FreshUploadSurvives, Uploading
<1> QED BY Inductive, <1>1, PTL

\* A revision a reader holds, when still current, names what it saw.
THEOREM RevisionIdentifies == Spec => []RevisionNamesState
<1>1. IInv => RevisionNamesState BY DEF IInv, ReaderInv, RevisionNamesState
<1> QED BY Inductive, <1>1, PTL

\* A reader fails only on a bundle that has been replaced.
THEOREM ReaderOvertaken == Spec => ReaderFailsOnlyWhenReplaced
<1>1. ASSUME IInv, [Next]_vars, NEW r \in Readers, reader[r].pc # "failed", reader'[r].pc = "failed"
      PROVE  reader[r].bundle # current
  <2> USE <1>1 DEF IInv, TypeOK, ReaderState
  <2>1. ASSUME NEW q \in Readers, ReaderStep(q) PROVE reader[r].bundle # current
    BY <2>1 DEF ReaderStep, BeginRead, FetchRow, FetchObject, ReaderInv, StoreInv, CurrentIsServable
  <2> QED BY <2>1, ReaderFrame
<1>2. IInv /\ [Next]_vars =>
        [\A r \in Readers :
           reader[r].pc # "failed" /\ reader'[r].pc = "failed" => reader[r].bundle # current]_vars
  BY <1>1
<1> QED BY Inductive, <1>2, PTL DEF Spec, ReaderFailsOnlyWhenReplaced

-----------------------------------------------------------------------------
(* The store implements the abstract inbox.                                *)

Stored == bundles \intersect objects

\* A sender's step is a clear, a publication, a discard or invisible.
LEMMA SenderRefines ==
  ASSUME IInv, NEW s \in Senders, Begin(s) \/ SenderStep(s) \/ Abort(s)
  PROVE  [Promise!Next]_<<current, revision, Stored>>
<1> USE DEF IInv, TypeOK, OptionalId, RequestState, database, bucket, Stored
<1>1. CASE \/ Begin(s) \/ ReadInbox(s) \/ ReadRow(s) \/ RejectArchive(s) \/ Reserve(s) \/ Abort(s)
  BY <1>1 DEF Begin, ReadInbox, ReadRow, RejectArchive, Reserve, Abort
<1>2. CASE ClearInbox(s)
  <2>1. Promise!Clear BY <1>2 DEF ClearInbox, ClearedRevision, Promise!Clear
  <2> QED BY <2>1 DEF Promise!Next
<1>3. CASE DeletePrevious(s)
  <2>1. request[s].previous \in BundleIds /\ request[s].previous # current
    BY <1>3 DEF DeletePrevious, StoreInv, RequestInv
  <2>2. Promise!Discard(request[s].previous)
    BY <1>3, <2>1 DEF DeletePrevious, Promise!Discard
  <2> QED BY <2>1, <2>2 DEF Promise!Next
<1>4. CASE Put(s)
  <2>1. request[s].candidate \notin bundles BY <1>4 DEF Put, StoreInv, RequestInv, Uploading
  <2>2. UNCHANGED <<current, revision, Stored>> BY <1>4, <2>1 DEF Put
  <2> QED BY <2>2
<1>5. CASE Publish(s)
  <2>1. CASE ~ Publishable(request[s].candidate) BY <1>5, <2>1 DEF Publish
  <2>2. CASE Publishable(request[s].candidate)
    <3>1. /\ request[s].candidate \in BundleIds \intersect objects
          /\ request[s].candidate \notin bundles
      BY <1>5, <2>2 DEF Publish, Publishable, StoreInv, RequestInv, Uploading
    <3>2. Promise!Publish(request[s].candidate)
      BY <1>5, <2>2, <3>1 DEF Publish, PublishedRevision, Promise!Publish
    <3> QED BY <3>1, <3>2 DEF Promise!Next
  <2> QED BY <2>1, <2>2
<1> QED BY <1>1, <1>2, <1>3, <1>4, <1>5 DEF SenderStep

\* A cleanup's step discards a bundle that is not current or is invisible.
LEMMA CleanerRefines ==
  ASSUME IInv, NEW c \in Cleaners, CleanerNext(c)
  PROVE  [Promise!Next]_<<current, revision, Stored>>
<1> USE DEF IInv, TypeOK, OptionalId, CleanerState, database, bucket, Stored
<1>1. CASE \/ \E at \in 0..now : BeginCleanup(c, at)
           \/ ClaimLifecycle(c) \/ DeleteClaimedFails(c) \/ ListObjects(c)
           \/ CheckTracked(c) \/ CheckCurrent(c) \/ DeleteUntrackedFails(c) \/ EndCleanup(c)
           \/ AbortCleanup(c)
  BY <1>1 DEF BeginCleanup, ClaimLifecycle, DeleteClaimedFails, ListObjects, CheckTracked, CheckCurrent,
              DeleteUntrackedFails, EndCleanup, AbortCleanup
<1>2. CASE DeleteClaimed(c) \/ FinishLifecycle(c) \/ DeleteUntracked(c)
  <2>1. cleaner[c].target \in BundleIds /\ cleaner[c].target # current
    BY <1>2 DEF DeleteClaimed, FinishLifecycle, DeleteUntracked, StoreInv, CleanerInv, CurrentIsServable
  <2>2. Promise!Discard(cleaner[c].target)
    BY <1>2, <2>1 DEF DeleteClaimed, FinishLifecycle, DeleteUntracked, Promise!Discard
  <2> QED BY <2>1, <2>2 DEF Promise!Next
<1> QED BY <1>1, <1>2 DEF CleanerNext, CleanerStep

\* Every behaviour of the store, seen through <<current, revision, Stored>>, is
\* a behaviour of the abstract inbox.
THEOREM Refinement == Spec => ImplementsInbox
<1>1. Init => Promise!Init BY DEF Init, Promise!Init
<1>2. IInv /\ [Next]_vars => [Promise!Next]_(Promise!vars)
  <2> SUFFICES ASSUME IInv, [Next]_vars PROVE [Promise!Next]_<<current, revision, Stored>>
    BY DEF Promise!vars, Stored
  <2>1. ASSUME NEW r \in Readers, ReaderStep(r) PROVE UNCHANGED <<current, revision, Stored>>
    BY <2>1 DEF ReaderStep, BeginRead, FetchRow, FetchObject, database, bucket, Stored
  <2>2. CASE Tick BY <2>2 DEF Tick, database, bucket, Stored
  <2>3. CASE UNCHANGED vars BY <2>3 DEF vars, database, bucket, Stored
  <2> QED BY <2>1, <2>2, <2>3, SenderRefines, CleanerRefines DEF Next, CleanerNext
<1> QED BY <1>1, <1>2, Inductive, PTL DEF Spec, ImplementsInbox, Promise!Spec

\* Cleanup never drops the metadata of an object that still exists.
THEOREM DependencyOrder == Spec => MetadataOutlivesObject
<1>1. ASSUME IInv, [Next]_vars, NEW b \in bundles, b \notin bundles'
      PROVE  b \notin objects'
  <2>1. ASSUME NEW s \in Senders, Begin(s) \/ SenderStep(s) \/ Abort(s) PROVE bundles \subseteq bundles'
    BY <2>1 DEF SenderStep, Begin, ReadInbox, ReadRow, ClearInbox, DeletePrevious, RejectArchive, Reserve,
                Put, Publish, Abort, database
  <2>2. ASSUME NEW c \in Cleaners, CleanerNext(c), ~ FinishLifecycle(c) PROVE UNCHANGED bundles
    BY <2>2 DEF CleanerNext, CleanerStep, BeginCleanup, ClaimLifecycle, DeleteClaimed, DeleteClaimedFails,
                ListObjects, CheckTracked, CheckCurrent, DeleteUntracked,
                DeleteUntrackedFails, EndCleanup, AbortCleanup, database
  <2>3. ASSUME NEW c \in Cleaners, FinishLifecycle(c) PROVE b \notin objects'
    BY <1>1, <2>3 DEF FinishLifecycle, IInv, StoreInv, CleanerInv, bucket
  <2>4. ASSUME NEW r \in Readers, ReaderStep(r) PROVE UNCHANGED bundles
    BY <2>4 DEF ReaderStep, BeginRead, FetchRow, FetchObject, database
  <2> QED BY <1>1, <2>1, <2>2, <2>3, <2>4 DEF Next, CleanerNext, Tick, vars, database
<1>2. IInv /\ [Next]_vars => [\A b \in bundles : b \notin bundles' => b \notin objects']_vars
  BY <1>1
<1> QED BY Inductive, <1>2, PTL DEF Spec, MetadataOutlivesObject

=============================================================================
