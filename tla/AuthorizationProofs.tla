------------------------ MODULE AuthorizationProofs -------------------------
(***************************************************************************)
(* Machine-checked proofs about Authorization: for any number of requests, *)
(* names, polls and owners and any value of the lifetimes, a request leads *)
(* to one credential or session at most, each of them is backed by its     *)
(* request, active names are unique, and rows change state as the trigger  *)
(* of migration 0004 demands.                                              *)
(***************************************************************************)
EXTENDS Authorization, TLAPS

Spent == {"consumed", "deleted"}

\* An invocation under way is about a request that was created.
PollInv == \A p \in Polls : poll[p].pc \notin {"idle", "answered"} => poll[p].request \in Created
OwnerInv == \A o \in Owners : owner[o].pc # "idle" => owner[o].request \in Created

\* A row of a credential or session names the request that refers to it, which
\* stays so after the request was deleted.
GrantInv ==
  \A g \in Granted :
    /\ grant[g].request \in Requests
    /\ request[grant[g].request].state \in Spent
    /\ request[grant[g].request].grant = g

ApprovedInv == \A r \in Requests : request[r].state = "approved" => request[r].approved

ConsumedInv ==
  \A r \in Requests :
    request[r].state = "consumed" =>
      /\ request[r].approved
      /\ request[r].endedAt < request[r].expiresAt
      /\ request[r].grant \in Grants
      /\ grant[request[r].grant].state \in {"active", "revoked"}
      /\ grant[request[r].grant].request = r
      /\ grant[request[r].grant].name = request[r].name

\* A poll was answered with the row that was inserted for its request, and no
\* two polls with the same.
AnswerInv ==
  /\ \A p \in Polls :
       poll[p].answer = "claimed" =>
         poll[p].grant \in Granted /\ grant[poll[p].grant].request = poll[p].request
  /\ \A p, q \in Polls :
       poll[p].answer = "claimed" /\ poll[q].answer = "claimed" /\ p # q
         => poll[p].grant # poll[q].grant

RowInv == GrantInv /\ ApprovedInv /\ ConsumedInv /\ ActiveNamesUnique

IInv == TypeOK /\ PollInv /\ OwnerInv /\ RowInv /\ AnswerInv

USE NullAssumption, LifetimeAssumption

-----------------------------------------------------------------------------
\* Nothing has been requested and nobody calls.
LEMMA InitInv == Init => IInv
<1> SUFFICES ASSUME Init PROVE IInv OBVIOUS
<1>1. NoRow \in RequestRow /\ NoGrantRow \in GrantRow /\ NoPoll \in PollState /\ NoDecision \in OwnerState
  BY DEF NoRow, RequestRow, NoGrantRow, GrantRow, NoPoll, PollState, Answers, NoDecision, OwnerState
<1>2. TypeOK BY <1>1 DEF Init, TypeOK
<1>3. PollInv /\ OwnerInv /\ AnswerInv
  BY DEF Init, PollInv, OwnerInv, AnswerInv, NoPoll, NoDecision
<1>4. RowInv
  BY DEF Init, RowInv, GrantInv, Granted, ApprovedInv, ConsumedInv, ActiveNamesUnique, NoRow, NoGrantRow
<1> QED BY <1>2, <1>3, <1>4 DEF IInv

-----------------------------------------------------------------------------
(* The rows.                                                               *)

\* What every statement but a successful claim and the maintenance does to the
\* rows: one that is spent stays as it is, and none becomes so.
Ordinary ==
  /\ grant' = grant
  /\ request' \in [Requests -> RequestRow]
  /\ \A r \in Requests :
       request'[r] # request[r] =>
         /\ request[r].state \notin Spent
         /\ request'[r].state \notin Spent
         /\ r \in Created => request'[r].state \notin {"absent", "checked"}
         /\ request'[r].state = "approved" => request'[r].approved

\* Expiry is ordinary: it ends a pending or approved request.
LEMMA ExpireIsOrdinary ==
  ASSUME TypeOK, NEW r \in Requests, NEW at \in Nat, Expire(r, at), UNCHANGED grant
  PROVE  Ordinary
<1>1. request \in [Requests -> RequestRow] BY DEF TypeOK
<1>2. request' \in [Requests -> RequestRow]
  <2>1. [request[r] EXCEPT !.state = "expired", !.endedAt = at] \in RequestRow
    BY <1>1, request[r] \in RequestRow DEF RequestRow
  <2>2. [request EXCEPT ![r].state = "expired", ![r].endedAt = at]
          = [request EXCEPT ![r] = [request[r] EXCEPT !.state = "expired", !.endedAt = at]]
    BY <1>1
  <2> QED BY <1>1, <2>1, <2>2 DEF Expire
<1>3. \A q \in Requests : request'[q] # request[q] =>
        request[q].state \in {"pending", "approved"} /\ request'[q].state = "expired"
  BY <1>1 DEF Expire, Overdue
<1> QED BY <1>2, <1>3 DEF Ordinary, Spent

\* Looking at a name, inserting a request and showing one touch no grant, and no
\* invocation of a poll or an owner.
LEMMA CreationIsOrdinary ==
  ASSUME TypeOK, NEW r \in Requests, CheckName(r) \/ Create(r) \/ Show(r)
  PROVE  Ordinary /\ UNCHANGED <<poll, owner, now>>
<1>1. request \in [Requests -> RequestRow] /\ now \in Nat BY DEF TypeOK
<1>2. CASE CheckName(r)
  <2>1. PICK name \in Names \union {NoName} :
          request' = [request EXCEPT ![r] = [NoRow EXCEPT !.state = "checked", !.name = name,
                                                          !.expiresAt = Deadline(now)]]
    BY <1>2 DEF CheckName
  <2>2. Deadline(now) \in Nat BY <1>1 DEF Deadline
  <2>3. request'[r].state = "checked" /\ request' \in [Requests -> RequestRow]
    BY <2>1, <2>2, <1>1 DEF NoRow, RequestRow
  <2> QED BY <2>1, <2>3, <1>1, <1>2 DEF CheckName, Ordinary, Spent, Created
<1>3. CASE Create(r) BY <1>3, <1>1 DEF Create, Ordinary, Spent, RequestRow, Created
<1>4. CASE Show(r)
  <2>1. PICK at \in 0 .. now : Expire(r, at) BY <1>4 DEF Show
  <2>2. at \in Nat BY <1>1
  <2> QED BY <2>1, <2>2, <1>4, ExpireIsOrdinary DEF Show
<1> QED BY <1>2, <1>3, <1>4

\* An owner's invocation touches no grant and no poll.
LEMMA DecisionIsOrdinary ==
  ASSUME TypeOK, OwnerInv, NEW o \in Owners, BeginDecision(o) \/ OwnerStep(o)
  PROVE  Ordinary /\ UNCHANGED <<poll, now>>
<1>1. /\ request \in [Requests -> RequestRow] /\ owner[o] \in OwnerState
      /\ owner[o].pc # "idle" => owner[o].request \in Requests
  BY DEF TypeOK, OwnerInv, Created
<1>2. owner[o].at \in Nat /\ owner[o].decision \in {"approved", "denied"} BY <1>1 DEF OwnerState
<1>3. CASE ExpireForOwner(o)
  BY <1>1, <1>2, <1>3, ExpireIsOrdinary DEF ExpireForOwner
<1>4. CASE Decide(o)
  <2>1. owner[o].request \in Requests BY <1>1, <1>4 DEF Decide
  <2> DEFINE r == owner[o].request
  <2>2. CASE Decidable(r, owner[o].at)
    <3>1. request' = [request EXCEPT
                        ![r].state = owner[o].decision,
                        ![r].approved = (owner[o].decision = "approved"),
                        ![r].endedAt = IF owner[o].decision = "denied" THEN owner[o].at ELSE @]
      BY <1>4, <2>2 DEF Decide
    <3>2. request[r] \in RequestRow BY <1>1, <2>1
    <3>3. /\ request'[r] = [request[r] EXCEPT
                              !.state = owner[o].decision,
                              !.approved = (owner[o].decision = "approved"),
                              !.endedAt = IF owner[o].decision = "denied" THEN owner[o].at ELSE @]
          /\ \A q \in Requests \ {r} : request'[q] = request[q]
          /\ DOMAIN request' = Requests
          /\ request' = [q \in Requests |-> request'[q]]
      BY <3>1, <2>1, <1>1
    <3>4. request'[r] \in RequestRow BY <3>2, <3>3, <1>2 DEF RequestRow
    <3>5. request'[r].state \in {"approved", "denied"}
          /\ (request'[r].state = "approved" => request'[r].approved)
      BY <3>2, <3>3, <1>2 DEF RequestRow
    <3>6. request' \in [Requests -> RequestRow] BY <3>3, <3>4, <1>1
    <3> QED BY <3>3, <3>5, <3>6, <2>2, <1>4 DEF Decide, Decidable, Ordinary, Spent
  <2>3. CASE ~ Decidable(r, owner[o].at) BY <2>3, <1>4, <1>1 DEF Decide, Ordinary
  <2> QED BY <2>2, <2>3
<1>5. CASE BeginDecision(o) \/ LoadDetails(o) \/ ReloadForOwner(o) \/ AbandonDecision(o)
  BY <1>5, <1>1 DEF BeginDecision, LoadDetails, ReloadForOwner, AbandonDecision, Ordinary
<1> QED BY <1>3, <1>4, <1>5 DEF OwnerStep

\* A claim that inserts and consumes.
Claims(p) == Claim(p) /\ Claimable(poll[p].request, poll[p].at) /\ MayInsert(poll[p].request)

\* A poll touches no grant unless its claim inserts one.
LEMMA PollIsOrdinary ==
  ASSUME TypeOK, PollInv, NEW p \in Polls, BeginPoll(p) \/ PollStep(p), ~ Claims(p)
  PROVE  Ordinary /\ UNCHANGED <<owner, now>>
<1>1. /\ request \in [Requests -> RequestRow] /\ poll[p] \in PollState
      /\ poll[p].pc \notin {"idle", "answered"} => poll[p].request \in Requests
  BY DEF TypeOK, PollInv, Created
<1>2. poll[p].at \in Nat BY <1>1 DEF PollState
<1>3. CASE ExpireForPoll(p)
  BY <1>1, <1>2, <1>3, ExpireIsOrdinary DEF ExpireForPoll
<1>4. CASE Claim(p) BY <1>1, <1>4 DEF Claim, Claims, Ordinary
<1>5. CASE BeginPoll(p) \/ LoadStatus(p) \/ LoadClaim(p) \/ ReloadForPoll(p) \/ CheckNameAgain(p)
           \/ AbandonPoll(p)
  BY <1>5, <1>1 DEF BeginPoll, LoadStatus, LoadClaim, ReloadForPoll, CheckNameAgain, AbandonPoll, Ordinary
<1> QED BY <1>3, <1>4, <1>5 DEF PollStep

\* Ordinary statements keep what is claimed of the rows, and no request is
\* forgotten.
LEMMA OrdinaryKeeps ==
  ASSUME TypeOK, RowInv, Ordinary
  PROVE  RowInv' /\ Created \subseteq Created'
<1>1. request \in [Requests -> RequestRow] BY DEF TypeOK
<1>2. ASSUME NEW r \in Requests, request[r].state \in Spent \/ request'[r].state \in Spent
      PROVE  request'[r] = request[r]
  BY <1>2 DEF Ordinary
<1>3. GrantInv' BY <1>2 DEF RowInv, GrantInv, Granted, Ordinary, Spent
<1>4. ApprovedInv'
  <2> SUFFICES ASSUME NEW r \in Requests, request'[r].state = "approved" PROVE request'[r].approved
    BY DEF ApprovedInv
  <2>1. CASE request'[r] = request[r] BY <2>1 DEF RowInv, ApprovedInv
  <2>2. CASE request'[r] # request[r] BY <2>2 DEF Ordinary
  <2> QED BY <2>1, <2>2
<1>5. ConsumedInv' BY <1>2 DEF RowInv, ConsumedInv, Ordinary, Spent
<1>6. ActiveNamesUnique' BY DEF RowInv, ActiveNamesUnique, Ordinary
<1>7. Created \subseteq Created'
  <2> SUFFICES ASSUME NEW r \in Created PROVE request'[r].state \notin {"absent", "checked"}
    BY DEF Created
  <2>1. CASE request'[r] = request[r] BY <2>1 DEF Created
  <2>2. CASE request'[r] # request[r] BY <2>2 DEF Ordinary, Created
  <2> QED BY <2>1, <2>2
<1> QED BY <1>3, <1>4, <1>5, <1>6, <1>7 DEF RowInv

\* A claim inserts a row that did not exist and has its request refer to it.
LEMMA ClaimKeeps ==
  ASSUME TypeOK, PollInv, RowInv, NEW p \in Polls, Claims(p)
  PROVE  /\ RowInv' /\ Created \subseteq Created'
         /\ request' \in [Requests -> RequestRow] /\ grant' \in [Grants -> GrantRow]
         /\ UNCHANGED <<owner, now>>
         /\ \E g \in Grants \ Granted :
              /\ poll' = [poll EXCEPT ![p].pc = "answered", ![p].answer = "claimed", ![p].grant = g]
              /\ g \in Granted' /\ grant'[g].request = poll[p].request
              /\ \A h \in Granted : h \in Granted' /\ grant'[h] = grant[h]
<1> DEFINE r == poll[p].request
           at == poll[p].at
<1>1. /\ request \in [Requests -> RequestRow] /\ grant \in [Grants -> GrantRow]
      /\ poll[p] \in PollState
  BY DEF TypeOK
<1>2. /\ r \in Created /\ r \in Requests /\ at \in Nat
      /\ request[r].state = "approved" /\ request[r].expiresAt > at /\ request[r] \in RequestRow
  BY <1>1 DEF Claims, Claim, Claimable, PollInv, Created, PollState
<1>3. PICK g \in Grants \ Granted :
        /\ request' = [request EXCEPT ![r].state = "consumed", ![r].endedAt = at, ![r].grant = g]
        /\ grant' = [grant EXCEPT ![g] = [state |-> "active", request |-> r, name |-> request[r].name,
                                         expiresAt |-> at + SessionTtl]]
        /\ poll' = [poll EXCEPT ![p].pc = "answered", ![p].answer = "claimed", ![p].grant = g]
        /\ UNCHANGED <<owner, now>>
  BY DEF Claims, Claim
<1>4. /\ request'[r] = [request[r] EXCEPT !.state = "consumed", !.endedAt = at, !.grant = g]
      /\ \A q \in Requests \ {r} : request'[q] = request[q]
      /\ request' = [q \in Requests |-> request'[q]]
  BY <1>1, <1>2, <1>3
<1>5. /\ request'[r] \in RequestRow /\ request'[r].state = "consumed" /\ request'[r].endedAt = at
      /\ request'[r].grant = g /\ request'[r].expiresAt = request[r].expiresAt
      /\ request'[r].name = request[r].name /\ request'[r].approved = request[r].approved
  BY <1>2, <1>3, <1>4 DEF RequestRow
<1>6. request' \in [Requests -> RequestRow] BY <1>1, <1>4, <1>5
<1>7. /\ grant'[g] = [state |-> "active", request |-> r, name |-> request[r].name,
                     expiresAt |-> at + SessionTtl]
      /\ \A h \in Grants \ {g} : grant'[h] = grant[h]
      /\ grant' \in [Grants -> GrantRow]
  BY <1>1, <1>2, <1>3, at + SessionTtl \in Nat DEF GrantRow, RequestRow
<1>8. Granted' = Granted \union {g} BY <1>7 DEF Granted
<1>9. GrantInv'
  <2> SUFFICES ASSUME NEW h \in Granted'
               PROVE  /\ grant'[h].request \in Requests
                      /\ request'[grant'[h].request].state \in Spent
                      /\ request'[grant'[h].request].grant = h
    BY DEF GrantInv
  <2>1. CASE h = g BY <2>1, <1>2, <1>5, <1>7 DEF Spent
  <2>2. CASE h # g
    <3>1. h \in Granted /\ grant'[h] = grant[h] BY <2>2, <1>7, <1>8 DEF Granted
    <3>2. grant[h].request # r BY <3>1, <1>2 DEF RowInv, GrantInv, Spent
    <3> QED BY <3>1, <3>2, <1>4 DEF RowInv, GrantInv
  <2> QED BY <2>1, <2>2
<1>10. ApprovedInv' BY <1>4, <1>5 DEF RowInv, ApprovedInv
<1>11. ConsumedInv'
  <2> SUFFICES ASSUME NEW q \in Requests, request'[q].state = "consumed"
               PROVE  /\ request'[q].approved
                      /\ request'[q].endedAt < request'[q].expiresAt
                      /\ request'[q].grant \in Grants
                      /\ grant'[request'[q].grant].state \in {"active", "revoked"}
                      /\ grant'[request'[q].grant].request = q
                      /\ grant'[request'[q].grant].name = request'[q].name
    BY DEF ConsumedInv
  <2>1. CASE q = r BY <2>1, <1>2, <1>5, <1>7 DEF RowInv, ApprovedInv, RequestRow
  <2>2. CASE q # r
    <3>1. request'[q] = request[q] BY <2>2, <1>4
    <3>2. request[q].grant \in Granted BY <3>1 DEF RowInv, ConsumedInv, Granted
    <3> QED BY <3>1, <3>2, <1>7 DEF RowInv, ConsumedInv
  <2> QED BY <2>1, <2>2
<1>12. ActiveNamesUnique'
  <2>1. request[r].name = NoName \/ \A h \in Grants : grant[h].state = "active" => grant[h].name # request[r].name
    BY DEF Claims, MayInsert, NameTaken
  <2> QED BY <2>1, <1>7 DEF RowInv, ActiveNamesUnique
<1>13. Created \subseteq Created' BY <1>4, <1>5 DEF Created
<1>14. RowInv' BY <1>9, <1>10, <1>11, <1>12 DEF RowInv
<1>15. g \in Granted' /\ \A h \in Granted : h \in Granted' /\ grant'[h] = grant[h]
  BY <1>7, <1>8 DEF Granted
<1>16. grant'[g].request = poll[p].request BY <1>7
<1> HIDE DEF r, at
<1> QED BY <1>3, <1>6, <1>7, <1>13, <1>14, <1>15, <1>16

\* A revocation ends an active row and leaves its request and name as they were.
LEMMA RevokeKeeps ==
  ASSUME TypeOK, RowInv, NEW g \in Grants, Revoke(g)
  PROVE  RowInv' /\ grant' \in [Grants -> GrantRow] /\ Granted \subseteq Granted'
         /\ \A h \in Grants : grant'[h].request = grant[h].request
<1>1. grant \in [Grants -> GrantRow] /\ grant[g] \in GrantRow BY DEF TypeOK
<1>2. /\ grant'[g] = [grant[g] EXCEPT !.state = "revoked"]
      /\ \A h \in Grants \ {g} : grant'[h] = grant[h]
      /\ request' = request /\ grant[g].state = "active"
      /\ grant' = [h \in Grants |-> grant'[h]]
  BY <1>1 DEF Revoke
<1>3. /\ grant'[g] \in GrantRow /\ grant'[g].state = "revoked"
      /\ grant'[g].request = grant[g].request /\ grant'[g].name = grant[g].name
  BY <1>1, <1>2 DEF GrantRow
<1>4. grant' \in [Grants -> GrantRow] BY <1>1, <1>2, <1>3
<1>5. \A h \in Grants :
        /\ grant'[h].request = grant[h].request /\ grant'[h].name = grant[h].name
        /\ grant'[h].state = "absent" <=> grant[h].state = "absent"
        /\ grant[h].state \in {"active", "revoked"} => grant'[h].state \in {"active", "revoked"}
        /\ grant'[h].state = "active" => grant[h].state = "active"
  <2> SUFFICES ASSUME NEW h \in Grants
               PROVE  /\ grant'[h].request = grant[h].request /\ grant'[h].name = grant[h].name
                      /\ grant'[h].state = "absent" <=> grant[h].state = "absent"
                      /\ grant[h].state \in {"active", "revoked"} => grant'[h].state \in {"active", "revoked"}
                      /\ grant'[h].state = "active" => grant[h].state = "active"
    OBVIOUS
  <2>1. CASE h = g BY <2>1, <1>2, <1>3
  <2>2. CASE h # g BY <2>2, <1>2
  <2> QED BY <2>1, <2>2
<1>6. GrantInv' BY <1>2, <1>5 DEF RowInv, GrantInv, Granted
<1>7. ApprovedInv' BY <1>2 DEF RowInv, ApprovedInv
<1>8. ConsumedInv' BY <1>2, <1>5 DEF RowInv, ConsumedInv
<1>9. ActiveNamesUnique' BY <1>5 DEF RowInv, ActiveNamesUnique
<1> QED BY <1>4, <1>5, <1>6, <1>7, <1>8, <1>9 DEF RowInv, Granted

\* The batches of maintenance are sets of the rows they are chosen from.
LEMMA BatchesAreRows ==
  ASSUME NEW rows, NEW key, NEW batch \in Batches(rows, key) PROVE batch \subseteq rows
BY DEF Batches

\* What maintenance does to a row: it expires an overdue request as of its
\* deadline, or deletes one that had ended, or both.
LEMMA CleanupRows ==
  ASSUME TypeOK, NEW at \in Nat, Cleanup(at)
  PROVE  /\ request' \in [Requests -> RequestRow]
         /\ \A r \in Requests :
              request'[r] # request[r] =>
                /\ request[r].state \in {"pending", "approved"} \union Terminal
                /\ request'[r].state \in {"expired", "deleted"}
                /\ request'[r].grant = request[r].grant
                /\ request[r].state \notin Terminal /\ request'[r].state = "deleted" =>
                     request[r].expiresAt + Retention <= at
                /\ request[r].state \in Terminal => request'[r].state = "deleted"
<1>1. request \in [Requests -> RequestRow] BY DEF TypeOK
<1>2. PICK overdue \in Batches({r \in Requests : Overdue(r, at)},
                              [r \in Requests |-> request[r].expiresAt]) :
        LET expired == [r \in Requests |->
                          IF r \in overdue
                            THEN [request[r] EXCEPT !.state = "expired",
                                                    !.endedAt = request[r].expiresAt]
                            ELSE request[r]]
        IN \E requests \in Batches({r \in Requests : Stale(expired[r], at - Retention)},
                                   [r \in Requests |-> expired[r].endedAt]) :
             request' = [r \in Requests |->
                           IF r \in requests THEN [expired[r] EXCEPT !.state = "deleted"]
                                             ELSE expired[r]]
  BY DEF Cleanup
<1> DEFINE expired == [r \in Requests |->
                         IF r \in overdue
                           THEN [request[r] EXCEPT !.state = "expired",
                                                   !.endedAt = request[r].expiresAt]
                           ELSE request[r]]
<1>3. PICK requests \in Batches({r \in Requests : Stale(expired[r], at - Retention)},
                               [r \in Requests |-> expired[r].endedAt]) :
        request' = [r \in Requests |->
                      IF r \in requests THEN [expired[r] EXCEPT !.state = "deleted"]
                                        ELSE expired[r]]
  BY <1>2
<1>4. overdue \subseteq {r \in Requests : Overdue(r, at)} BY BatchesAreRows
<1>5. requests \subseteq {r \in Requests : Stale(expired[r], at - Retention)} BY BatchesAreRows
<1>6. \A r \in Requests :
        /\ expired[r] \in RequestRow /\ expired[r].grant = request[r].grant
        /\ expired[r] # request[r] =>
             /\ request[r].state \in {"pending", "approved"} /\ expired[r].state = "expired"
             /\ expired[r].endedAt = request[r].expiresAt
  <2> SUFFICES ASSUME NEW r \in Requests
               PROVE  /\ expired[r] \in RequestRow /\ expired[r].grant = request[r].grant
                      /\ expired[r] # request[r] =>
                           /\ request[r].state \in {"pending", "approved"} /\ expired[r].state = "expired"
                           /\ expired[r].endedAt = request[r].expiresAt
    OBVIOUS
  <2>1. request[r] \in RequestRow BY <1>1
  <2>2. CASE r \in overdue BY <2>1, <2>2, <1>4 DEF Overdue, RequestRow
  <2>3. CASE r \notin overdue BY <2>1, <2>3 DEF RequestRow
  <2> QED BY <2>2, <2>3
<1> HIDE DEF expired
<1> SUFFICES ASSUME NEW r \in Requests
             PROVE  /\ request'[r] \in RequestRow
                    /\ request'[r] # request[r] =>
                         /\ request[r].state \in {"pending", "approved"} \union Terminal
                         /\ request'[r].state \in {"expired", "deleted"}
                         /\ request'[r].grant = request[r].grant
                         /\ request[r].state \notin Terminal /\ request'[r].state = "deleted" =>
                              request[r].expiresAt + Retention <= at
                         /\ request[r].state \in Terminal => request'[r].state = "deleted"
  BY <1>3
<1>7. expired[r] \in RequestRow /\ request[r] \in RequestRow BY <1>1, <1>6
<1>8. CASE r \in requests
  <2>1. request'[r] = [expired[r] EXCEPT !.state = "deleted"] BY <1>3, <1>8
  <2>2. /\ request'[r] \in RequestRow /\ request'[r].state = "deleted"
        /\ request'[r].grant = expired[r].grant
    BY <2>1, <1>7 DEF RequestRow
  <2>3. expired[r].state \in Terminal /\ expired[r].endedAt <= at - Retention
    BY <1>5, <1>8 DEF Stale
  <2>4. request[r].state \notin Terminal => request[r].expiresAt + Retention <= at
    <3> SUFFICES ASSUME request[r].state \notin Terminal PROVE request[r].expiresAt + Retention <= at
      OBVIOUS
    <3>1. expired[r].endedAt = request[r].expiresAt BY <2>3, <1>6
    <3> QED BY <3>1, <2>3, <1>7 DEF RequestRow
  <2> QED BY <2>2, <2>3, <2>4, <1>6
<1>9. CASE r \notin requests
  <2>1. request'[r] = expired[r] BY <1>3, <1>9
  <2> QED BY <2>1, <1>6, <1>7 DEF Terminal
<1> QED BY <1>8, <1>9

\* Maintenance takes no session away from a consumed request that is kept.
LEMMA CleanupKeeps ==
  ASSUME TypeOK, RowInv, NEW at \in Nat, Cleanup(at)
  PROVE  RowInv' /\ Created \subseteq Created' /\ grant' \in [Grants -> GrantRow] /\ Granted \subseteq Granted'
         /\ \A g \in Grants : grant'[g].request = grant[g].request
<1>1. request \in [Requests -> RequestRow] /\ grant \in [Grants -> GrantRow] BY DEF TypeOK
<1>2. PICK sessions \in Batches(StaleSessions(at - Retention),
                               [g \in Grants |-> grant[g].expiresAt]) :
        grant' = [g \in Grants |-> IF g \in sessions THEN [grant[g] EXCEPT !.state = "deleted"]
                                                     ELSE grant[g]]
  BY DEF Cleanup
<1>3. sessions \subseteq StaleSessions(at - Retention) BY BatchesAreRows
<1>4. \A g \in Grants :
        /\ grant'[g] \in GrantRow
        /\ grant'[g].request = grant[g].request /\ grant'[g].name = grant[g].name
        /\ grant'[g].state = "absent" <=> grant[g].state = "absent"
        /\ grant'[g].state = "active" => grant[g].state = "active"
        /\ g \notin sessions => grant'[g] = grant[g]
  <2> SUFFICES ASSUME NEW g \in Grants
               PROVE  /\ grant'[g] \in GrantRow
                      /\ grant'[g].request = grant[g].request /\ grant'[g].name = grant[g].name
                      /\ grant'[g].state = "absent" <=> grant[g].state = "absent"
                      /\ grant'[g].state = "active" => grant[g].state = "active"
                      /\ g \notin sessions => grant'[g] = grant[g]
    OBVIOUS
  <2>1. grant[g] \in GrantRow BY <1>1
  <2>2. CASE g \in sessions
    <3>1. grant'[g] = [grant[g] EXCEPT !.state = "deleted"] BY <1>2, <2>2
    <3>2. grant[g].state # "absent" BY <1>3, <2>2 DEF StaleSessions
    <3> QED BY <3>1, <3>2, <2>1, <2>2 DEF GrantRow
  <2>3. CASE g \notin sessions BY <1>2, <2>1, <2>3
  <2> QED BY <2>2, <2>3
<1>5. grant' \in [Grants -> GrantRow] BY <1>2, <1>4
<1>6. \A r \in Requests :
        /\ request[r].state \in Spent => request'[r].state \in Spent /\ request'[r].grant = request[r].grant
        /\ request'[r].state \in {"approved", "consumed"} => request'[r] = request[r]
        /\ r \in Created => r \in Created'
  BY CleanupRows DEF Spent, Terminal, Created
<1>7. Granted' = Granted BY <1>4 DEF Granted
<1>8. GrantInv' BY <1>4, <1>6, <1>7 DEF RowInv, GrantInv, Granted
<1>9. ApprovedInv' BY <1>6 DEF RowInv, ApprovedInv
<1>10. ConsumedInv'
  <2> SUFFICES ASSUME NEW r \in Requests, request'[r].state = "consumed"
               PROVE  /\ request'[r].approved
                      /\ request'[r].endedAt < request'[r].expiresAt
                      /\ request'[r].grant \in Grants
                      /\ grant'[request'[r].grant].state \in {"active", "revoked"}
                      /\ grant'[request'[r].grant].request = r
                      /\ grant'[request'[r].grant].name = request'[r].name
    BY DEF ConsumedInv
  <2>1. request'[r] = request[r] /\ r \in Created BY <1>6 DEF Created
  <2>2. request[r].grant \notin sessions BY <2>1, <1>3 DEF StaleSessions
  <2> QED BY <2>1, <2>2, <1>4 DEF RowInv, ConsumedInv
<1>11. ActiveNamesUnique' BY <1>4 DEF RowInv, ActiveNamesUnique
<1> QED BY <1>4, <1>5, <1>6, <1>7, <1>8, <1>9, <1>10, <1>11 DEF RowInv, Created

-----------------------------------------------------------------------------
(* The invocations.                                                        *)

\* The owner's invocations stay about requests that were created.
LEMMA OwnerKeeps ==
  ASSUME TypeOK, OwnerInv, Created \subseteq Created', NEW o \in Owners, BeginDecision(o) \/ OwnerStep(o)
  PROVE  owner' \in [Owners -> OwnerState] /\ OwnerInv'
<1>1. owner \in [Owners -> OwnerState] /\ now \in Nat BY DEF TypeOK
<1>2. owner[o] \in OwnerState BY <1>1
<1>3. NoDecision \in OwnerState /\ NoDecision.pc = "idle" BY DEF NoDecision, OwnerState
<1>4. CASE BeginDecision(o)
  <2>1. PICK r \in Created, decision \in {"approved", "denied"} :
          owner' = [owner EXCEPT ![o] = [pc |-> "expire", request |-> r,
                                         decision |-> decision, at |-> now]]
    BY <1>4 DEF BeginDecision
  <2>2. [pc |-> "expire", request |-> r, decision |-> decision, at |-> now] \in OwnerState
    BY <1>1 DEF OwnerState, Created
  <2> QED BY <2>1, <2>2, <1>1 DEF OwnerInv
<1>5. ASSUME Leave(o) PROVE owner' \in [Owners -> OwnerState] /\ OwnerInv'
  BY <1>5, <1>1, <1>3 DEF Leave, OwnerInv
<1>6. ASSUME owner[o].pc # "idle",
             NEW label \in {"details", "decide", "reload", "expire_late", "expire_shown"}, NEW at \in Nat,
             owner' = [owner EXCEPT ![o].pc = label, ![o].at = at]
      PROVE  owner' \in [Owners -> OwnerState] /\ OwnerInv'
  <2>1. owner' = [owner EXCEPT ![o] = [owner[o] EXCEPT !.pc = label, !.at = at]] BY <1>1, <1>6
  <2>2. [owner[o] EXCEPT !.pc = label, !.at = at] \in OwnerState BY <1>2 DEF OwnerState
  <2>3. [owner[o] EXCEPT !.pc = label, !.at = at].request = owner[o].request BY <1>2 DEF OwnerState
  <2> QED BY <2>1, <2>2, <2>3, <1>1, <1>6 DEF OwnerInv
<1>7. ASSUME owner[o].pc # "idle", NEW label \in {"details", "decide", "reload", "expire_late"}, GoOn(o, label)
      PROVE  owner' \in [Owners -> OwnerState] /\ OwnerInv'
  <2>1. owner' = [owner EXCEPT ![o] = [owner[o] EXCEPT !.pc = label]] BY <1>1, <1>7 DEF GoOn
  <2>2. [owner[o] EXCEPT !.pc = label] \in OwnerState BY <1>2 DEF OwnerState
  <2>3. [owner[o] EXCEPT !.pc = label].request = owner[o].request BY <1>2 DEF OwnerState
  <2> QED BY <2>1, <2>2, <2>3, <1>1, <1>7 DEF OwnerInv
<1>8. CASE ExpireForOwner(o) BY <1>8, <1>5, <1>7 DEF ExpireForOwner
<1>9. CASE LoadDetails(o) BY <1>9, <1>5, <1>7 DEF LoadDetails
<1>10. CASE Decide(o)
  <2>1. CASE Decidable(owner[o].request, owner[o].at) BY <2>1, <1>10, <1>6, <1>1 DEF Decide
  <2>2. CASE ~ Decidable(owner[o].request, owner[o].at) BY <2>2, <1>10, <1>7 DEF Decide
  <2> QED BY <2>1, <2>2
<1>11. CASE ReloadForOwner(o) BY <1>11, <1>5, <1>7 DEF ReloadForOwner
<1>12. CASE AbandonDecision(o) BY <1>12, <1>5 DEF AbandonDecision
<1> QED BY <1>4, <1>8, <1>9, <1>10, <1>11, <1>12 DEF OwnerStep

\* A poll that does not claim is not answered with a row.
LEMMA PollKeeps ==
  ASSUME TypeOK, PollInv, Created \subseteq Created', NEW p \in Polls, BeginPoll(p) \/ PollStep(p), ~ Claims(p)
  PROVE  /\ poll' \in [Polls -> PollState] /\ PollInv'
         /\ \A q \in Polls \ {p} : poll'[q] = poll[q]
         /\ poll'[p].answer = "claimed" =>
              poll[p].answer = "claimed" /\ poll'[p].grant = poll[p].grant /\ poll'[p].request = poll[p].request
<1> DEFINE Kept ==
      /\ poll' \in [Polls -> PollState] /\ PollInv'
      /\ \A q \in Polls \ {p} : poll'[q] = poll[q]
      /\ poll'[p].answer = "claimed" =>
           poll[p].answer = "claimed" /\ poll'[p].grant = poll[p].grant /\ poll'[p].request = poll[p].request
<1>1. poll \in [Polls -> PollState] /\ now \in Nat /\ poll[p] \in PollState BY DEF TypeOK
<1>2. NoPoll \in PollState /\ NoPoll.pc = "idle" /\ NoPoll.answer = "none"
  BY DEF NoPoll, PollState, Answers
<1>3. ASSUME NEW row \in PollState, poll' = [poll EXCEPT ![p] = row],
             row.pc \in {"idle", "answered"} \/ row.request \in Created',
             row.answer = "claimed" =>
               poll[p].answer = "claimed" /\ row.grant = poll[p].grant /\ row.request = poll[p].request
      PROVE  Kept
  <2>1. poll'[p] = row /\ \A q \in Polls \ {p} : poll'[q] = poll[q] BY <1>1, <1>3
  <2>2. PollInv' BY <2>1, <1>3 DEF PollInv
  <2> QED BY <2>1, <2>2, <1>1, <1>3
<1> SUFFICES Kept OBVIOUS
<1> HIDE DEF Kept
<1>4. CASE BeginPoll(p)
  <2>1. PICK r \in Created :
          poll' = [poll EXCEPT ![p] = [NoPoll EXCEPT !.pc = "expire", !.request = r, !.at = now]]
    BY <1>4 DEF BeginPoll
  <2>2. /\ [NoPoll EXCEPT !.pc = "expire", !.request = r, !.at = now] \in PollState
        /\ [NoPoll EXCEPT !.pc = "expire", !.request = r, !.at = now].request = r
        /\ [NoPoll EXCEPT !.pc = "expire", !.request = r, !.at = now].answer = "none"
    BY <1>1 DEF PollState, NoPoll, Answers, Created
  <2> QED BY <2>1, <2>2, <1>3
<1>5. ASSUME poll[p].pc \notin {"idle", "answered"},
             NEW label \in {"status", "load", "claim", "reload", "name_check", "expire_late"}, Continue(p, label)
      PROVE  Kept
  <2>1. poll' = [poll EXCEPT ![p] = [poll[p] EXCEPT !.pc = label]] BY <1>1, <1>5 DEF Continue
  <2>2. /\ [poll[p] EXCEPT !.pc = label] \in PollState
        /\ [poll[p] EXCEPT !.pc = label].request = poll[p].request
        /\ [poll[p] EXCEPT !.pc = label].answer = poll[p].answer
        /\ [poll[p] EXCEPT !.pc = label].grant = poll[p].grant
    BY <1>1 DEF PollState
  <2>3. poll[p].request \in Created' BY <1>5 DEF PollInv
  <2> QED BY <2>1, <2>2, <2>3, <1>3
<1>6. ASSUME NEW answer \in Answers \ {"claimed"}, Answer(p, answer) PROVE Kept
  <2>1. poll' = [poll EXCEPT ![p] = [poll[p] EXCEPT !.pc = "answered", !.answer = answer]]
    BY <1>1, <1>6 DEF Answer
  <2>2. /\ [poll[p] EXCEPT !.pc = "answered", !.answer = answer] \in PollState
        /\ [poll[p] EXCEPT !.pc = "answered", !.answer = answer].pc = "answered"
        /\ [poll[p] EXCEPT !.pc = "answered", !.answer = answer].answer = answer
    BY <1>1 DEF PollState
  <2> QED BY <2>1, <2>2, <1>3
<1>7. CASE ExpireForPoll(p) BY <1>7, <1>5, <1>6 DEF ExpireForPoll, Answers
<1>8. CASE LoadStatus(p) BY <1>8, <1>5, <1>6 DEF LoadStatus, Answers
<1>9. CASE LoadClaim(p)
  <2>1. /\ poll[p].request \in Requests /\ poll[p].pc = "load"
        /\ request[poll[p].request] \in RequestRow
        /\ request[poll[p].request].state \notin {"absent", "checked"}
    BY <1>9 DEF LoadClaim, PollInv, Created, TypeOK
  <2>2. poll[p].at \in Nat /\ request[poll[p].request].expiresAt \in Nat
    BY <2>1, <1>1 DEF PollState, RequestRow
  <2>3. \/ \E label \in {"expire_late", "claim"} : Continue(p, label)
        \/ \E answer \in {"error", "pending", "already_claimed", "denied", "expired"} : Answer(p, answer)
    <3> DEFINE row == request[poll[p].request]
    <3>1. CASE row.state = "deleted" BY <3>1, <1>9 DEF LoadClaim
    <3>2. CASE row.state \in {"pending", "approved"} /\ row.expiresAt <= poll[p].at
      BY <3>2, <2>2, <1>9 DEF LoadClaim
    <3>3. CASE row.state = "pending" /\ row.expiresAt > poll[p].at BY <3>3, <2>2, <1>9 DEF LoadClaim
    <3>4. CASE row.state = "approved" /\ row.expiresAt > poll[p].at BY <3>4, <2>2, <1>9 DEF LoadClaim
    <3>5. CASE row.state = "consumed" BY <3>5, <1>9 DEF LoadClaim
    <3>6. CASE row.state \in {"denied", "expired"} BY <3>6, <1>9 DEF LoadClaim
    <3> QED BY <2>1, <2>2, <3>1, <3>2, <3>3, <3>4, <3>5, <3>6 DEF RequestRow
  <2> QED BY <2>1, <2>3, <1>5, <1>6 DEF Answers
<1>10. CASE Claim(p)
  <2>1. poll[p].pc = "claim" /\ Continue(p, "reload") BY <1>10 DEF Claim, Claims
  <2> QED BY <2>1, <1>5
<1>11. CASE ReloadForPoll(p) BY <1>11, <1>5, <1>6 DEF ReloadForPoll, Answers
<1>12. CASE CheckNameAgain(p) BY <1>12, <1>6 DEF CheckNameAgain, Answers
<1>13. CASE AbandonPoll(p) BY <1>13, <1>2, <1>3 DEF AbandonPoll
<1> QED BY <1>4, <1>7, <1>8, <1>9, <1>10, <1>11, <1>12, <1>13 DEF PollStep

-----------------------------------------------------------------------------
(* The invariant.                                                          *)

\* An answer stays right while rows are neither forgotten nor given away.
LEMMA AnswersKept ==
  ASSUME AnswerInv, poll' = poll, Granted \subseteq Granted',
         \A g \in Granted : grant'[g].request = grant[g].request
  PROVE  AnswerInv'
BY DEF AnswerInv

\* What does not touch the invocations keeps what is claimed of them.
LEMMA CallsKept ==
  ASSUME TypeOK, PollInv, OwnerInv, Created \subseteq Created', UNCHANGED <<poll, owner>>
  PROVE  PollInv' /\ OwnerInv' /\ poll' \in [Polls -> PollState] /\ owner' \in [Owners -> OwnerState]
BY DEF TypeOK, PollInv, OwnerInv

\* Every step keeps the invariant.
LEMMA NextInv == IInv /\ [Next]_vars => IInv'
<1> SUFFICES ASSUME IInv, [Next]_vars PROVE IInv' OBVIOUS
<1> USE DEF IInv
<1>1. Granted \subseteq Grants BY DEF Granted
<1>2. ASSUME NEW r \in Requests, CheckName(r) \/ Create(r) \/ Show(r) PROVE IInv'
  <2>1. Ordinary /\ UNCHANGED <<poll, owner, now>> BY <1>2, CreationIsOrdinary
  <2>2. RowInv' /\ Created \subseteq Created' BY <2>1, OrdinaryKeeps
  <2>3. AnswerInv' BY <2>1, AnswersKept DEF Ordinary, Granted
  <2>4. PollInv' /\ OwnerInv' /\ TypeOK' BY <2>1, <2>2, CallsKept DEF TypeOK, Ordinary
  <2> QED BY <2>2, <2>3, <2>4
<1>3. ASSUME NEW o \in Owners, BeginDecision(o) \/ OwnerStep(o) PROVE IInv'
  <2>1. Ordinary /\ UNCHANGED <<poll, now>> BY <1>3, DecisionIsOrdinary
  <2>2. RowInv' /\ Created \subseteq Created' BY <2>1, OrdinaryKeeps
  <2>3. AnswerInv' BY <2>1, AnswersKept DEF Ordinary, Granted
  <2>4. owner' \in [Owners -> OwnerState] /\ OwnerInv' BY <1>3, <2>2, OwnerKeeps
  <2>5. PollInv' BY <2>1, <2>2 DEF PollInv
  <2>6. TypeOK' BY <2>1, <2>4 DEF TypeOK, Ordinary
  <2> QED BY <2>2, <2>3, <2>4, <2>5, <2>6
<1>4. ASSUME NEW p \in Polls, BeginPoll(p) \/ PollStep(p), ~ Claims(p) PROVE IInv'
  <2>1. Ordinary /\ UNCHANGED <<owner, now>> BY <1>4, PollIsOrdinary
  <2>2. RowInv' /\ Created \subseteq Created' BY <2>1, OrdinaryKeeps
  <2>3. /\ poll' \in [Polls -> PollState] /\ PollInv'
        /\ \A q \in Polls \ {p} : poll'[q] = poll[q]
        /\ poll'[p].answer = "claimed" =>
             poll[p].answer = "claimed" /\ poll'[p].grant = poll[p].grant /\ poll'[p].request = poll[p].request
    BY <1>4, <2>2, PollKeeps
  <2>4. \A q \in Polls :
          poll'[q].answer = "claimed" =>
            poll[q].answer = "claimed" /\ poll'[q].grant = poll[q].grant /\ poll'[q].request = poll[q].request
    BY <2>3
  <2>5. AnswerInv' BY <2>1, <2>4 DEF AnswerInv, Ordinary, Granted
  <2>6. OwnerInv' BY <2>1, <2>2 DEF OwnerInv
  <2>7. TypeOK' BY <2>1, <2>3 DEF TypeOK, Ordinary
  <2> QED BY <2>2, <2>3, <2>5, <2>6, <2>7
<1>5. ASSUME NEW p \in Polls, Claims(p) PROVE IInv'
  <2>1. PICK g \in Grants \ Granted :
          /\ poll' = [poll EXCEPT ![p].pc = "answered", ![p].answer = "claimed", ![p].grant = g]
          /\ g \in Granted' /\ grant'[g].request = poll[p].request
          /\ \A h \in Granted : h \in Granted' /\ grant'[h] = grant[h]
    BY <1>5, ClaimKeeps
  <2>2. /\ RowInv' /\ Created \subseteq Created'
        /\ request' \in [Requests -> RequestRow] /\ grant' \in [Grants -> GrantRow]
        /\ UNCHANGED <<owner, now>>
    BY <1>5, ClaimKeeps
  <2>3. poll \in [Polls -> PollState] /\ poll[p] \in PollState BY DEF TypeOK
  <2>4. /\ poll' = [poll EXCEPT ![p] = [poll[p] EXCEPT !.pc = "answered", !.answer = "claimed", !.grant = g]]
        /\ \A q \in Polls \ {p} : poll'[q] = poll[q]
    BY <2>1, <2>3
  <2>5. /\ [poll[p] EXCEPT !.pc = "answered", !.answer = "claimed", !.grant = g] \in PollState
        /\ poll'[p].pc = "answered" /\ poll'[p].grant = g /\ poll'[p].request = poll[p].request
    BY <2>1, <2>3, <2>4 DEF PollState, Answers
  <2>6. PollInv' BY <2>2, <2>4, <2>5 DEF PollInv
  <2>7. AnswerInv'
    <3>1. ASSUME NEW q \in Polls, poll'[q].answer = "claimed"
          PROVE  poll'[q].grant \in Granted' /\ grant'[poll'[q].grant].request = poll'[q].request
      <4>1. CASE q = p BY <4>1, <2>1, <2>5
      <4>2. CASE q # p
        <5>1. poll'[q] = poll[q] /\ poll[q].grant \in Granted
              /\ grant[poll[q].grant].request = poll[q].request
          BY <4>2, <3>1, <2>4 DEF AnswerInv
        <5> QED BY <5>1, <2>1
      <4> QED BY <4>1, <4>2
    <3>2. ASSUME NEW q \in Polls, NEW o \in Polls, q # o,
                 poll'[q].answer = "claimed", poll'[o].answer = "claimed"
          PROVE  poll'[q].grant # poll'[o].grant
      <4>1. \A other \in Polls \ {p} : poll'[other].answer = "claimed" => poll'[other].grant \in Granted
        BY <2>4 DEF AnswerInv
      <4>2. CASE q = p BY <4>1, <4>2, <3>2, <2>1, <2>5
      <4>3. CASE o = p BY <4>1, <4>3, <3>2, <2>1, <2>5
      <4>4. CASE q # p /\ o # p BY <4>4, <3>2, <2>4 DEF AnswerInv
      <4> QED BY <4>2, <4>3, <4>4
    <3> QED BY <3>1, <3>2 DEF AnswerInv
  <2>8. OwnerInv' BY <2>2 DEF OwnerInv
  <2>9. TypeOK' BY <2>2, <2>3, <2>4, <2>5 DEF TypeOK
  <2> QED BY <2>2, <2>6, <2>7, <2>8, <2>9
<1>6. ASSUME NEW g \in Grants, Revoke(g) PROVE IInv'
  <2>1. /\ RowInv' /\ grant' \in [Grants -> GrantRow] /\ Granted \subseteq Granted'
        /\ \A h \in Grants : grant'[h].request = grant[h].request
    BY <1>6, RevokeKeeps
  <2>2. UNCHANGED <<request, poll, owner, now>> BY <1>6 DEF Revoke
  <2>3. AnswerInv' BY <2>1, <2>2, <1>1, AnswersKept
  <2>4. PollInv' /\ OwnerInv' BY <2>2 DEF PollInv, OwnerInv, Created
  <2> QED BY <2>1, <2>2, <2>3, <2>4 DEF TypeOK
<1>7. ASSUME NEW at \in 0 .. now, Cleanup(at) PROVE IInv'
  <2>1. at \in Nat BY DEF TypeOK
  <2>2. /\ RowInv' /\ Created \subseteq Created' /\ grant' \in [Grants -> GrantRow]
        /\ Granted \subseteq Granted' /\ \A g \in Grants : grant'[g].request = grant[g].request
    BY <1>7, <2>1, CleanupKeeps
  <2>3. request' \in [Requests -> RequestRow] /\ UNCHANGED <<poll, owner, now>>
    BY <1>7, <2>1, CleanupRows DEF Cleanup
  <2>4. AnswerInv' BY <2>2, <2>3, <1>1, AnswersKept
  <2>5. PollInv' /\ OwnerInv' /\ TypeOK' BY <2>2, <2>3, CallsKept DEF TypeOK
  <2> QED BY <2>2, <2>4, <2>5
<1>8. ASSUME Tick PROVE IInv'
  BY <1>8 DEF Tick, TypeOK, PollInv, OwnerInv, Created, RowInv, GrantInv, Granted, ApprovedInv, ConsumedInv,
     ActiveNamesUnique, AnswerInv
<1>9. ASSUME UNCHANGED vars PROVE IInv'
  BY <1>9 DEF vars, TypeOK, PollInv, OwnerInv, Created, RowInv, GrantInv, Granted, ApprovedInv, ConsumedInv,
     ActiveNamesUnique, AnswerInv
<1> QED BY <1>2, <1>3, <1>4, <1>5, <1>6, <1>7, <1>8, <1>9 DEF Next

\* The invariant the theorems below follow from.
THEOREM Inductive == Spec => []IInv
<1> QED BY InitInv, NextInv, PTL DEF Spec

\* Every row and every invocation keeps its type in every behaviour.
THEOREM TypeCorrect == Spec => []TypeOK
<1>1. IInv => TypeOK BY DEF IInv
<1> QED BY Inductive, <1>1, PTL

\* However many polls overlap, one of them at most is answered with the one row
\* a request leads to.
THEOREM OneGrant == Spec => []OneGrantPerRequest
<1>1. IInv => OneGrantPerRequest
  BY DEF IInv, RowInv, GrantInv, AnswerInv, OneGrantPerRequest
<1> QED BY Inductive, <1>1, PTL

\* Consumed requests and the rows inserted for them refer to each other, for as
\* long as the request is kept.
THEOREM Backed == Spec => []GrantsAreBacked
<1>1. ASSUME IInv PROVE GrantsAreBacked
  <2>1. \A r \in Requests :
          request[r].state = "consumed" =>
            /\ request[r].approved
            /\ request[r].endedAt < request[r].expiresAt
            /\ request[r].grant # NoGrant
            /\ grant[request[r].grant].state \in {"active", "revoked"}
            /\ grant[request[r].grant].request = r
            /\ grant[request[r].grant].name = request[r].name
    BY <1>1 DEF IInv, RowInv, ConsumedInv
  <2>2. \A g \in Granted :
          LET r == grant[g].request
          IN request[r].state # "deleted" => request[r].state = "consumed" /\ request[r].grant = g
    BY <1>1 DEF IInv, RowInv, GrantInv, Spent
  <2> QED BY <2>1, <2>2 DEF GrantsAreBacked
<1> QED BY Inductive, <1>1, PTL

\* No two active credentials bear one name.
THEOREM NamesUnique == Spec => []ActiveNamesUnique
<1>1. IInv => ActiveNamesUnique BY DEF IInv, RowInv
<1> QED BY Inductive, <1>1, PTL

\* Rows change state as the trigger demands: a decision, an expiry and a claim
\* are taken from the state they need, whatever ran since it was read, and a row
\* is deleted in a terminal state or long after its deadline.
THEOREM Transitions == Spec => LegalTransitions
<1> DEFINE Legal(r) ==
      <<request[r].state, request'[r].state>> \in
        {<<"absent", "checked">>, <<"checked", "pending">>,
         <<"pending", "approved">>, <<"pending", "denied">>, <<"pending", "expired">>,
         <<"approved", "consumed">>, <<"approved", "expired">>}
      \/ /\ request'[r].state = "deleted"
         /\ \/ request[r].state \in Terminal
            \/ request[r].state \in {"pending", "approved"} /\ request[r].expiresAt + Retention <= now
<1>1. ASSUME IInv, [Next]_vars, NEW r \in Requests, request'[r].state # request[r].state
      PROVE  Legal(r)
  <2>1. /\ request \in [Requests -> RequestRow] /\ now \in Nat
        /\ owner \in [Owners -> OwnerState] /\ poll \in [Polls -> PollState]
    BY <1>1 DEF IInv, TypeOK
  <2>2. ASSUME NEW q, NEW at, Expire(q, at) PROVE Legal(r)
    BY <2>2, <2>1, <1>1 DEF Expire, Overdue
  <2>3. ASSUME NEW q \in Requests, CheckName(q) \/ Create(q) \/ Show(q) PROVE Legal(r)
    <3>1. CASE CheckName(q)
      <4>1. PICK name \in Names \union {NoName} :
              request' = [request EXCEPT ![q] = [NoRow EXCEPT !.state = "checked", !.name = name,
                                                              !.expiresAt = Deadline(now)]]
        BY <3>1 DEF CheckName
      <4>2. q = r /\ request'[r].state = "checked" BY <4>1, <2>1, <1>1 DEF NoRow
      <4> QED BY <4>2, <3>1 DEF CheckName
    <3>2. CASE Create(q)
      <4>1. q = r /\ request'[r].state = "pending" BY <3>2, <2>1, <1>1 DEF Create, RequestRow
      <4> QED BY <4>1, <3>2 DEF Create
    <3>3. CASE Show(q) BY <3>3, <2>2 DEF Show
    <3> QED BY <2>3, <3>1, <3>2, <3>3
  <2>4. ASSUME NEW o \in Owners, BeginDecision(o) \/ OwnerStep(o) PROVE Legal(r)
    <3>1. CASE ExpireForOwner(o) BY <3>1, <2>2 DEF ExpireForOwner
    <3>2. CASE Decide(o)
      <4>1. Decidable(owner[o].request, owner[o].at) BY <3>2, <1>1 DEF Decide
      <4>2. request' = [request EXCEPT
                          ![owner[o].request].state = owner[o].decision,
                          ![owner[o].request].approved = (owner[o].decision = "approved"),
                          ![owner[o].request].endedAt =
                             IF owner[o].decision = "denied" THEN owner[o].at ELSE @]
        BY <4>1, <3>2 DEF Decide
      <4>3. owner[o].request = r /\ request'[r].state = owner[o].decision
        BY <4>2, <2>1, <1>1 DEF RequestRow
      <4>4. owner[o].decision \in {"approved", "denied"} BY <2>1 DEF OwnerState
      <4> QED BY <4>1, <4>3, <4>4 DEF Decidable
    <3>3. CASE BeginDecision(o) \/ LoadDetails(o) \/ ReloadForOwner(o) \/ AbandonDecision(o)
      BY <3>3, <1>1 DEF BeginDecision, LoadDetails, ReloadForOwner, AbandonDecision
    <3> QED BY <2>4, <3>1, <3>2, <3>3 DEF OwnerStep
  <2>5. ASSUME NEW p \in Polls, BeginPoll(p) \/ PollStep(p) PROVE Legal(r)
    <3>1. CASE ExpireForPoll(p) BY <3>1, <2>2 DEF ExpireForPoll
    <3>2. CASE Claim(p)
      <4>1. Claimable(poll[p].request, poll[p].at) BY <3>2, <1>1 DEF Claim
      <4>2. PICK g \in Grants :
              request' = [request EXCEPT ![poll[p].request].state = "consumed",
                                         ![poll[p].request].endedAt = poll[p].at,
                                         ![poll[p].request].grant = g]
        BY <4>1, <3>2, <1>1 DEF Claim
      <4>3. poll[p].request = r /\ request'[r].state = "consumed" BY <4>2, <2>1, <1>1 DEF RequestRow
      <4> QED BY <4>1, <4>3 DEF Claimable
    <3>3. CASE BeginPoll(p) \/ LoadStatus(p) \/ LoadClaim(p) \/ ReloadForPoll(p) \/ CheckNameAgain(p)
               \/ AbandonPoll(p)
      BY <3>3, <1>1 DEF BeginPoll, LoadStatus, LoadClaim, ReloadForPoll, CheckNameAgain, AbandonPoll
    <3> QED BY <2>5, <3>1, <3>2, <3>3 DEF PollStep
  <2>6. ASSUME NEW at \in 0 .. now, Cleanup(at) PROVE Legal(r)
    <3>1. at \in Nat /\ at <= now BY <2>1
    <3>2. /\ request[r].state \in {"pending", "approved"} \union Terminal
          /\ request'[r].state \in {"expired", "deleted"}
          /\ request[r].state \notin Terminal /\ request'[r].state = "deleted" =>
               request[r].expiresAt + Retention <= at
          /\ request[r].state \in Terminal => request'[r].state = "deleted"
      BY <3>1, <2>6, <1>1, CleanupRows DEF IInv
    <3>3. request[r].expiresAt \in Nat BY <2>1 DEF RequestRow
    <3>4. request[r].expiresAt + Retention <= at => request[r].expiresAt + Retention <= now
      BY <3>1, <3>3, <2>1
    <3> QED BY <3>2, <3>4 DEF Terminal
  <2>7. CASE UNCHANGED request BY <2>7, <1>1
  <2> QED BY <2>3, <2>4, <2>5, <2>6, <2>7, <1>1 DEF Next, Revoke, Tick, vars
<1>2. IInv /\ [Next]_vars => [\A r \in Requests : request'[r].state # request[r].state => Legal(r)]_vars
  BY <1>1
<1> QED BY Inductive, <1>2, PTL DEF Spec, LegalTransitions
=============================================================================
