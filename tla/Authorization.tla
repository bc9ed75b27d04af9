--------------------------- MODULE Authorization ---------------------------
(***************************************************************************)
(* Authorization requests and the credentials they lead to                 *)
(* (authorization.rs, with the routes of api.rs and approval.rs that call  *)
(* it): creation, the owner's decision, the polls that claim, expiry, the  *)
(* revocation of sender credentials and the scheduled maintenance.         *)
(*                                                                         *)
(* An action is one D1 statement or batch.  An invocation captures the     *)
(* time once and works with it afterwards, so its timestamp is stale by as *)
(* long as it takes; times are counted from some instant more than         *)
(* Retention after the epoch.                                              *)
(***************************************************************************)
EXTENDS Integers, FiniteSets

CONSTANTS
  Requests,    \* the request identifiers `create` may draw
  Grants,      \* the credential and session identifiers a claim may draw
  Names,       \* sender credential names
  NoName,      \* credential_name of a reader request: NULL
  NoGrant,     \* credential_id and session_id: NULL
  NoRequest,   \* an invocation that is not about a request
  Polls,       \* invocations of POST /api/v1/authorization/poll
  Owners,      \* invocations of the approval and denial routes
  RequestTtl,  \* request_ttl_seconds
  SessionTtl,  \* reader_session_ttl_seconds
  Retention,   \* TERMINAL_REQUEST_RETENTION_SECONDS
  BatchLimit,  \* MAINTENANCE_BATCH_LIMIT
  Horizon,     \* bound: clients and owners send nothing from then on
  MaxTime      \* bound on the clock

ASSUME NullAssumption ==
  NoName \notin Names /\ NoGrant \notin Grants /\ NoRequest \notin Requests
ASSUME LifetimeAssumption ==
  /\ RequestTtl \in Nat \ {0}
  /\ SessionTtl \in Nat
  /\ Retention \in Nat
  /\ Horizon \in Nat
  /\ MaxTime \in Nat

VARIABLES
  request,  \* id -> the row of authorization_requests
  grant,    \* id -> the row of sender_credentials or reader_sessions
  poll,     \* poll -> its invocation
  owner,    \* owner -> its invocation
  now       \* the clock

vars == <<request, grant, poll, owner, now>>

\* "checked" is a creation between its two statements, which has no row yet;
\* "deleted" a row that maintenance has removed.
RequestRow ==
  [state : {"absent", "checked", "pending", "approved", "denied", "expired",
            "consumed", "deleted"},
   name : Names \union {NoName},   \* NoName: the request of a reader
   expiresAt : Nat,
   approved : BOOLEAN,             \* approved_at IS NOT NULL
   endedAt : Nat,                  \* COALESCE(consumed_at, denied_at, expired_at)
   grant : Grants \union {NoGrant}]

GrantRow ==
  [state : {"absent", "active", "revoked", "deleted"},
   request : Requests \union {NoRequest},  \* whose claim inserted the row
   name : Names \union {NoName},           \* NoName: a reader session
   expiresAt : Nat]                        \* of a session

Answers == {"none", "pending", "denied", "expired", "already_claimed", "claimed", "error"}

PollState ==
  [pc : {"idle", "expire", "status", "load", "claim", "reload", "name_check",
         "expire_late", "answered"},
   request : Requests \union {NoRequest},
   at : Nat,
   answer : Answers,
   grant : Grants \union {NoGrant}]

OwnerState ==
  [pc : {"idle", "expire", "details", "decide", "reload", "expire_late", "expire_shown"},
   request : Requests \union {NoRequest},
   decision : {"approved", "denied"},
   at : Nat]

NoRow ==
  [state |-> "absent", name |-> NoName, expiresAt |-> 0, approved |-> FALSE,
   endedAt |-> 0, grant |-> NoGrant]
NoGrantRow ==
  [state |-> "absent", request |-> NoRequest, name |-> NoName, expiresAt |-> 0]
NoPoll ==
  [pc |-> "idle", request |-> NoRequest, at |-> 0, answer |-> "none", grant |-> NoGrant]
NoDecision == [pc |-> "idle", request |-> NoRequest, decision |-> "denied", at |-> 0]

Created == {r \in Requests : request[r].state \notin {"absent", "checked"}}
Terminal == {"denied", "expired", "consumed"}
Granted == {g \in Grants : grant[g].state # "absent"}

-----------------------------------------------------------------------------
(* The conditions and updates of the statements.  An operator named        *)
(* Faulty... is the one below it with a plausible mistake; no              *)
(* specification uses it, it serves to see a property fail.                *)

NameTaken(name) == \E g \in Grants : grant[g].state = "active" /\ grant[g].name = name

FaultyMayInsert(r) == TRUE
\* INSERT OR IGNORE under the unique index on the active names; a session has
\* no name and is always inserted.
MayInsert(r) == request[r].name = NoName \/ ~ NameTaken(request[r].name)

FaultyClaimable(r, at) == request[r].state \in {"approved", "consumed"} /\ request[r].expiresAt > at
\* The condition of both statements of the claim batch.
Claimable(r, at) == request[r].state = "approved" /\ request[r].expiresAt > at

FaultyDecidable(r, at) == request[r].state \in {"pending", "denied"} /\ request[r].expiresAt > at
\* The condition of `transition`.
Decidable(r, at) == request[r].state = "pending" /\ request[r].expiresAt > at

FaultyOverdue(r, at) == request[r].state = "pending" /\ request[r].expiresAt <= at
\* Pending and approved requests share one deadline, which is exclusive.
Overdue(r, at) == request[r].state \in {"pending", "approved"} /\ request[r].expiresAt <= at

Deadline(at) == at + RequestTtl

\* expire_if_needed, which records the time it was called with
Expire(r, at) ==
  request' = IF Overdue(r, at)
               THEN [request EXCEPT ![r].state = "expired", ![r].endedAt = at]
               ELSE request

Init ==
  /\ request = [r \in Requests |-> NoRow]
  /\ grant = [g \in Grants |-> NoGrantRow]
  /\ poll = [p \in Polls |-> NoPoll]
  /\ owner = [o \in Owners |-> NoDecision]
  /\ now = 0

-----------------------------------------------------------------------------
(* Creation.                                                               *)

\* create_sender finds no active credential of that name; create_reader has
\* nothing to check.  The time is the one the request arrived at.
CheckName(r) ==
  /\ request[r].state = "absent"
  /\ now < Horizon
  /\ \E name \in Names \union {NoName} :
       /\ name # NoName => ~ NameTaken(name)
       /\ request' = [request EXCEPT ![r] = [NoRow EXCEPT !.state = "checked",
                                               !.name = name,
                                               !.expiresAt = Deadline(now)]]
  /\ UNCHANGED <<grant, poll, owner, now>>

Create(r) ==
  /\ request[r].state = "checked"
  /\ request' = [request EXCEPT ![r].state = "pending"]
  /\ UNCHANGED <<grant, poll, owner, now>>

\* The status route and the approval page expire the request they show; their
\* timestamp is of some moment before the statement.
Show(r) ==
  /\ r \in Created
  /\ now < Horizon
  /\ \E at \in 0..now : Expire(r, at)
  /\ UNCHANGED <<grant, poll, owner, now>>

-----------------------------------------------------------------------------
(* The owner's decision: action_route and `transition`.                    *)

GoOn(o, label) == owner' = [owner EXCEPT ![o].pc = label]
Leave(o) == owner' = [owner EXCEPT ![o] = NoDecision]

BeginDecision(o) ==
  /\ owner[o].pc = "idle"
  /\ now < Horizon
  /\ \E r \in Created, decision \in {"approved", "denied"} :
       owner' = [owner EXCEPT ![o] = [pc |-> "expire", request |-> r,
                                      decision |-> decision, at |-> now]]
  /\ UNCHANGED <<request, grant, poll, now>>

\* Before the details, once a decision came too late, and when the decided
\* request is shown.
ExpireForOwner(o) ==
  /\ owner[o].pc \in {"expire", "expire_late", "expire_shown"}
  /\ Expire(owner[o].request, owner[o].at)
  /\ IF owner[o].pc = "expire" THEN GoOn(o, "details") ELSE Leave(o)
  /\ UNCHANGED <<grant, poll, now>>

\* load_request of approval_details
LoadDetails(o) ==
  /\ owner[o].pc = "details"
  /\ IF request[owner[o].request].state = "deleted" THEN Leave(o) ELSE GoOn(o, "decide")
  /\ UNCHANGED <<request, grant, poll, now>>

Decide(o) ==
  /\ owner[o].pc = "decide"
  /\ LET r == owner[o].request
     IN IF Decidable(r, owner[o].at)
          THEN /\ request' = [request EXCEPT
                                ![r].state = owner[o].decision,
                                ![r].approved = (owner[o].decision = "approved"),
                                ![r].endedAt = IF owner[o].decision = "denied"
                                                 THEN owner[o].at ELSE @]
               /\ owner' = [owner EXCEPT ![o].pc = "expire_shown", ![o].at = now]
          ELSE GoOn(o, "reload") /\ UNCHANGED request
  /\ UNCHANGED <<grant, poll, now>>

\* The statement changed nothing: find out why.
ReloadForOwner(o) ==
  /\ owner[o].pc = "reload"
  /\ LET row == request[owner[o].request]
     IN IF row.state = "pending" /\ row.expiresAt <= owner[o].at
          THEN GoOn(o, "expire_late")
          ELSE Leave(o)
  /\ UNCHANGED <<request, grant, poll, now>>

\* A call fails or the invocation is ended.
AbandonDecision(o) ==
  /\ owner[o].pc # "idle"
  /\ Leave(o)
  /\ UNCHANGED <<request, grant, poll, now>>

OwnerStep(o) ==
  \/ ExpireForOwner(o) \/ LoadDetails(o) \/ Decide(o) \/ ReloadForOwner(o)
  \/ AbandonDecision(o)

-----------------------------------------------------------------------------
(* A poll: the status of the request, then `claim`.                        *)

Continue(p, label) == poll' = [poll EXCEPT ![p].pc = label]
Answer(p, answer) == poll' = [poll EXCEPT ![p].pc = "answered", ![p].answer = answer]

BeginPoll(p) ==
  /\ poll[p].pc \in {"idle", "answered"}
  /\ now < Horizon
  /\ \E r \in Created :
       poll' = [poll EXCEPT ![p] = [NoPoll EXCEPT !.pc = "expire", !.request = r, !.at = now]]
  /\ UNCHANGED <<request, grant, owner, now>>

ExpireForPoll(p) ==
  /\ poll[p].pc \in {"expire", "expire_late"}
  /\ Expire(poll[p].request, poll[p].at)
  /\ IF poll[p].pc = "expire" THEN Continue(p, "status") ELSE Answer(p, "expired")
  /\ UNCHANGED <<grant, owner, now>>

\* load_request of `status`, for the kind
LoadStatus(p) ==
  /\ poll[p].pc = "status"
  /\ IF request[poll[p].request].state = "deleted"
       THEN Answer(p, "error")
       ELSE Continue(p, "load")
  /\ UNCHANGED <<request, grant, owner, now>>

\* load_request of `claim`.  A wrong polling secret is an error here.
LoadClaim(p) ==
  /\ poll[p].pc = "load"
  /\ LET row == request[poll[p].request]
     IN CASE row.state = "deleted" -> Answer(p, "error")
          [] row.state \in {"pending", "approved"} /\ row.expiresAt <= poll[p].at
               -> Continue(p, "expire_late")
          [] row.state = "pending" /\ row.expiresAt > poll[p].at -> Answer(p, "pending")
          [] row.state = "approved" /\ row.expiresAt > poll[p].at -> Continue(p, "claim")
          [] row.state = "consumed" -> Answer(p, "already_claimed")
          [] row.state \in {"denied", "expired"} -> Answer(p, row.state)
  /\ UNCHANGED <<request, grant, owner, now>>

FaultyClaim(p) ==
  /\ poll[p].pc = "claim"
  /\ LET r == poll[p].request
     IN IF Claimable(r, poll[p].at)
          THEN \E g \in Grants \ Granted :
                 /\ request' = [request EXCEPT ![r].state = "consumed",
                                               ![r].endedAt = poll[p].at,
                                               ![r].grant = g]
                 /\ grant' = IF MayInsert(r)
                               THEN [grant EXCEPT
                                       ![g] = [state |-> "active", request |-> r,
                                               name |-> request[r].name,
                                               expiresAt |-> poll[p].at + SessionTtl]]
                               ELSE grant
                 /\ poll' = [poll EXCEPT ![p].pc = "answered", ![p].answer = "claimed",
                                         ![p].grant = g]
          ELSE Continue(p, "reload") /\ UNCHANGED <<request, grant>>
  /\ UNCHANGED <<owner, now>>

\* The batch: insert the credential or session, and consume the request if its
\* own insertion took place.
Claim(p) ==
  /\ poll[p].pc = "claim"
  /\ LET r == poll[p].request
     IN IF Claimable(r, poll[p].at) /\ MayInsert(r)
          THEN \E g \in Grants \ Granted :
                 /\ request' = [request EXCEPT ![r].state = "consumed",
                                               ![r].endedAt = poll[p].at,
                                               ![r].grant = g]
                 /\ grant' = [grant EXCEPT
                                ![g] = [state |-> "active", request |-> r,
                                        name |-> request[r].name,
                                        expiresAt |-> poll[p].at + SessionTtl]]
                 /\ poll' = [poll EXCEPT ![p].pc = "answered", ![p].answer = "claimed",
                                         ![p].grant = g]
          ELSE Continue(p, "reload") /\ UNCHANGED <<request, grant>>
  /\ UNCHANGED <<owner, now>>

\* The batch consumed nothing: find out why.
ReloadForPoll(p) ==
  /\ poll[p].pc = "reload"
  /\ LET row == request[poll[p].request]
     IN CASE row.state = "deleted" -> Answer(p, "error")
          [] row.state = "expired" -> Answer(p, "expired")
          [] row.state = "approved" /\ row.expiresAt <= poll[p].at
               -> Continue(p, "expire_late")
          [] OTHER -> IF row.name # NoName /\ row.state # "consumed"
                        THEN Continue(p, "name_check")
                        ELSE Answer(p, "already_claimed")
  /\ UNCHANGED <<request, grant, owner, now>>

\* credential_name_exists, of claim_sender_row
CheckNameAgain(p) ==
  /\ poll[p].pc = "name_check"
  /\ Answer(p, IF NameTaken(request[poll[p].request].name) THEN "error" ELSE "already_claimed")
  /\ UNCHANGED <<request, grant, owner, now>>

\* A call fails or the invocation is ended.
AbandonPoll(p) ==
  /\ poll[p].pc \notin {"idle", "answered"}
  /\ poll' = [poll EXCEPT ![p] = NoPoll]
  /\ UNCHANGED <<request, grant, owner, now>>

PollStep(p) ==
  \/ ExpireForPoll(p) \/ LoadStatus(p) \/ LoadClaim(p) \/ Claim(p) \/ ReloadForPoll(p)
  \/ CheckNameAgain(p) \/ AbandonPoll(p)

-----------------------------------------------------------------------------

\* A sender, authenticated by a credential it was once granted, revokes the
\* active credential of a name; its own may have been revoked meanwhile.
Revoke(g) ==
  /\ grant[g].state = "active"
  /\ grant[g].name # NoName
  /\ grant' = [grant EXCEPT ![g].state = "revoked"]
  /\ UNCHANGED <<request, poll, owner, now>>

\* ORDER BY key LIMIT MAINTENANCE_BATCH_LIMIT, ties in any order.
Batches(rows, key) ==
  {batch \in SUBSET rows :
     /\ Cardinality(batch) <= BatchLimit
     /\ Cardinality(batch) = BatchLimit \/ batch = rows
     /\ \A a \in batch, b \in rows \ batch : key[a] <= key[b]}

FaultyStaleSessions(cutoff) ==
  {g \in Granted : grant[g].state = "active" /\ grant[g].name = NoName /\ grant[g].expiresAt <= cutoff}
\* Expired sessions that no request refers to.
StaleSessions(cutoff) ==
  {g \in Granted :
     /\ grant[g].state = "active" /\ grant[g].name = NoName
     /\ grant[g].expiresAt <= cutoff
     /\ \A r \in Created : request[r].grant = g => request[r].state = "deleted"}

\* Requests that ended before the retention period.
Stale(row, cutoff) == row.state \in Terminal /\ row.endedAt <= cutoff

\* `cleanup`, one batch: expire overdue requests as of their deadline, delete
\* sessions, then delete requests, each a limited number.
Cleanup(at) ==
  /\ \E overdue \in Batches({r \in Requests : Overdue(r, at)},
                            [r \in Requests |-> request[r].expiresAt]) :
       LET expired == [r \in Requests |->
                         IF r \in overdue
                           THEN [request[r] EXCEPT !.state = "expired",
                                                   !.endedAt = request[r].expiresAt]
                           ELSE request[r]]
       IN \E requests \in Batches({r \in Requests : Stale(expired[r], at - Retention)},
                                  [r \in Requests |-> expired[r].endedAt]) :
            request' = [r \in Requests |->
                          IF r \in requests THEN [expired[r] EXCEPT !.state = "deleted"]
                                            ELSE expired[r]]
  /\ \E sessions \in Batches(StaleSessions(at - Retention),
                             [g \in Grants |-> grant[g].expiresAt]) :
       grant' = [g \in Grants |-> IF g \in sessions THEN [grant[g] EXCEPT !.state = "deleted"]
                                                    ELSE grant[g]]
  /\ UNCHANGED <<poll, owner, now>>

Busy ==
  \/ \E o \in Owners : owner[o].pc # "idle"
  \/ \E p \in Polls : poll[p].pc \notin {"idle", "answered"}

\* From the horizon on the clock waits for the invocations under way.
Tick ==
  /\ now < MaxTime
  /\ now < Horizon \/ ~ Busy
  /\ now' = now + 1
  /\ UNCHANGED <<request, grant, poll, owner>>

Next ==
  \/ \E r \in Requests : CheckName(r) \/ Create(r) \/ Show(r)
  \/ \E o \in Owners : BeginDecision(o) \/ OwnerStep(o)
  \/ \E p \in Polls : BeginPoll(p) \/ PollStep(p)
  \/ \E g \in Grants : Revoke(g)
  \/ \E at \in 0..now : Cleanup(at)   \* the scheduled time, not the current one
  \/ Tick

Spec == Init /\ [][Next]_vars

\* Invocations end, time passes, and the schedule keeps firing, at current times
\* in the end.
Fairness ==
  /\ \A o \in Owners : WF_vars(OwnerStep(o))
  /\ \A p \in Polls : WF_vars(PollStep(p))
  /\ WF_vars(Tick)
  /\ WF_vars(Cleanup(now))

FairSpec == Spec /\ Fairness

-----------------------------------------------------------------------------
(* Properties.                                                             *)

\* Every variable has its type.
TypeOK ==
  /\ request \in [Requests -> RequestRow]
  /\ grant \in [Grants -> GrantRow]
  /\ poll \in [Polls -> PollState]
  /\ owner \in [Owners -> OwnerState]
  /\ now \in Nat

\* However many polls of one request are under way at once, at most one of
\* them creates a credential or session, and only that one is answered with it.
OneGrantPerRequest ==
  /\ \A g, h \in Granted : grant[g].request = grant[h].request => g = h
  /\ \A p, q \in Polls :
       /\ poll[p].answer = "claimed" => grant[poll[p].grant].request = poll[p].request
       /\ poll[p].answer = "claimed" /\ poll[q].answer = "claimed" /\ p # q
            => poll[p].grant # poll[q].grant

\* A consumed request was approved, ended before its deadline, and refers to a
\* row that exists and was inserted for it, under its name; and a row whose
\* request is still there is referred to by it.
GrantsAreBacked ==
  /\ \A r \in Requests :
       request[r].state = "consumed" =>
         /\ request[r].approved
         /\ request[r].endedAt < request[r].expiresAt
         /\ request[r].grant # NoGrant
         /\ grant[request[r].grant].state \in {"active", "revoked"}
         /\ grant[request[r].grant].request = r
         /\ grant[request[r].grant].name = request[r].name
  /\ \A g \in Granted :
       LET r == grant[g].request
       IN request[r].state # "deleted" =>
            request[r].state = "consumed" /\ request[r].grant = g

\* Requests for one name may be approved together, but no two credentials of
\* that name are active at once, whatever claims and revocations overlap.
ActiveNamesUnique ==
  \A g, h \in Grants :
    grant[g].state = "active" /\ grant[h].state = "active" /\ grant[g].name = grant[h].name
      => g = h \/ grant[g].name = NoName

\* The transitions the trigger of migration 0004 lets pass, without its help;
\* rows are deleted in a terminal state only, or at the end of their life.
LegalTransitions ==
  [][\A r \in Requests :
       request'[r].state # request[r].state =>
         <<request[r].state, request'[r].state>> \in
           {<<"absent", "checked">>, <<"checked", "pending">>,
            <<"pending", "approved">>, <<"pending", "denied">>, <<"pending", "expired">>,
            <<"approved", "consumed">>, <<"approved", "expired">>}
           \/ /\ request'[r].state = "deleted"
              /\ \/ request[r].state \in Terminal
                 \/ request[r].state \in {"pending", "approved"}
                    /\ request[r].expiresAt + Retention <= now]_vars

\* Everything maintenance has to remove: requests, whatever became of them, and
\* reader sessions.
Collectable ==
  \/ \E r \in Created : request[r].state # "deleted"
  \/ \E g \in Grants : grant[g].state = "active" /\ grant[g].name = NoName

\* The tables do not grow for ever: every request is removed in the end, whether
\* it was decided, claimed or abandoned, and every session after it, although
\* each pass removes a limited number and leaves referenced sessions alone.
RecordsCollected == Collectable ~> ~ Collectable

\* AuthorizationFailure::AlreadyClaimed, "authorization request was already
\* claimed": a poll that is answered so finds its request consumed.
AlreadyClaimedIsConsumed ==
  \A p \in Polls :
    poll[p].answer = "already_claimed" =>
      request[poll[p].request].state \in {"consumed", "deleted"}

=============================================================================
