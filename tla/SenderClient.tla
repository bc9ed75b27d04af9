---------------------------- MODULE SenderClient ----------------------------
(***************************************************************************)
(* The sender's command line (prs-send) and the parts of the Worker only   *)
(* it meets: the rate limits of the authorization routes, the two          *)
(* statements that authenticate a sender, and the routes behind them.      *)
(*                                                                         *)
(* All callers share one client address, and so one bucket per limit.      *)
(* Time is kept as the age of a bucket, the life left to a request and the *)
(* rest left to a sleeping call, each up to the point where more of it     *)
(* makes no difference.  A creation or a poll is one step: Authorization   *)
(* has their statements one by one.                                        *)
(***************************************************************************)
EXTENDS Integers, FiniteSets

CONSTANTS
  Callers,         \* invocations of prs-send; each stands for its credential's name
  CreationLimit,   \* CREATION_RATE_LIMIT
  PollLimit,       \* POLL_RATE_LIMIT
  LimitWindow,     \* RATE_LIMIT_WINDOW_SECONDS
  PollInterval,    \* retry_after_seconds of a pending request
  RequestLifetime  \* request_ttl_seconds

\* A window is a whole number of intervals, and the limit leaves each caller
\* its polls: 60 in 60 seconds at one in 2 seconds are enough for two.
ASSUME LimitAssumption ==
  /\ {CreationLimit, PollLimit, LimitWindow, PollInterval, RequestLifetime} \subseteq Nat \ {0}
  /\ IsFiniteSet(Callers)
  /\ LimitWindow % PollInterval = 0
  /\ Cardinality(Callers) * (LimitWindow \div PollInterval) <= PollLimit

VARIABLES
  bucket,      \* kind -> its row of authorization_rate_limits, up to its end
  crowded,     \* others poll from the same address, as often as they like
  requested,   \* caller -> its authorization request
  credential,  \* caller -> the credential of its name
  holds,       \* caller -> whether it was given the token
  call         \* caller -> the command it is carrying out

senderVars == <<bucket, crowded, requested, credential, holds, call>>

\* "push" stands for clear and list too: they differ in what they do to the inbox.
Commands == {"create", "push", "revoke"}
\* "failed" is a denied or expired request, a rejected token and a lost answer.
Outcomes == {"none", "ready", "done", "limited", "refused", "failed"}

Limit == [create |-> CreationLimit, poll |-> PollLimit]

SenderTypeOK ==
  /\ bucket \in [{"create", "poll"} -> [age : 0 .. LimitWindow, count : Nat]]
  /\ crowded \in BOOLEAN
  /\ requested \in [Callers -> [state : {"none", "pending", "approved", "denied", "consumed"},
                            left : 0 .. RequestLifetime]]
  /\ credential \in [Callers -> {"none", "active", "revoked"}]
  /\ holds \in [Callers -> BOOLEAN]
  /\ call \in [Callers -> [command : Commands,
                           at : {"idle", "create", "claim", "touch", "find", "act"},
                           rest : 0 .. PollInterval, outcome : Outcomes,
                           revoked : BOOLEAN]]

\* `revoked`: the token the command uses was revoked before the second statement
\* of its authentication.
Calling(command, at, revoked) ==
  [command |-> command, at |-> at, rest |-> 0, outcome |-> "none", revoked |-> revoked]

SenderInit ==
  /\ bucket = [kind \in {"create", "poll"} |-> [age |-> LimitWindow, count |-> 0]]
  /\ crowded \in BOOLEAN
  /\ requested = [c \in Callers |-> [state |-> "none", left |-> 0]]
  /\ credential = [c \in Callers |-> "none"]
  /\ holds = [c \in Callers |-> FALSE]
  /\ call = [c \in Callers |-> Calling("create", "idle", FALSE)]

-----------------------------------------------------------------------------
(* The limits.                                                             *)

FaultyCounted(kind) ==
  [bucket[kind] EXCEPT !.age = IF @ >= LimitWindow THEN 0 ELSE @,
                       !.count = IF @ > Limit[kind] THEN @ ELSE @ + 1]
\* The row the one statement of check_rate_limit leaves.  Bound: the count goes
\* no further than one past the limit, where the code stops at 2^31 - 1.
Counted(kind) ==
  IF bucket[kind].age >= LimitWindow
    THEN [age |-> 0, count |-> 1]
    ELSE [bucket[kind] EXCEPT !.count = IF @ > Limit[kind] THEN @ ELSE @ + 1]

Admitted(kind) == Counted(kind).count <= Limit[kind]

Count(kind) == bucket' = [bucket EXCEPT ![kind] = Counted(kind)]

End(c, outcome) == call' = [call EXCEPT ![c].at = "idle", ![c].outcome = outcome]
Continue(c, at) == call' = [call EXCEPT ![c].at = at]

-----------------------------------------------------------------------------
(* The commands.                                                           *)

\* Command::parse, ServiceClient::new and sender_request: every command but the
\* creation of a credential needs a token.  Bound: a caller asks for one
\* credential.
BeginCommand(c) ==
  /\ call[c].at = "idle"
  /\ \/ /\ requested[c].state = "none" /\ call[c].outcome = "none"
        /\ call' = [call EXCEPT ![c] = Calling("create", "create", FALSE)]
     \/ /\ holds[c]
        /\ \E command \in Commands \ {"create"} :
             call' = [call EXCEPT ![c] = Calling(command, "touch", credential[c] = "revoked")]
  /\ UNCHANGED <<bucket, crowded, requested, credential, holds>>

\* create_authorization and create_sender_inner.  An answer that is lost ends
\* the command: nobody knows the polling secret of that request.
CreateAuthorization(c) ==
  /\ call[c].at = "create"
  /\ Count("create")
  /\ IF Admitted("create")
       THEN /\ requested' = [requested EXCEPT ![c] = [state |-> "pending", left |-> RequestLifetime]]
            /\ Continue(c, "claim") \/ End(c, "failed")
       ELSE End(c, "limited") /\ UNCHANGED requested
  /\ UNCHANGED <<crowded, credential, holds>>

DecideRequest(c) ==
  /\ requested[c].state = "pending" /\ requested[c].left > 0
  /\ \E decision \in {"approved", "denied"} : requested' = [requested EXCEPT ![c].state = decision]
  /\ UNCHANGED <<bucket, crowded, credential, holds, call>>

\* claim_sender, poll_authorization_inner: every answer but "pending" ends the
\* command, the one of the limit and a lost one too.
PollAuthorization(c) ==
  /\ call[c].at = "claim" /\ call[c].rest = 0
  /\ Count("poll")
  /\ LET open == requested[c].left > 0 /\ requested[c].state \in {"pending", "approved"}
         claims == Admitted("poll") /\ open /\ requested[c].state = "approved"
     IN /\ requested' = IF claims THEN [requested EXCEPT ![c].state = "consumed"] ELSE requested
        /\ credential' = IF claims THEN [credential EXCEPT ![c] = "active"] ELSE credential
        /\ \/ holds' = holds /\ End(c, "failed")
           \/ ~ Admitted("poll") /\ holds' = holds /\ End(c, "limited")
           \/ claims /\ holds' = [holds EXCEPT ![c] = TRUE] /\ End(c, "ready")
           \/ /\ Admitted("poll") /\ ~ claims /\ holds' = holds
              /\ IF open THEN call' = [call EXCEPT ![c].rest = PollInterval]
                         ELSE End(c, "failed")
  /\ UNCHANGED crowded

FaultyUsable(c) == credential[c] = "active" \/ call[c].at = "find"
\* revoked_at IS NULL
Usable(c) == credential[c] = "active"

\* authenticate_sender: the statement that records the use, then the one that
\* reads the row.
AuthenticateSender(c) ==
  /\ call[c].at \in {"touch", "find"}
  /\ IF Usable(c)
       THEN Continue(c, IF call[c].at = "touch" THEN "find" ELSE "act")
       ELSE End(c, "failed")
  /\ UNCHANGED <<bucket, crowded, requested, credential, holds>>

\* The caller c revokes another credential: a call that has not read its row
\* yet is caught.
Revoke(c, other) ==
  /\ credential' = [credential EXCEPT ![other] = "revoked"]
  /\ call' = [d \in Callers |->
       IF d = c THEN [call[d] EXCEPT !.at = "idle", !.outcome = "done"]
       ELSE [call[d] EXCEPT !.revoked = @ \/ (d = other /\ call[d].at \in {"touch", "find"})]]

\* The route behind the authentication.  What push and clear do to the inbox is
\* in BundleStore; revoke names any credential, that of the caller included.
Act(c) ==
  /\ call[c].at = "act"
  /\ \/ call[c].command # "revoke" /\ End(c, "done") /\ UNCHANGED credential
     \/ /\ call[c].command = "revoke"
        /\ \E other \in Callers :
             IF Usable(other) THEN Revoke(c, other)
                              ELSE UNCHANGED credential /\ End(c, "refused")
  /\ UNCHANGED <<bucket, crowded, requested, holds>>

-----------------------------------------------------------------------------
(* The address and the time.                                               *)

\* A creation, a poll or a look at the status by someone else behind the address.
OthersAsk ==
  /\ crowded
  /\ \E kind \in {"create", "poll"} : Count(kind)
  /\ UNCHANGED <<crowded, requested, credential, holds, call>>

\* The part of `cleanup` that deletes rows whose window is over.
DeleteBucket(kind) ==
  /\ bucket[kind].age = LimitWindow
  /\ bucket' = [bucket EXCEPT ![kind].count = 0]
  /\ UNCHANGED <<crowded, requested, credential, holds, call>>

Second ==
  /\ bucket' = [kind \in {"create", "poll"} |->
                  [bucket[kind] EXCEPT !.age = IF @ = LimitWindow THEN @ ELSE @ + 1]]
  /\ requested' = [c \in Callers |-> [requested[c] EXCEPT !.left = IF @ = 0 THEN 0 ELSE @ - 1]]
  /\ call' = [c \in Callers |-> [call[c] EXCEPT !.rest = IF @ = 0 THEN 0 ELSE @ - 1]]
  /\ UNCHANGED <<crowded, credential, holds>>

CallStep(c) ==
  \/ BeginCommand(c) \/ CreateAuthorization(c) \/ DecideRequest(c) \/ PollAuthorization(c)
  \/ AuthenticateSender(c) \/ Act(c)

SenderNext ==
  \/ \E c \in Callers : CallStep(c)
  \/ OthersAsk \/ Second
  \/ \E kind \in {"create", "poll"} : DeleteBucket(kind)

SenderSpec == SenderInit /\ [][SenderNext]_senderVars

-----------------------------------------------------------------------------
\* Callers that sleep between their polls as they are told are never turned
\* away by the limit, wherever in a window they begin, as long as nobody else
\* polls from their address: a refusal would end the command and with it the
\* only knowledge of the polling secret.
PatientCallersAreServed ==
  ~ crowded => \A c \in Callers : call[c].command = "create" /\ call[c].outcome = "limited"
                                    => requested[c].state = "none"

\* A command whose credential is revoked, before it begins or between the two
\* statements of its authentication, changes nothing and publishes nothing.  One
\* that has been let in is carried out, whatever becomes of its credential.
RevokedTokensAreRefused ==
  \A c \in Callers : call[c].revoked => call[c].at # "act" /\ call[c].outcome \notin {"done", "refused"}
=============================================================================
