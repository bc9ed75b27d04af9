----------------------------- MODULE HostProofs -----------------------------
(***************************************************************************)
(* Proofs about what runs on the host.  The command line (SenderClient),   *)
(* for any number of callers and any limits: a command whose token is      *)
(* revoked before its authentication ends changes nothing, and callers that wait between their      *)
(* polls as they are told are never turned away.  The two transfers of the *)
(* PRS-350 tools, for any number of calls and files of every size:         *)
(* whatever the service runs is the whole payload of one request, although *)
(* calls end in the middle of an upload and the bytes of the next one get  *)
(* into it (SerialLink); and each sector of a dump is accounted for,       *)
(* wherever a command fails or the tool is stopped (SonyReader).           *)
(***************************************************************************)
EXTENDS SenderClient, SerialLink, SonyReader, FiniteSetTheorems, TLAPS

-----------------------------------------------------------------------------
(* SenderClient.                                                           *)

\* The limits and times are positive.
LEMMA LimitsArePositive ==
  /\ LimitWindow \in Nat \ {0}
  /\ PollInterval \in Nat \ {0}
  /\ RequestLifetime \in Nat \ {0}
BY LimitAssumption DEF LimitAssumption

USE LimitsArePositive

\* A credential is issued to a consumed request, which stays consumed; a caller
\* that is about to create a request has none.
IssueInv ==
  \A c \in Callers :
    /\ credential[c] # "none" => requested[c].state = "consumed"
    /\ call[c].at = "create" => requested[c].state = "none"

\* A revoked token stays revoked, and gets a command no further than its
\* authentication, during which it has no outcome.
RevokedInv ==
  \A c \in Callers :
    /\ call[c].revoked =>
         /\ credential[c] = "revoked"
         /\ call[c].at \in {"idle", "touch", "find"}
         /\ call[c].outcome \in {"none", "failed"}
    /\ call[c].at \in {"touch", "find"} => call[c].outcome = "none"

IInv == SenderTypeOK /\ IssueInv /\ RevokedInv

CallState ==
  [command : Commands, at : {"idle", "create", "claim", "touch", "find", "act"},
   rest : 0 .. PollInterval, outcome : Outcomes, revoked : BOOLEAN]

\* Nobody has asked for anything.
LEMMA InitInv == SenderInit => IInv
<1> SUFFICES ASSUME SenderInit PROVE IInv OBVIOUS
<1>1. Calling("create", "idle", FALSE) \in CallState
  BY DEF Calling, CallState, Commands, Outcomes
<1>2. SenderTypeOK
  <2> DEFINE Row == [age : 0 .. LimitWindow, count : Nat]
  <2>1. [age |-> LimitWindow, count |-> 0] \in Row OBVIOUS
  <2>2. bucket \in [{"create", "poll"} -> Row] BY <2>1 DEF SenderInit
  <2> DEFINE RequestState == [state : {"none", "pending", "approved", "denied", "consumed"},
                              left : 0 .. RequestLifetime]
  <2>3. [state |-> "none", left |-> 0] \in RequestState OBVIOUS
  <2>4. requested \in [Callers -> RequestState] BY <2>3 DEF SenderInit
  <2>5. call \in [Callers -> CallState] BY <1>1 DEF SenderInit
  <2> QED BY <2>2, <2>4, <2>5 DEF SenderInit, SenderTypeOK, CallState
<1> QED BY <1>2 DEF SenderInit, IInv, IssueInv, RevokedInv, Calling

\* Counting a request leaves a row of the right type.
LEMMA CountedIsRow ==
  ASSUME SenderTypeOK, NEW kind \in {"create", "poll"}, Count(kind)
  PROVE  bucket' \in [{"create", "poll"} -> [age : 0 .. LimitWindow, count : Nat]]
BY DEF SenderTypeOK, Count, Counted

\* What a revocation makes of the calls.
LEMMA RevokedCalls ==
  ASSUME SenderTypeOK, NEW c \in Callers, NEW other \in Callers, Revoke(c, other)
  PROVE  /\ call' \in [Callers -> CallState]
         /\ call'[c].at = "idle" /\ call'[c].outcome = "done"
         /\ call'[c].revoked = call[c].revoked
         /\ \A d \in Callers \ {c} :
              /\ call'[d].command = call[d].command /\ call'[d].at = call[d].at
              /\ call'[d].rest = call[d].rest /\ call'[d].outcome = call[d].outcome
              /\ call'[d].revoked => \/ call[d].revoked
                                     \/ d = other /\ call[d].at \in {"touch", "find"}
<1> DEFINE Done(row) == [row EXCEPT !.at = "idle", !.outcome = "done"]
           Seen(row, caught) == [row EXCEPT !.revoked = @ \/ caught]
<1>1. ASSUME NEW row \in CallState, NEW caught \in BOOLEAN
      PROVE  /\ Done(row) \in CallState /\ Done(row).at = "idle" /\ Done(row).outcome = "done"
             /\ Done(row).revoked = row.revoked
             /\ Seen(row, caught) \in CallState
             /\ Seen(row, caught).command = row.command /\ Seen(row, caught).at = row.at
             /\ Seen(row, caught).rest = row.rest /\ Seen(row, caught).outcome = row.outcome
             /\ Seen(row, caught).revoked => row.revoked \/ caught
  BY DEF CallState, Outcomes
<1>2. call \in [Callers -> CallState] BY DEF SenderTypeOK, CallState
<1>3. call' = [d \in Callers |-> IF d = c THEN Done(call[d])
                 ELSE Seen(call[d], d = other /\ call[d].at \in {"touch", "find"})]
  BY DEF Revoke
<1> HIDE DEF Done, Seen
<1>4. \A d \in Callers : call[d] \in CallState /\ (d = other /\ call[d].at \in {"touch", "find"}) \in BOOLEAN
  BY <1>2
<1> QED BY <1>1, <1>3, <1>4

\* One step of one caller, seen from the rows and the calls.
LEMMA CallKeeps ==
  ASSUME IInv, NEW c \in Callers, CallStep(c)
  PROVE  IInv'
<1>1. SenderTypeOK /\ IssueInv /\ RevokedInv BY DEF IInv
<1>2. /\ call \in [Callers -> CallState]
      /\ credential \in [Callers -> {"none", "active", "revoked"}]
      /\ holds \in [Callers -> BOOLEAN]
      /\ crowded \in BOOLEAN
  BY <1>1 DEF SenderTypeOK, CallState
<1> DEFINE RequestState == [state : {"none", "pending", "approved", "denied", "consumed"},
                            left : 0 .. RequestLifetime]
<1>3. requested \in [Callers -> RequestState] BY <1>1 DEF SenderTypeOK
<1>4. \A d \in Callers : call[d] \in CallState /\ requested[d] \in RequestState BY <1>2, <1>3
<1> HIDE DEF RequestState
<1>5. ASSUME bucket' \in [{"create", "poll"} -> [age : 0 .. LimitWindow, count : Nat]],
             crowded' = crowded,
             requested' \in [Callers -> RequestState],
             credential' \in [Callers -> {"none", "active", "revoked"}],
             holds' \in [Callers -> BOOLEAN],
             call' \in [Callers -> CallState]
      PROVE  SenderTypeOK'
  BY <1>2, <1>5 DEF SenderTypeOK, CallState, RequestState
<1>6. bucket \in [{"create", "poll"} -> [age : 0 .. LimitWindow, count : Nat]]
  BY <1>1 DEF SenderTypeOK
<1>7. ASSUME NEW at \in {"idle", "create", "claim", "touch", "find", "act"}, Continue(c, at)
      PROVE  /\ call' \in [Callers -> CallState]
             /\ \A d \in Callers \ {c} : call'[d] = call[d]
             /\ call'[c].at = at
             /\ call'[c].revoked = call[c].revoked
             /\ call'[c].outcome = call[c].outcome
  BY <1>2, <1>7 DEF Continue, CallState
<1>8. ASSUME NEW outcome \in Outcomes, End(c, outcome)
      PROVE  /\ call' \in [Callers -> CallState]
             /\ \A d \in Callers \ {c} : call'[d] = call[d]
             /\ call'[c].at = "idle"
             /\ call'[c].revoked = call[c].revoked
             /\ call'[c].outcome = outcome
  BY <1>2, <1>8 DEF End, CallState
<1>9. CASE BeginCommand(c)
  <2>1. UNCHANGED <<bucket, crowded, requested, credential, holds>> BY <1>9 DEF BeginCommand
  <2>2. PICK word \in Commands, at \in {"create", "touch"}, revoked \in BOOLEAN :
          /\ call' = [call EXCEPT ![c] = Calling(word, at, revoked)]
          /\ at = "create" => requested[c].state = "none" /\ ~ revoked
          /\ revoked => credential[c] = "revoked"
    <3>1. CASE requested[c].state = "none"
               /\ call' = [call EXCEPT ![c] = Calling("create", "create", FALSE)]
      BY <3>1 DEF Commands
    <3>2. CASE \E word \in Commands \ {"create"} :
                 call' = [call EXCEPT ![c] = Calling(word, "touch", credential[c] = "revoked")]
      BY <3>2
    <3> QED BY <1>9, <3>1, <3>2 DEF BeginCommand
  <2>3. /\ Calling(word, at, revoked) \in CallState
        /\ Calling(word, at, revoked).at = at
        /\ Calling(word, at, revoked).revoked = revoked
        /\ Calling(word, at, revoked).outcome = "none"
    BY DEF Calling, CallState, Outcomes
  <2>4. /\ call' \in [Callers -> CallState]
        /\ call'[c] = Calling(word, at, revoked)
        /\ \A d \in Callers \ {c} : call'[d] = call[d]
    BY <1>2, <2>2, <2>3
  <2>5. SenderTypeOK' BY <1>2, <1>3, <1>5, <1>6, <2>1, <2>4
  <2>6. IssueInv' BY <1>1, <2>1, <2>2, <2>3, <2>4 DEF IssueInv
  <2>7. RevokedInv' BY <1>1, <2>1, <2>2, <2>3, <2>4 DEF RevokedInv
  <2> QED BY <2>5, <2>6, <2>7 DEF IInv
<1>10. CASE CreateAuthorization(c)
  <2>1. /\ UNCHANGED <<crowded, credential, holds>>
        /\ Count("create")
        /\ call[c].at = "create"
    BY <1>10 DEF CreateAuthorization
  <2>2. ~ call[c].revoked /\ credential[c] = "none" /\ requested[c].state = "none"
    BY <1>1, <1>2, <2>1 DEF IssueInv, RevokedInv
  <2>3. \/ Continue(c, "claim")
        \/ End(c, "failed")
        \/ End(c, "limited") /\ UNCHANGED requested
    BY <1>10 DEF CreateAuthorization
  <2>4. \/ UNCHANGED requested
        \/ requested' = [requested EXCEPT ![c] = [state |-> "pending", left |-> RequestLifetime]]
    BY <1>10 DEF CreateAuthorization
  <2>5. requested' \in [Callers -> RequestState] /\ \A d \in Callers \ {c} : requested'[d] = requested[d]
    BY <1>3, <2>4 DEF RequestState
  <2>6. /\ call' \in [Callers -> CallState]
        /\ \A d \in Callers \ {c} : call'[d] = call[d]
        /\ call'[c].at \in {"idle", "claim"} /\ ~ call'[c].revoked
    BY <1>7, <1>8, <2>2, <2>3 DEF Outcomes
  <2>7. SenderTypeOK' BY <1>1, <1>2, <1>5, <2>1, <2>5, <2>6, CountedIsRow
  <2>8. IssueInv' BY <1>1, <2>1, <2>2, <2>5, <2>6 DEF IssueInv
  <2>9. RevokedInv' BY <1>1, <2>1, <2>6 DEF RevokedInv
  <2> QED BY <2>7, <2>8, <2>9 DEF IInv
<1>11. CASE DecideRequest(c)
  <2>1. UNCHANGED <<bucket, crowded, credential, holds, call>> /\ requested[c].state = "pending"
    BY <1>11 DEF DecideRequest
  <2>2. PICK decision \in {"approved", "denied"} :
          requested' = [requested EXCEPT ![c].state = decision]
    BY <1>11 DEF DecideRequest
  <2>3. requested' \in [Callers -> RequestState] /\ \A d \in Callers \ {c} : requested'[d] = requested[d]
    BY <1>3, <2>2 DEF RequestState
  <2>4. SenderTypeOK' BY <1>2, <1>5, <1>6, <2>1, <2>3
  <2>5. IssueInv' BY <1>1, <2>1, <2>3 DEF IssueInv
  <2>6. RevokedInv' BY <1>1, <2>1 DEF RevokedInv
  <2> QED BY <2>4, <2>5, <2>6 DEF IInv
<1>12. CASE PollAuthorization(c)
  <2>1. /\ UNCHANGED crowded
        /\ Count("poll")
        /\ call[c].at = "claim"
    BY <1>12 DEF PollAuthorization
  <2>2. ~ call[c].revoked BY <1>1, <2>1 DEF RevokedInv
  <2>3. \/ UNCHANGED <<requested, credential>>
        \/ /\ requested[c].state = "approved"
           /\ requested' = [requested EXCEPT ![c].state = "consumed"]
           /\ credential' = [credential EXCEPT ![c] = "active"]
    BY <1>12 DEF PollAuthorization
  <2>4. holds' \in [Callers -> BOOLEAN]
    BY <1>2, <1>12 DEF PollAuthorization
  <2>5. /\ call' \in [Callers -> CallState]
        /\ \A d \in Callers \ {c} : call'[d] = call[d]
        /\ call'[c].at \in {"idle", "claim"} /\ ~ call'[c].revoked
    <3>1. \/ End(c, "failed") \/ End(c, "limited") \/ End(c, "ready")
          \/ call' = [call EXCEPT ![c].rest = PollInterval]
      BY <1>12 DEF PollAuthorization
    <3>2. CASE call' = [call EXCEPT ![c].rest = PollInterval]
      BY <1>2, <1>4, <2>1, <2>2, <3>2 DEF CallState
    <3> QED BY <1>8, <2>2, <3>1, <3>2 DEF Outcomes
  <2>6. /\ requested' \in [Callers -> RequestState]
        /\ credential' \in [Callers -> {"none", "active", "revoked"}]
        /\ \A d \in Callers \ {c} : requested'[d] = requested[d] /\ credential'[d] = credential[d]
        /\ credential'[c] # "none" => requested'[c].state = "consumed"
    BY <1>1, <1>2, <1>3, <2>3 DEF RequestState, IssueInv
  <2>7. SenderTypeOK' BY <1>1, <1>5, <2>1, <2>4, <2>5, <2>6, CountedIsRow
  <2>8. IssueInv' BY <1>1, <2>5, <2>6 DEF IssueInv
  <2>9. RevokedInv' BY <1>1, <2>5, <2>6 DEF RevokedInv
  <2> QED BY <2>7, <2>8, <2>9 DEF IInv
<1>13. CASE AuthenticateSender(c)
  <2>1. UNCHANGED <<bucket, crowded, requested, credential, holds>> BY <1>13 DEF AuthenticateSender
  <2>2. \/ /\ credential[c] = "active"
           /\ Continue(c, IF call[c].at = "touch" THEN "find" ELSE "act")
        \/ End(c, "failed")
    BY <1>13 DEF AuthenticateSender, Usable
  <2>3. CASE /\ credential[c] = "active"
             /\ Continue(c, IF call[c].at = "touch" THEN "find" ELSE "act")
    <3>1. ~ call[c].revoked BY <1>1, <2>3 DEF RevokedInv
    <3>2. /\ call' \in [Callers -> CallState]
          /\ \A d \in Callers \ {c} : call'[d] = call[d]
          /\ call'[c].at # "create" /\ ~ call'[c].revoked
          /\ call'[c].outcome = call[c].outcome /\ call[c].at \in {"touch", "find"}
      BY <1>7, <1>13, <2>3, <3>1 DEF AuthenticateSender
    <3>3. SenderTypeOK' BY <1>2, <1>3, <1>5, <1>6, <2>1, <3>2
    <3>4. IssueInv' BY <1>1, <2>1, <3>2 DEF IssueInv
    <3>5. RevokedInv' BY <1>1, <2>1, <3>2 DEF RevokedInv
    <3> QED BY <3>3, <3>4, <3>5 DEF IInv
  <2>4. CASE End(c, "failed")
    <3>1. /\ call' \in [Callers -> CallState]
          /\ \A d \in Callers \ {c} : call'[d] = call[d]
          /\ call'[c].at = "idle" /\ call'[c].revoked = call[c].revoked
          /\ call'[c].outcome = "failed"
      BY <1>8, <2>4 DEF Outcomes
    <3>2. SenderTypeOK' BY <1>2, <1>3, <1>5, <1>6, <2>1, <3>1
    <3>3. IssueInv' BY <1>1, <2>1, <3>1 DEF IssueInv
    <3>4. RevokedInv' BY <1>1, <2>1, <3>1 DEF RevokedInv
    <3> QED BY <3>2, <3>3, <3>4 DEF IInv
  <2> QED BY <2>2, <2>3, <2>4
<1>14. CASE Act(c)
  <2>1. UNCHANGED <<bucket, crowded, requested, holds>> /\ call[c].at = "act"
    BY <1>14 DEF Act
  <2>2. ~ call[c].revoked BY <1>1, <2>1 DEF RevokedInv
  <2>3. CASE UNCHANGED credential /\ (End(c, "done") \/ End(c, "refused"))
    <3>1. /\ call' \in [Callers -> CallState]
          /\ \A d \in Callers \ {c} : call'[d] = call[d]
          /\ call'[c].at = "idle" /\ ~ call'[c].revoked
      BY <1>8, <2>2, <2>3 DEF Outcomes
    <3>2. SenderTypeOK' BY <1>2, <1>3, <1>5, <1>6, <2>1, <2>3, <3>1
    <3>3. IssueInv' BY <1>1, <2>1, <2>3, <3>1 DEF IssueInv
    <3>4. RevokedInv' BY <1>1, <2>3, <3>1 DEF RevokedInv
    <3> QED BY <3>2, <3>3, <3>4 DEF IInv
  <2>4. CASE \E other \in Callers : credential[other] = "active" /\ Revoke(c, other)
    <3>1. PICK other \in Callers : credential[other] = "active" /\ Revoke(c, other) BY <2>4
    <3>2. /\ credential' \in [Callers -> {"none", "active", "revoked"}]
          /\ credential'[other] = "revoked"
          /\ \A d \in Callers \ {other} : credential'[d] = credential[d]
      BY <1>2, <3>1 DEF Revoke
    <3>3. /\ call' \in [Callers -> CallState]
          /\ call'[c].at = "idle" /\ ~ call'[c].revoked
          /\ \A d \in Callers \ {c} :
               /\ call'[d].at = call[d].at /\ call'[d].outcome = call[d].outcome
               /\ call'[d].revoked => \/ call[d].revoked
                                      \/ d = other /\ call[d].at \in {"touch", "find"}
      BY <1>1, <2>2, <3>1, RevokedCalls
    <3>4. SenderTypeOK' BY <1>2, <1>3, <1>5, <1>6, <2>1, <3>2, <3>3
    <3>5. IssueInv' BY <1>1, <2>1, <3>1, <3>2, <3>3 DEF IssueInv
    <3>6. RevokedInv'
      <4> SUFFICES ASSUME NEW d \in Callers
                   PROVE  /\ call'[d].revoked =>
                               /\ credential'[d] = "revoked"
                               /\ call'[d].at \in {"idle", "touch", "find"}
                               /\ call'[d].outcome \in {"none", "failed"}
                          /\ call'[d].at \in {"touch", "find"} => call'[d].outcome = "none"
        BY DEF RevokedInv
      <4>1. CASE d = c BY <3>3, <4>1
      <4>2. CASE d # c
        <5>1. call[d].revoked => credential'[d] = "revoked" BY <1>1, <3>2 DEF RevokedInv
        <5> QED BY <1>1, <3>2, <3>3, <4>2, <5>1 DEF RevokedInv
      <4> QED BY <4>1, <4>2
    <3> QED BY <3>4, <3>5, <3>6 DEF IInv
  <2> QED BY <1>14, <2>3, <2>4 DEF Act, Usable
<1> QED BY <1>9, <1>10, <1>11, <1>12, <1>13, <1>14 DEF CallStep

\* Other clients of the address, maintenance and time touch no credential.
LEMMA SurroundingsKeep ==
  ASSUME IInv,
         OthersAsk \/ Second \/ (\E kind \in {"create", "poll"} : DeleteBucket(kind))
  PROVE  IInv'
<1>1. SenderTypeOK /\ IssueInv /\ RevokedInv BY DEF IInv
<1>2. CASE OthersAsk
  <2>1. UNCHANGED <<crowded, requested, credential, holds, call>> BY <1>2 DEF OthersAsk
  <2>2. bucket' \in [{"create", "poll"} -> [age : 0 .. LimitWindow, count : Nat]]
    BY <1>1, <1>2, CountedIsRow DEF OthersAsk
  <2> QED BY <1>1, <2>1, <2>2 DEF IInv, SenderTypeOK, IssueInv, RevokedInv
<1>3. CASE \E kind \in {"create", "poll"} : DeleteBucket(kind)
  <2>1. UNCHANGED <<crowded, requested, credential, holds, call>> BY <1>3 DEF DeleteBucket
  <2>2. bucket' \in [{"create", "poll"} -> [age : 0 .. LimitWindow, count : Nat]]
    BY <1>1, <1>3 DEF DeleteBucket, SenderTypeOK
  <2> QED BY <1>1, <2>1, <2>2 DEF IInv, SenderTypeOK, IssueInv, RevokedInv
<1>4. CASE Second
  <2>1. UNCHANGED <<crowded, credential, holds>> BY <1>4 DEF Second
  <2> DEFINE Row == [age : 0 .. LimitWindow, count : Nat]
             Older(row) == [row EXCEPT !.age = IF @ = LimitWindow THEN @ ELSE @ + 1]
             RequestState == [state : {"none", "pending", "approved", "denied", "consumed"},
                              left : 0 .. RequestLifetime]
             Shorter(row) == [row EXCEPT !.left = IF @ = 0 THEN 0 ELSE @ - 1]
             Rested(row) == [row EXCEPT !.rest = IF @ = 0 THEN 0 ELSE @ - 1]
  <2>2. bucket' \in [{"create", "poll"} -> Row]
    <3>1. ASSUME NEW row \in Row PROVE Older(row) \in Row OBVIOUS
    <3>2. bucket \in [{"create", "poll"} -> Row] BY <1>1 DEF SenderTypeOK
    <3>3. bucket' = [kind \in {"create", "poll"} |-> Older(bucket[kind])] BY <1>4 DEF Second
    <3> HIDE DEF Row, Older
    <3> QED BY <3>1, <3>2, <3>3
  <2>3. /\ requested' \in [Callers -> RequestState]
        /\ \A c \in Callers : requested'[c].state = requested[c].state
    <3>1. ASSUME NEW row \in RequestState
          PROVE  Shorter(row) \in RequestState /\ Shorter(row).state = row.state
      OBVIOUS
    <3>2. requested \in [Callers -> RequestState] BY <1>1 DEF SenderTypeOK
    <3>3. requested' = [c \in Callers |-> Shorter(requested[c])] BY <1>4 DEF Second
    <3> HIDE DEF RequestState, Shorter
    <3> QED BY <3>1, <3>2, <3>3
  <2>5. /\ call' \in [Callers -> CallState]
        /\ \A c \in Callers : /\ call'[c].at = call[c].at
                              /\ call'[c].revoked = call[c].revoked
                              /\ call'[c].outcome = call[c].outcome
    <3>1. ASSUME NEW row \in CallState
          PROVE  /\ Rested(row) \in CallState
                 /\ Rested(row).at = row.at
                 /\ Rested(row).revoked = row.revoked
                 /\ Rested(row).outcome = row.outcome
      BY DEF CallState
    <3>2. call \in [Callers -> CallState] BY <1>1 DEF SenderTypeOK, CallState
    <3>3. call' = [c \in Callers |-> Rested(call[c])] BY <1>4 DEF Second
    <3> HIDE DEF Rested
    <3> QED BY <3>1, <3>2, <3>3
  <2>6. SenderTypeOK' BY <1>1, <2>1, <2>2, <2>3, <2>5 DEF SenderTypeOK, CallState
  <2>7. IssueInv' BY <1>1, <2>1, <2>3, <2>5 DEF IssueInv
  <2>8. RevokedInv' BY <1>1, <2>1, <2>5 DEF RevokedInv
  <2> QED BY <2>6, <2>7, <2>8 DEF IInv
<1> QED BY <1>2, <1>3, <1>4

\* Every step keeps the invariant.
LEMMA NextInv == IInv /\ [SenderNext]_senderVars => IInv'
<1> SUFFICES ASSUME IInv, [SenderNext]_senderVars PROVE IInv' OBVIOUS
<1>1. CASE UNCHANGED senderVars
  BY <1>1 DEF senderVars, IInv, SenderTypeOK, IssueInv, RevokedInv
<1>2. CASE SenderNext BY <1>2, CallKeeps, SurroundingsKeep DEF SenderNext
<1> QED BY <1>1, <1>2

-----------------------------------------------------------------------------

\* The invariant the theorems below follow from.
THEOREM Inductive == SenderSpec => []IInv
<1> QED BY InitInv, NextInv, PTL DEF SenderSpec

\* Buckets, requests, credentials and calls keep their types.
THEOREM TypeCorrect == SenderSpec => []SenderTypeOK
<1>1. IInv => SenderTypeOK BY DEF IInv
<1> QED BY Inductive, <1>1, PTL

\* A command whose credential is revoked before the second statement of its
\* authentication is never carried out.
THEOREM RevokedRefused == SenderSpec => []RevokedTokensAreRefused
<1>1. IInv => RevokedTokensAreRefused BY DEF IInv, RevokedInv, RevokedTokensAreRefused
<1> QED BY Inductive, <1>1, PTL

-----------------------------------------------------------------------------
(* Patience.  A window has a whole number of slots of one interval; a poll *)
(* is charged to its caller's slot that begins last before it.             *)

Slots == LimitWindow \div PollInterval

Spending == Callers \X (0 .. Slots - 1)

\* How long ago a caller's last poll was, up to an interval.
Since(c) == IF call[c].at = "claim" THEN PollInterval - call[c].rest ELSE 0

\* The slots that began before a caller's last poll, of all callers.
Used == {s \in Spending : /\ requested[s[1]].state # "none"
                          /\ s[2] * PollInterval <= bucket["poll"].age - Since(s[1])}

\* A command that is under way has no outcome, and polls for a request there is.
CallerInv ==
  \A c \in Callers : /\ call[c].at # "idle" => call[c].outcome = "none"
                     /\ call[c].at = "claim" => requested[c].state # "none"

\* No more polls are counted than slots are used.
WindowInv ==
  ~ crowded /\ bucket["poll"].age < LimitWindow => bucket["poll"].count <= Cardinality(Used)

PInv == CallerInv /\ WindowInv /\ PatientCallersAreServed

\* The slots fill the window, and all slots of all callers are within the limit.
LEMMA SlotsOfWindow ==
  /\ Slots \in Nat /\ Slots * PollInterval = LimitWindow
  /\ IsFiniteSet(Callers) /\ Cardinality(Callers) * Slots <= PollLimit
<1>1. LimitWindow % PollInterval = 0 BY LimitAssumption DEF LimitAssumption
<1>2. Slots \in Nat /\ LimitWindow = PollInterval * Slots + (LimitWindow % PollInterval)
  BY DEF Slots
<1>3. Slots * PollInterval = LimitWindow BY <1>1, <1>2
<1>4. IsFiniteSet(Callers) /\ Cardinality(Callers) * Slots <= PollLimit
  BY LimitAssumption DEF LimitAssumption, Slots
<1> QED BY <1>2, <1>3, <1>4

\* So there are no more than the limit.
LEMMA SpendingIsLimited ==
  ASSUME NEW U \in SUBSET Spending
  PROVE  IsFiniteSet(U) /\ Cardinality(U) \in Nat /\ Cardinality(U) <= PollLimit
<1>1. IsFiniteSet(0 .. Slots - 1) /\ Cardinality(0 .. Slots - 1) = Slots
  BY SlotsOfWindow, FS_Interval
<1>2. IsFiniteSet(Spending) /\ Cardinality(Spending) = Cardinality(Callers) * Slots
  BY <1>1, SlotsOfWindow, FS_Product DEF Spending
<1>3. IsFiniteSet(U) /\ Cardinality(U) <= Cardinality(Spending) BY <1>2, FS_Subset
<1>4. Cardinality(U) \in Nat BY <1>3, FS_CardinalityType
<1>5. PollLimit \in Nat BY LimitAssumption DEF LimitAssumption
<1>6. Cardinality(Spending) \in Nat BY <1>2, FS_CardinalityType
<1> QED BY <1>2, <1>3, <1>4, <1>5, <1>6, SlotsOfWindow

\* More slots used are no fewer, and one more slot used is one more.
LEMMA SpendingGrows ==
  ASSUME NEW V \in SUBSET Spending, NEW U \in SUBSET V
  PROVE  /\ Cardinality(U) <= Cardinality(V)
         /\ \A s \in V : s \notin U => Cardinality(U) + 1 <= Cardinality(V)
<1>1. IsFiniteSet(V) /\ IsFiniteSet(U) BY SpendingIsLimited
<1>2. Cardinality(U) <= Cardinality(V) BY <1>1, FS_Subset
<1>3. ASSUME NEW s \in V, s \notin U PROVE Cardinality(U) + 1 <= Cardinality(V)
  <2>1. Cardinality(U \cup {s}) = Cardinality(U) + 1 BY <1>1, <1>3, FS_AddElement
  <2>2. U \cup {s} \in SUBSET V OBVIOUS
  <2> QED BY <1>1, <2>1, <2>2, FS_Subset
<1> QED BY <1>2, <1>3

\* Every moment of a window is in a slot.
LEMMA SlotOfMoment ==
  ASSUME NEW age \in Nat, age < LimitWindow
  PROVE  \E m \in 0 .. Slots - 1 : /\ m * PollInterval <= age
                                   /\ ~ (m * PollInterval <= age - PollInterval)
<1> DEFINE m == age \div PollInterval
<1>1. m \in Nat /\ m * PollInterval <= age /\ age < m * PollInterval + PollInterval OBVIOUS
<1>2. m * PollInterval \in Nat BY <1>1
<1>3. m * PollInterval < Slots * PollInterval BY <1>1, <1>2, SlotsOfWindow
<1>4. m < Slots
  <2> HIDE DEF m
  <2> QED BY <1>1, <1>3, SlotsOfWindow
<1>5. m \in 0 .. Slots - 1 BY <1>1, <1>4, SlotsOfWindow
<1>6. ~ (m * PollInterval <= age - PollInterval) BY <1>1, <1>2
<1> HIDE DEF m
<1> QED BY <1>1, <1>5, <1>6

\* What the types say of the two numbers a slot is compared with.
LEMMA MomentTypes ==
  ASSUME SenderTypeOK, SenderTypeOK'
  PROVE  /\ bucket["poll"].age \in Nat /\ bucket["poll"].age <= LimitWindow
         /\ bucket'["poll"].age \in Nat
         /\ bucket["poll"].count \in Nat
         /\ \A d \in Callers : Since(d) \in Nat /\ Since(d)' \in Nat
<1>1. /\ bucket["poll"] \in [age : 0 .. LimitWindow, count : Nat]
      /\ bucket'["poll"] \in [age : 0 .. LimitWindow, count : Nat]
  BY DEF SenderTypeOK
<1>2. \A d \in Callers : call[d].rest \in 0 .. PollInterval /\ call'[d].rest \in 0 .. PollInterval
  BY DEF SenderTypeOK
<1> QED BY <1>1, <1>2 DEF Since

\* A slot that began before a caller's last poll did so before its next step.
LEMMA UsedGrows ==
  ASSUME SenderTypeOK, SenderTypeOK',
         \A d \in Callers : requested[d].state # "none" => requested'[d].state # "none",
         \A d \in Callers : requested[d].state # "none" =>
                              bucket["poll"].age - Since(d) <= bucket'["poll"].age - Since(d)'
  PROVE  Used \in SUBSET Used' /\ Used' \in SUBSET Spending
<1>1. ASSUME NEW s \in Used PROVE s \in Used'
  <2>1. PICK c \in Callers, m \in 0 .. Slots - 1 : s = <<c, m>>
    BY <1>1 DEF Used, Spending
  <2>2. m * PollInterval \in Int BY <2>1, SlotsOfWindow
  <2>3. requested[c].state # "none" /\ m * PollInterval <= bucket["poll"].age - Since(c)
    BY <1>1, <2>1 DEF Used
  <2>4. /\ bucket["poll"].age - Since(c) \in Int
        /\ bucket'["poll"].age - Since(c)' \in Int
    BY MomentTypes
  <2>5. m * PollInterval <= bucket'["poll"].age - Since(c)' BY <2>2, <2>3, <2>4
  <2> QED BY <2>1, <2>3, <2>5 DEF Used, Spending
<1> QED BY <1>1 DEF Used

\* A step that counts no poll keeps the count within the slots used.
LEMMA QuietStep ==
  ASSUME SenderTypeOK, SenderTypeOK', WindowInv, crowded' = crowded,
         bucket'["poll"].count = bucket["poll"].count,
         bucket["poll"].age <= bucket'["poll"].age,
         \A d \in Callers : requested[d].state # "none" => requested'[d].state # "none",
         \A d \in Callers : requested[d].state # "none" =>
                              bucket["poll"].age - Since(d) <= bucket'["poll"].age - Since(d)'
  PROVE  WindowInv'
<1> SUFFICES ASSUME ~ crowded, bucket'["poll"].age < LimitWindow
             PROVE  bucket'["poll"].count <= Cardinality(Used')
  BY DEF WindowInv
<1>1. Used \in SUBSET Used' /\ Used' \in SUBSET Spending BY UsedGrows
<1>2. Cardinality(Used) <= Cardinality(Used') BY <1>1, SpendingGrows
<1>3. bucket["poll"].age < LimitWindow BY MomentTypes
<1>4. bucket["poll"].count <= Cardinality(Used) BY <1>3 DEF WindowInv
<1>5. Cardinality(Used) \in Nat /\ Cardinality(Used') \in Nat BY <1>1, SpendingIsLimited
<1> QED BY <1>2, <1>4, <1>5, MomentTypes

\* A patient poll uses a slot of its own, and so is within the limit.
LEMMA PollIsServed ==
  ASSUME SenderTypeOK, SenderTypeOK', CallerInv, WindowInv, ~ crowded,
         NEW c \in Callers, PollAuthorization(c)
  PROVE  WindowInv' /\ Admitted("poll")
<1> DEFINE age == bucket["poll"].age
           count == bucket["poll"].count
<1>1. /\ call[c].at = "claim" /\ call[c].rest = 0 /\ requested[c].state # "none"
      /\ Count("poll") /\ crowded' = crowded
  BY DEF PollAuthorization, CallerInv
<1>2. /\ age \in Nat /\ age <= LimitWindow /\ count \in Nat
      /\ \A d \in Callers : Since(d) \in Nat
  BY MomentTypes
<1>3. Since(c) = PollInterval BY <1>1 DEF Since
<1>4. /\ Since(c)' = 0
      /\ \A d \in Callers \ {c} : Since(d)' = Since(d)
  <2>1. \/ End(c, "failed") \/ End(c, "limited") \/ End(c, "ready")
        \/ call' = [call EXCEPT ![c].rest = PollInterval]
    BY DEF PollAuthorization
  <2>2. /\ \A d \in Callers \ {c} : call'[d] = call[d]
        /\ call'[c].at # "claim" \/ call'[c].rest = PollInterval
    BY <2>1 DEF SenderTypeOK, End
  <2> QED BY <2>2 DEF Since
<1>5. \A d \in Callers : requested[d].state # "none" => requested'[d].state # "none"
  BY DEF PollAuthorization, SenderTypeOK
<1>6. bucket'["poll"] = Counted("poll") BY <1>1 DEF Count, SenderTypeOK
<1>7. Used' \in SUBSET Spending BY DEF Used
<1>8. Cardinality(Used') \in Nat /\ Cardinality(Used') <= PollLimit
  BY <1>7, SpendingIsLimited
<1>9. PollLimit \in Nat /\ Limit["poll"] = PollLimit
  BY LimitAssumption DEF LimitAssumption, Limit
<1>10. CASE age < LimitWindow
  <2>1. PICK m \in 0 .. Slots - 1 : /\ m * PollInterval <= age
                                    /\ ~ (m * PollInterval <= age - PollInterval)
    BY <1>2, <1>10, SlotOfMoment
  <2>2. bucket'["poll"].age = age /\ bucket'["poll"].count <= count + 1
        /\ Counted("poll").count <= count + 1
    BY <1>2, <1>6, <1>9, <1>10 DEF Counted, SenderTypeOK
  <2>3. <<c, m>> \notin Used BY <1>3, <2>1 DEF Used
  <2>4. <<c, m>> \in Used'
    <3>1. m * PollInterval <= bucket'["poll"].age - Since(c)' BY <1>2, <1>4, <2>1, <2>2
    <3> QED BY <1>1, <1>5, <3>1 DEF Used, Spending
  <2>5. Used \in SUBSET Used'
    <3>1. \A d \in Callers : age - Since(d) <= bucket'["poll"].age - Since(d)'
      BY <1>2, <1>3, <1>4, <2>2
    <3> QED BY <1>5, <3>1, UsedGrows
  <2>6. Cardinality(Used) + 1 <= Cardinality(Used') BY <1>7, <2>3, <2>4, <2>5, SpendingGrows
  <2>7. count <= Cardinality(Used) BY <1>10 DEF WindowInv
  <2>8. Cardinality(Used) \in Nat BY SpendingIsLimited DEF Used
  <2>9. count + 1 <= Cardinality(Used') BY <1>2, <1>8, <2>6, <2>7, <2>8
  <2>10. bucket'["poll"].count = Counted("poll").count /\ Counted("poll").count \in Nat
    BY <1>2, <1>6 DEF Counted, SenderTypeOK
  <2>11. WindowInv' BY <1>2, <1>8, <2>2, <2>9, <2>10 DEF WindowInv
  <2>12. Admitted("poll") BY <1>2, <1>8, <1>9, <2>2, <2>9, <2>10 DEF Admitted
  <2> QED BY <2>11, <2>12
<1>11. CASE age = LimitWindow
  <2>1. Counted("poll") = [age |-> 0, count |-> 1] BY <1>2, <1>11 DEF Counted
  <2>2. <<c, 0>> \in Used'
    <3>1. 0 \in 0 .. Slots - 1
      <4>1. Slots # 0 BY SlotsOfWindow
      <4> QED BY <4>1, SlotsOfWindow
    <3>2. 0 * PollInterval <= bucket'["poll"].age - Since(c)' BY <1>4, <1>6, <2>1
    <3> QED BY <1>1, <1>5, <3>1, <3>2 DEF Used, Spending
  <2>3. Cardinality({}) + 1 <= Cardinality(Used') BY <1>7, <2>2, SpendingGrows
  <2>4. 1 <= Cardinality(Used') BY <2>3, FS_EmptySet
  <2>5. WindowInv' BY <1>6, <2>1, <2>4 DEF WindowInv
  <2>6. Admitted("poll") BY <1>8, <1>9, <2>1, <2>4 DEF Admitted
  <2> QED BY <2>5, <2>6
<1> QED BY <1>2, <1>10, <1>11

\* The call of d goes on as it did, but for what it will find.
SameCall(d) ==
  /\ call'[d].command = call[d].command /\ call'[d].at = call[d].at
  /\ call'[d].rest = call[d].rest /\ call'[d].outcome = call[d].outcome

\* A step of a caller other than a poll leaves the bucket of the polls alone,
\* and no request goes.
LEMMA OtherCallStep ==
  ASSUME SenderTypeOK, NEW c \in Callers, CallStep(c), ~ PollAuthorization(c)
  PROVE  /\ crowded' = crowded /\ bucket'["poll"] = bucket["poll"]
         /\ \A d \in Callers : requested[d].state # "none" => requested'[d].state # "none"
         /\ \A d \in Callers \ {c} : SameCall(d) /\ requested'[d] = requested[d]
<1> USE DEF SameCall
<1>1. CASE BeginCommand(c) BY <1>1 DEF BeginCommand, SenderTypeOK
<1>2. CASE CreateAuthorization(c)
  <2>1. UNCHANGED crowded /\ bucket'["poll"] = bucket["poll"]
    BY <1>2 DEF CreateAuthorization, Count, SenderTypeOK
  <2>2. \A d \in Callers \ {c} : call'[d] = call[d]
    BY <1>2 DEF CreateAuthorization, SenderTypeOK, Continue, End
  <2>3. \/ UNCHANGED requested
        \/ requested' = [requested EXCEPT ![c] = [state |-> "pending", left |-> RequestLifetime]]
    BY <1>2 DEF CreateAuthorization
  <2> QED BY <2>1, <2>2, <2>3, SMTT(20) DEF SenderTypeOK
<1>3. CASE DecideRequest(c) BY <1>3 DEF DecideRequest, SenderTypeOK
<1>4. CASE AuthenticateSender(c)
  BY <1>4 DEF AuthenticateSender, SenderTypeOK, Continue, End
<1>5. CASE Act(c)
  <2>1. UNCHANGED <<bucket, crowded, requested>> BY <1>5 DEF Act
  <2>2. CASE End(c, "done") \/ End(c, "refused") BY <2>1, <2>2 DEF End, SenderTypeOK
  <2>3. CASE \E other \in Callers : Revoke(c, other)
    <3>1. \A d \in Callers \ {c} : SameCall(d) BY <2>3, RevokedCalls
    <3> QED BY <2>1, <3>1
  <2> QED BY <1>5, <2>2, <2>3 DEF Act
<1> QED BY <1>1, <1>2, <1>3, <1>4, <1>5 DEF CallStep

\* What a step of a caller other than a poll makes of its call.
LEMMA OwnCall ==
  ASSUME SenderTypeOK, IssueInv, CallerInv, NEW c \in Callers, CallStep(c), ~ PollAuthorization(c)
  PROVE  /\ call'[c].at # "idle" => call'[c].outcome = "none"
         /\ call'[c].at = "claim" => requested'[c].state # "none"
         /\ call'[c].at = "claim" /\ requested[c].state # "none" =>
              call[c].at = "claim" /\ call'[c].rest = call[c].rest
         /\ call'[c].outcome = "limited" =>
              \/ call'[c] = call[c] /\ requested[c].state = "pending"
              \/ requested'[c].state = "none"
<1>1. CASE BeginCommand(c)
  <2>1. /\ call'[c].at \in {"create", "touch"} /\ call'[c].outcome = "none"
    BY <1>1 DEF BeginCommand, SenderTypeOK, Calling
  <2> QED BY <2>1
<1>2. CASE CreateAuthorization(c)
  <2>1. call[c].at = "create" /\ call[c].outcome = "none" /\ requested[c].state = "none"
    BY <1>2 DEF CreateAuthorization, CallerInv, IssueInv
  <2>2. CASE Admitted("create")
    <3>1. requested'[c].state = "pending" BY <1>2, <2>2 DEF CreateAuthorization, SenderTypeOK
    <3>2. Continue(c, "claim") \/ End(c, "failed") BY <1>2, <2>2 DEF CreateAuthorization
    <3> QED BY <2>1, <3>1, <3>2 DEF SenderTypeOK, Continue, End
  <2>3. CASE ~ Admitted("create")
    <3>1. End(c, "limited") /\ UNCHANGED requested BY <1>2, <2>3 DEF CreateAuthorization
    <3> QED BY <2>1, <3>1 DEF SenderTypeOK, End
  <2> QED BY <2>2, <2>3
<1>3. CASE DecideRequest(c)
  <2>1. UNCHANGED call /\ requested[c].state = "pending" BY <1>3 DEF DecideRequest
  <2>2. requested'[c].state # "none" BY <1>3 DEF DecideRequest, SenderTypeOK
  <2> QED BY <2>1, <2>2 DEF CallerInv
<1>4. CASE AuthenticateSender(c)
  <2>1. call[c].outcome = "none" BY <1>4 DEF AuthenticateSender, CallerInv
  <2>2. Continue(c, "find") \/ Continue(c, "act") \/ End(c, "failed")
    BY <1>4 DEF AuthenticateSender
  <2> QED BY <2>1, <2>2 DEF SenderTypeOK, Continue, End
<1>5. CASE Act(c)
  <2>1. CASE End(c, "done") \/ End(c, "refused") BY <2>1 DEF SenderTypeOK, End
  <2>2. CASE \E other \in Callers : Revoke(c, other) BY <2>2, RevokedCalls
  <2> QED BY <1>5, <2>1, <2>2 DEF Act
<1> QED BY <1>1, <1>2, <1>3, <1>4, <1>5 DEF CallStep

\* Every step keeps the callers within what the slots allow.
LEMMA PatienceKept ==
  ASSUME IInv, IInv', PInv, SenderNext
  PROVE  PInv'
<1>1. SenderTypeOK /\ SenderTypeOK' /\ IssueInv BY DEF IInv
<1>2. CallerInv /\ WindowInv /\ PatientCallersAreServed BY DEF PInv
<1>3. /\ bucket["poll"].age \in Nat /\ bucket["poll"].age <= LimitWindow
      /\ \A d \in Callers : Since(d) \in Nat /\ Since(d)' \in Nat
  BY <1>1, MomentTypes
<1>4. ASSUME NEW c \in Callers, PollAuthorization(c) PROVE PInv'
  <2>1. /\ call[c].at = "claim" /\ requested[c].state # "none" /\ crowded' = crowded
    BY <1>2, <1>4 DEF PollAuthorization, CallerInv
  <2>2. \/ End(c, "failed") \/ End(c, "ready")
        \/ ~ Admitted("poll") /\ End(c, "limited")
        \/ call' = [call EXCEPT ![c].rest = PollInterval]
    BY <1>4 DEF PollAuthorization
  <2>3. \A d \in Callers : requested[d].state # "none" => requested'[d].state # "none"
    BY <1>1, <1>4 DEF PollAuthorization, SenderTypeOK
  <2>4. \A d \in Callers \ {c} : call'[d] = call[d] /\ requested'[d] = requested[d]
    <3>1. \A d \in Callers \ {c} : call'[d] = call[d] BY <1>1, <2>2 DEF SenderTypeOK, End
    <3>2. \A d \in Callers \ {c} : requested'[d] = requested[d]
      BY <1>1, <1>4 DEF PollAuthorization, SenderTypeOK
    <3> QED BY <3>1, <3>2
  <2>5. /\ call'[c].at = "idle" \/ call'[c].outcome = "none"
        /\ call'[c].outcome = "limited" => ~ Admitted("poll")
    BY <1>1, <1>2, <2>1, <2>2, SMTT(20) DEF SenderTypeOK, End, CallerInv
  <2>6. CallerInv' BY <1>2, <2>1, <2>3, <2>4, <2>5 DEF CallerInv
  <2>7. ~ crowded => WindowInv' /\ Admitted("poll") BY <1>1, <1>2, <1>4, PollIsServed
  <2>8. WindowInv' BY <2>1, <2>7 DEF WindowInv
  <2>9. PatientCallersAreServed'
    BY <1>2, <2>1, <2>4, <2>5, <2>7 DEF PatientCallersAreServed
  <2> QED BY <2>6, <2>8, <2>9 DEF PInv
<1>5. ASSUME NEW c \in Callers, CallStep(c), ~ PollAuthorization(c) PROVE PInv'
  <2>1. /\ crowded' = crowded /\ bucket'["poll"] = bucket["poll"]
        /\ \A d \in Callers : requested[d].state # "none" => requested'[d].state # "none"
        /\ \A d \in Callers \ {c} : SameCall(d) /\ requested'[d] = requested[d]
    BY <1>1, <1>5, OtherCallStep
  <2>2. /\ call'[c].at # "idle" => call'[c].outcome = "none"
        /\ call'[c].at = "claim" => requested'[c].state # "none"
        /\ call'[c].at = "claim" /\ requested[c].state # "none" =>
              call[c].at = "claim" /\ call'[c].rest = call[c].rest
        /\ call'[c].outcome = "limited" =>
             \/ call'[c] = call[c] /\ requested[c].state = "pending"
             \/ requested'[c].state = "none"
    BY <1>1, <1>2, <1>5, OwnCall
  <2>3. CallerInv' BY <1>2, <2>1, <2>2 DEF CallerInv, SameCall
  <2>4. \A d \in Callers : requested[d].state # "none" =>
          bucket["poll"].age - Since(d) <= bucket'["poll"].age - Since(d)'
    <3>1. \A d \in Callers \ {c} : Since(d)' = Since(d) BY <2>1 DEF Since, SameCall
    <3>2. requested[c].state # "none" => Since(c)' = 0 \/ Since(c)' = Since(c)
      BY <2>2 DEF Since
    <3> QED BY <1>3, <2>1, <3>1, <3>2
  <2>5. WindowInv' BY <1>1, <1>2, <1>3, <2>1, <2>4, QuietStep
  <2>6. PatientCallersAreServed' BY <1>2, <2>1, <2>2 DEF PatientCallersAreServed, SameCall
  <2> QED BY <2>3, <2>5, <2>6 DEF PInv
<1>6. CASE OthersAsk
  <2>1. crowded /\ UNCHANGED <<crowded, requested, call>> BY <1>6 DEF OthersAsk
  <2> QED BY <1>2, <2>1 DEF PInv, CallerInv, WindowInv, PatientCallersAreServed
<1>7. CASE \E kind \in {"create", "poll"} : DeleteBucket(kind)
  <2>1. UNCHANGED <<crowded, requested, call>> BY <1>7 DEF DeleteBucket
  <2>2. \/ UNCHANGED <<bucket["poll"]>>
        \/ bucket'["poll"].age = LimitWindow
    BY <1>1, <1>7 DEF DeleteBucket, SenderTypeOK
  <2>3. WindowInv'
    <3>1. CASE bucket'["poll"].age = LimitWindow BY <3>1 DEF WindowInv
    <3>2. CASE UNCHANGED <<bucket["poll"]>>
      <4>1. \A d \in Callers : bucket["poll"].age - Since(d) <= bucket'["poll"].age - Since(d)'
        BY <1>3, <2>1, <3>2 DEF Since
      <4> QED BY <1>1, <1>2, <1>3, <2>1, <3>2, <4>1, QuietStep
    <3> QED BY <2>2, <3>1, <3>2
  <2> QED BY <1>2, <2>1, <2>3 DEF PInv, CallerInv, PatientCallersAreServed
<1>8. CASE Second
  <2>1. /\ crowded' = crowded
        /\ \A d \in Callers : requested'[d].state = requested[d].state
    BY <1>1, <1>8 DEF Second, SenderTypeOK
  <2>2. \A d \in Callers :
          /\ call'[d].at = call[d].at /\ call'[d].outcome = call[d].outcome
          /\ call'[d].command = call[d].command
          /\ call'[d].rest = IF call[d].rest = 0 THEN 0 ELSE call[d].rest - 1
    BY <1>1, <1>8 DEF Second, SenderTypeOK
  <2>3. CallerInv' /\ PatientCallersAreServed'
    BY <1>2, <2>1, <2>2 DEF CallerInv, PatientCallersAreServed
  <2>4. /\ bucket'["poll"].count = bucket["poll"].count
        /\ bucket'["poll"].age = IF bucket["poll"].age = LimitWindow THEN LimitWindow
                                                                     ELSE bucket["poll"].age + 1
    BY <1>1, <1>8 DEF Second, SenderTypeOK
  <2>5. CASE bucket["poll"].age = LimitWindow
    BY <2>3, <2>4, <2>5 DEF PInv, WindowInv
  <2>6. CASE bucket["poll"].age # LimitWindow
    <3>1. \A d \in Callers : Since(d)' <= Since(d) + 1
      <4>1. \A d \in Callers : call[d].rest \in Nat BY <1>1 DEF SenderTypeOK
      <4> QED BY <2>2, <4>1 DEF Since
    <3>2. bucket'["poll"].age = bucket["poll"].age + 1 BY <2>4, <2>6
    <3>3. \A d \in Callers : bucket["poll"].age - Since(d) <= bucket'["poll"].age - Since(d)'
      BY <1>3, <3>1, <3>2
    <3>4. WindowInv' BY <1>1, <1>2, <1>3, <2>1, <2>4, <3>2, <3>3, QuietStep
    <3> QED BY <2>3, <3>4 DEF PInv
  <2> QED BY <2>5, <2>6
<1> QED BY <1>4, <1>5, <1>6, <1>7, <1>8 DEF SenderNext

\* Nobody has polled.
LEMMA PatienceInit == SenderInit => PInv
BY LimitsArePositive DEF SenderInit, PInv, CallerInv, WindowInv, PatientCallersAreServed, Calling

\* Callers that wait as they are told are never turned away by the limit of the
\* polls: each of their polls uses a slot of the window nobody else uses, and
\* the limit is no less than the slots of all callers.
THEOREM PatientServed == SenderSpec => []PatientCallersAreServed
<1>1. IInv /\ IInv' /\ PInv /\ [SenderNext]_senderVars => PInv'
  <2>1. ASSUME PInv, UNCHANGED senderVars PROVE PInv'
    BY <2>1 DEF senderVars, PInv, CallerInv, WindowInv, PatientCallersAreServed, Used, Since
  <2> QED BY <2>1, PatienceKept
<1>2. PInv => PatientCallersAreServed BY DEF PInv
<1>3. SenderSpec => []PInv BY Inductive, PatienceInit, <1>1, PTL DEF SenderSpec
<1> QED BY <1>2, <1>3, PTL

HIDE LimitsArePositive

-----------------------------------------------------------------------------
(* SerialLink.                                                             *)

USE ClientsAssumption DEF ClientsAssumption

Item == [what : {"line", "part"}, of : Requests, part : Nat]

\* What is on the way down belongs to requests, and a call sends no more parts
\* than its payload has.
LineInv ==
  /\ downlink \in Seq(Item)
  /\ request \in Requests \union {NoCall}
  /\ client \in Nat
  /\ sent \in Nat /\ sent <= request.parts

\* The service has found its payload complete only after it compared all of it,
\* and keeps it as it is until the next upload begins.
PayloadInv ==
  /\ service = "receiving" => ~ complete
  /\ service = "running" => complete
  /\ complete => upload \in Requests /\ received = Payload(upload)
  /\ service = "receiving" => upload \in Requests /\ Len(received) < upload.parts
  /\ received \in Seq(Item)
  /\ complete \in BOOLEAN

SerialIInv == LineInv /\ PayloadInv /\ WholePayloadsRun

\* Nothing is on the way and nothing has run.
LEMMA SerialInitInv == SerialInit => SerialIInv
<1> SUFFICES ASSUME SerialInit PROVE SerialIInv OBVIOUS
<1>1. <<>> \in Seq(Item) OBVIOUS
<1>2. LineInv BY <1>1 DEF SerialInit, LineInv, NoCall
<1>3. PayloadInv BY <1>1 DEF SerialInit, PayloadInv
<1> QED BY <1>2, <1>3 DEF SerialInit, SerialIInv, WholePayloadsRun

\* Payloads are of one or three parts, and other requests have none.
LEMMA RequestFacts ==
  ASSUME NEW of \in Requests \union {NoCall}
  PROVE  /\ of.parts \in Nat
         /\ of # NoCall \/ of.parts = 0
BY DEF Requests, NoCall

\* Parts of a request are items of the line.
LEMMA PartsAreItems ==
  ASSUME NEW of \in Requests, NEW first \in Nat, NEW last \in Nat, first <= last
  PROVE  PartsOf(of, first, last) \in Seq(Item)
<1>1. ASSUME NEW n \in 1 .. last - first + 1
      PROVE  Part(of, first + n - 1) \in Item
  BY DEF Part, Item
<1> DEFINE length == last - first + 1
<1>2. length \in Nat OBVIOUS
<1>3. PartsOf(of, first, last) = [n \in 1 .. length |-> Part(of, first + n - 1)]
  BY DEF PartsOf
<1> QED BY <1>1, <1>2, <1>3

\* What is left of the line when some of it has been read.
LEMMA RestOfLine ==
  ASSUME downlink \in Seq(Item), NEW n \in 1 .. Len(downlink) + 1
  PROVE  SubSeq(downlink, n, Len(downlink)) \in Seq(Item)
OBVIOUS

\* The service: only a request that is read begins an upload, only a comparison
\* completes it, and only a complete one is run.
LEMMA ServiceKeeps == ASSUME SerialIInv, ServiceStep PROVE SerialIInv'
<1>1. LineInv /\ PayloadInv /\ WholePayloadsRun BY DEF SerialIInv
<1> USE DEF hostVars, serviceVars
<1>2. UNCHANGED <<client, host, request, sent>>
  BY DEF ServiceStep, ReadRequest, ReadNothing, ReceiveChunk, GiveUp, Restore, CommandEnds
<1>3. ASSUME downlink' \in Seq(Item) PROVE LineInv' BY <1>1, <1>2, <1>3 DEF LineInv
<1>4. downlink \in Seq(Item) /\ <<>> \in Seq(Item) BY <1>1 DEF LineInv
<1>5. ASSUME UNCHANGED <<upload, received, complete, ran>>, service' \in {"reading", "restoring", "stopped", service}
      PROVE  PayloadInv' /\ WholePayloadsRun'
  BY <1>1, <1>5 DEF PayloadInv, WholePayloadsRun
<1>6. CASE ReadRequest
  <2>1. PICK n \in DOMAIN downlink :
          /\ downlink' = SubSeq(downlink, n + 1, Len(downlink))
          /\ \/ service' = "stopped" /\ UNCHANGED <<tty, upload, received, complete, ran>>
             \/ Serve(Head(downlink))
             \/ UNCHANGED serviceVars
    BY <1>6 DEF ReadRequest
  <2>2. n \in 1 .. Len(downlink) BY <1>4, <2>1
  <2>3. LineInv' BY <1>3, <1>4, <2>1, <2>2, RestOfLine
  <2>4. CASE Serve(Head(downlink))
    <3>1. CASE UNCHANGED serviceVars BY <1>5, <2>3, <3>1 DEF SerialIInv
    <3>2. CASE /\ Head(downlink).of.kind \in Kinds
               /\ service' = "receiving" /\ upload' = Head(downlink).of /\ received' = <<>>
               /\ complete' = FALSE /\ UNCHANGED ran
      <4>1. Head(downlink) \in Item BY <1>4, <2>2
      <4>2. upload' \in Requests /\ 0 < upload'.parts
        BY <2>4, <3>2, <4>1 DEF Item, Requests, Kinds
      <4>3. PayloadInv' BY <1>4, <3>2, <4>2 DEF PayloadInv
      <4>4. WholePayloadsRun' BY <1>1, <3>2 DEF WholePayloadsRun
      <4> QED BY <2>3, <4>3, <4>4 DEF SerialIInv
    <3> QED BY <2>4, <3>1, <3>2 DEF Serve
  <2> QED BY <1>5, <2>1, <2>3, <2>4 DEF SerialIInv
<1>7. CASE ReadNothing
  <2>1. downlink' = <<>> /\ UNCHANGED <<upload, received, complete, ran>>
    BY <1>7 DEF ReadNothing
  <2>2. service' \in {"stopped", service} BY <1>7 DEF ReadNothing
  <2> QED BY <1>3, <1>4, <1>5, <2>1, <2>2 DEF SerialIInv
<1>8. CASE ReceiveChunk
  <2>1. /\ UNCHANGED <<upload, ran>>
        /\ service = "receiving"
        /\ \/ Len(received') < upload.parts /\ UNCHANGED <<service, complete>>
           \/ service' = "restoring" /\ complete' = Checked
    BY <1>8 DEF ReceiveChunk
  <2>2. ~ complete /\ upload \in Requests /\ received \in Seq(Item) /\ Len(received) < upload.parts
    BY <1>1, <2>1 DEF PayloadInv
  <2> DEFINE parts == ChunkAt(upload, Len(received))
  <2>3. /\ Len(downlink) >= parts
        /\ downlink' = SubSeq(downlink, parts + 1, Len(downlink))
        /\ received' = received \o SubSeq(downlink, 1, parts)
    BY <1>8 DEF ReceiveChunk
  <2>4. parts \in 1 .. ChunkParts
    BY <2>2, RequestFacts DEF ChunkAt, Lesser, ChunkParts
  <2> HIDE DEF parts
  <2>5. parts \in 1 .. Len(downlink) BY <1>4, <2>3, <2>4 DEF ChunkParts
  <2>6. SubSeq(downlink, 1, parts) \in Seq(Item) BY <1>4, <2>5
  <2>7. received' \in Seq(Item) BY <2>2, <2>3, <2>6
  <2>8. downlink' \in Seq(Item) BY <1>4, <2>3, <2>5, RestOfLine
  <2>9. PayloadInv'
    <3>1. CASE Len(received') < upload.parts /\ UNCHANGED <<service, complete>>
      BY <1>1, <2>1, <2>2, <2>7, <3>1 DEF PayloadInv
    <3>2. CASE service' = "restoring" /\ complete' = Checked
      <4>1. complete' \in BOOLEAN /\ (complete' => received' = Payload(upload))
        BY <3>2, Zenon DEF Checked
      <4>2. upload' = upload /\ service' = "restoring" BY <2>1, <3>2
      <4>3. complete' => upload' \in Requests /\ received' = Payload(upload')
        BY <2>2, <4>1, <4>2
      <4>4. service' # "receiving" /\ service' # "running" BY <4>2
      <4> QED BY <2>7, <4>1, <4>3, <4>4, Zenon DEF PayloadInv
    <3> QED BY <2>1, <3>1, <3>2
  <2>10. WholePayloadsRun' BY <1>1, <2>1 DEF WholePayloadsRun
  <2> QED BY <1>3, <2>8, <2>9, <2>10 DEF SerialIInv
<1>9. CASE GiveUp
  <2>1. downlink' = <<>> /\ service' = "restoring" /\ UNCHANGED <<upload, received, complete, ran>>
    BY <1>9 DEF GiveUp
  <2> QED BY <1>3, <1>4, <1>5, <2>1 DEF SerialIInv
<1>10. CASE Restore
  <2>1. UNCHANGED <<downlink, upload, received, complete>> BY <1>10 DEF Restore
  <2>2. \/ complete /\ service' = "running" /\ UNCHANGED ran
        \/ complete /\ service' = "reading" /\ ran' = ran \union {received}
        \/ service' = "reading" /\ UNCHANGED ran
    BY <1>10 DEF Restore
  <2>3. PayloadInv' BY <1>1, <2>1, <2>2 DEF PayloadInv
  <2>4. WholePayloadsRun' BY <1>1, <2>2 DEF PayloadInv, WholePayloadsRun
  <2> QED BY <1>3, <1>4, <2>1, <2>3, <2>4 DEF SerialIInv
<1>11. CASE CommandEnds
  <2>1. /\ UNCHANGED <<downlink, upload, received, complete>>
        /\ service = "running" /\ service' = "reading" /\ ran' = ran \union {received}
    BY <1>11 DEF CommandEnds
  <2>2. PayloadInv' BY <1>1, <2>1 DEF PayloadInv
  <2>3. WholePayloadsRun' BY <1>1, <2>1 DEF PayloadInv, WholePayloadsRun
  <2> QED BY <1>3, <1>4, <2>1, <2>2, <2>3 DEF SerialIInv
<1> QED BY <1>6, <1>7, <1>8, <1>9, <1>10, <1>11 DEF ServiceStep

\* The host: a call sends its request and parts of its own payload.
LEMMA HostKeeps ==
  ASSUME SerialIInv, OpenLine \/ ReadAnswer \/ ReadData \/ Abandon
  PROVE  SerialIInv'
<1>1. LineInv /\ PayloadInv /\ WholePayloadsRun BY DEF SerialIInv
<1>2. UNCHANGED serviceVars BY DEF OpenLine, ReadAnswer, ReadData, Abandon
<1>3. PayloadInv' /\ WholePayloadsRun'
  BY <1>1, <1>2 DEF serviceVars, PayloadInv, WholePayloadsRun
<1>4. CASE OpenLine
  <2>1. client' = client + 1 /\ client < Clients /\ sent' = 0 BY <1>4 DEF OpenLine
  <2>2. PICK of \in Requests : request' = of /\ downlink' = downlink \o <<Line(of)>>
    BY <1>4 DEF OpenLine, Send
  <2>3. Line(of) \in Item BY DEF Line, Item
  <2>4. downlink' \in Seq(Item) BY <1>1, <2>2, <2>3 DEF LineInv
  <2>5. request'.parts \in Nat BY <2>2, RequestFacts
  <2> QED BY <1>1, <1>3, <2>1, <2>2, <2>4, <2>5 DEF SerialIInv, LineInv
<1>5. CASE ReadAnswer
  <2>1. UNCHANGED <<client, request>> BY <1>5 DEF ReadAnswer
  <2>2. CASE UNCHANGED <<downlink, sent>> BY <1>1, <1>3, <2>1, <2>2 DEF SerialIInv, LineInv
  <2>3. CASE sent < request.parts /\ SendChunk
    <3>1. request \in Requests /\ request.parts \in Nat /\ sent \in Nat
      BY <1>1, <2>3, RequestFacts DEF LineInv
    <3>2. sent' = sent + ChunkAt(request, sent)
      BY <2>3 DEF SendChunk
    <3>3. sent' \in Nat /\ sent + 1 <= sent' /\ sent' <= request.parts
      BY <2>3, <3>1, <3>2 DEF ChunkAt, Lesser, ChunkParts
    <3>4. PartsOf(request, sent + 1, sent') \in Seq(Item) BY <3>1, <3>3, PartsAreItems
    <3>5. downlink' = downlink \o PartsOf(request, sent + 1, sent') BY <2>3 DEF SendChunk, Send
    <3>6. downlink' \in Seq(Item) BY <1>1, <3>4, <3>5 DEF LineInv
    <3> QED BY <1>1, <1>3, <2>1, <3>3, <3>6 DEF SerialIInv, LineInv
  <2> QED BY <1>5, <2>2, <2>3 DEF ReadAnswer
<1>6. CASE ReadData \/ Abandon
  BY <1>1, <1>3, <1>6 DEF ReadData, Abandon, SerialIInv, LineInv
<1> QED BY <1>4, <1>5, <1>6

\* Every step keeps the invariant.
LEMMA SerialNextInv == SerialIInv /\ [SerialNext]_serialVars => SerialIInv'
<1> SUFFICES ASSUME SerialIInv, [SerialNext]_serialVars PROVE SerialIInv' OBVIOUS
<1>1. CASE UNCHANGED serialVars
  BY <1>1 DEF serialVars, serviceVars, hostVars, SerialIInv, LineInv, PayloadInv, WholePayloadsRun
<1>2. CASE SerialNext BY <1>2, ServiceKeeps, HostKeeps DEF SerialNext
<1> QED BY <1>1, <1>2

-----------------------------------------------------------------------------

\* The invariant the theorem below follows from.
THEOREM SerialInductive == SerialSpec => []SerialIInv
<1> QED BY SerialInitInv, SerialNextInv, PTL DEF SerialSpec

\* Nothing but a whole payload of one request is run, wherever calls break off.
THEOREM WholeRun == SerialSpec => []WholePayloadsRun
<1>1. SerialIInv => WholePayloadsRun BY DEF SerialIInv
<1> QED BY SerialInductive, <1>1, PTL

-----------------------------------------------------------------------------
(* SonyReader.                                                             *)

\* The file has sectors.
LEMMA FileHasSectors == Sectors \in Nat \ {0}
BY SonyReaderAssumption DEF SonyReaderAssumption

USE FileHasSectors

\* The tools that copy, and where they are: the output ends where the next
\* read begins, and that is inside the file while they read.
PlaceInv ==
  /\ tool \in {"get", "dump", "copy"}
  /\ size \in {0, Sectors}
  /\ offset \in Nat /\ part \in Nat
  /\ bySector \in BOOLEAN
  /\ image \in Seq(Nat)
  /\ Len(image) = offset + part
  /\ offset <= size
  /\ ~ bySector => part = 0
  /\ bySector => tool = "dump" /\ offset < size /\ offset + part < ChunkEnd
  /\ stage \in {"read", "reopen", "map", "zero"} => offset < size
  /\ stage \in {"map", "zero"} => bySector

\* Where there is nothing yet.
StartInv ==
  /\ stage \in {"connect", "create"} => offset = 0 /\ part = 0
  /\ stage = "connect" => size = 0
  /\ tool = "dump" /\ stage \notin {"connect", "failed"} => size = Sectors
  /\ stage \in {"closing", "done"} => offset = size /\ part = 0

\* A read that is under way is of the sectors the tool wants.
CommandInv ==
  /\ command \in {"send", "status", "data"}
  /\ stage \in {"connect", "create", "reopen", "map", "zero"} => command = "send"
  /\ command # "send" => asked = Wanted

\* The map lists the sectors that are zero in the output, and the one that is
\* about to be.
MapInv ==
  /\ \A n \in DOMAIN image : image[n] = n \/ (image[n] = Zeros /\ n \in badmap)
  /\ \A n \in badmap : n = Len(image) + 1 \/ (n \in DOMAIN image /\ image[n] = Zeros)
  /\ stage \notin {"zero", "failed"} => badmap \subseteq DOMAIN image
  /\ stage = "zero" => Len(image) + 1 \in badmap

SonyIInv == PlaceInv /\ StartInv /\ CommandInv /\ MapInv

\* Nothing has been read or written.
LEMMA SonyInitInv == SonyInit => SonyIInv
<1> SUFFICES ASSUME SonyInit PROVE SonyIInv OBVIOUS
<1>1. <<>> \in Seq(Nat) /\ Len(<<>>) = 0 /\ DOMAIN <<>> = {} OBVIOUS
<1>6. PlaceInv
  <2>1. /\ tool \in {"get", "dump", "copy"} /\ stage = "connect" /\ size = 0
        /\ offset = 0 /\ part = 0 /\ bySector = FALSE /\ image = <<>>
    BY DEF SonyInit
  <2>2. ~ bySector /\ bySector \in BOOLEAN BY <2>1
  <2>3. size \in {0, Sectors} /\ offset <= size /\ Len(image) = offset + part /\ image \in Seq(Nat)
    BY <1>1, <2>1
  <2> QED BY <2>1, <2>2, <2>3 DEF PlaceInv
<1> USE <1>1 DEF SonyInit
<1>3. StartInv BY DEF StartInv
<1>4. CommandInv BY DEF CommandInv
<1>5. MapInv BY DEF MapInv
<1> QED BY <1>3, <1>4, <1>5, <1>6 DEF SonyIInv

\* A read that failed leaves the place and the files alone; what comes next
\* begins with a request of its own.
LEMMA FailedReadKeeps ==
  ASSUME SonyIInv, stage = "read", ReadFailed, UNCHANGED <<tool, size>>
  PROVE  SonyIInv'
<1>1. PlaceInv /\ StartInv /\ CommandInv /\ MapInv BY DEF SonyIInv
<1>2. UNCHANGED <<offset, part, bySector, image, badmap, tool, size>> /\ command' = "send"
  BY DEF ReadFailed, fileVars
<1>3. stage' \in {"reopen", "failed", "closing failed"} BY DEF ReadFailed
<1>4. PlaceInv' BY <1>1, <1>2, <1>3 DEF PlaceInv, ChunkEnd
<1>5. StartInv' BY <1>1, <1>2, <1>3 DEF StartInv
<1>6. CommandInv' BY <1>2 DEF CommandInv
<1>7. MapInv' BY <1>1, <1>2, <1>3 DEF MapInv
<1> QED BY <1>4, <1>5, <1>6, <1>7 DEF SonyIInv

\* Sectors that were read, or one of zeros that is mapped, extend the output.
LEMMA KeepKeeps ==
  ASSUME SonyIInv,
         UNCHANGED <<tool, size, asked>>,
         NEW sectors \in Seq(Nat),
         Keep(sectors),
         Len(sectors) # 0,
         bySector => Len(sectors) = 1,
         ~ bySector => offset + Len(sectors) <= size,
         offset < size,
         stage \in {"read", "zero"},
         stage = "read" => \A n \in DOMAIN sectors : sectors[n] = Len(image) + n,
         stage = "zero" => Len(sectors) = 1 /\ sectors[1] = Zeros
  PROVE  SonyIInv'
<1>1. PlaceInv /\ StartInv /\ CommandInv /\ MapInv BY DEF SonyIInv
<1>2. CASE /\ stage' \in {"closing failed", "failed"} /\ UNCHANGED <<readVars, fileVars>>
           /\ stage = "zero" => stage' = "failed"
  <2>1. UNCHANGED <<offset, part, bySector, command, image, badmap>>
    BY <1>2 DEF readVars, fileVars
  <2>2. PlaceInv' BY <1>1, <1>2, <2>1 DEF PlaceInv, ChunkEnd
  <2>3. StartInv' BY <1>1, <1>2, <2>1 DEF StartInv
  <2>4. CommandInv' BY <1>1, <1>2, <2>1 DEF CommandInv, Wanted, ChunkEnd
  <2>5. MapInv' BY <1>1, <1>2, <2>1 DEF MapInv
  <2> QED BY <2>2, <2>3, <2>4, <2>5 DEF SonyIInv
<1>3. CASE /\ image' = image \o sectors /\ offset' = NextOffset(Len(sectors))
           /\ bySector' = (bySector /\ offset' = offset)
           /\ part' = IF bySector' THEN part + Len(sectors) ELSE 0
           /\ command' = "send"
           /\ stage' = IF offset' < size THEN "read" ELSE IF tool = "copy" THEN "closing" ELSE "done"
           /\ UNCHANGED badmap
  <2>1. PICK count \in Nat \ {0} : count = Len(sectors) OBVIOUS
  <2>2. offset \in Nat /\ part \in Nat /\ size \in Nat /\ bySector \in BOOLEAN /\ image \in Seq(Nat)
    BY <1>1 DEF PlaceInv
  <2>3. /\ image' \in Seq(Nat)
        /\ Len(image') = Len(image) + count
        /\ \A n \in 1 .. Len(image) : image'[n] = image[n]
        /\ \A n \in 1 .. count : image'[Len(image) + n] = sectors[n]
    BY <1>3, <2>1, <2>2
  <2>4. ChunkEnd \in Nat /\ offset < ChunkEnd /\ ChunkEnd <= size
    BY <2>2 DEF ChunkEnd, Least, ChunkSectors
  <2>5. /\ offset' \in Nat /\ part' \in Nat /\ bySector' \in BOOLEAN
        /\ offset' + part' = offset + part + count
        /\ offset' <= size
        /\ ~ bySector' => part' = 0
        /\ bySector' => bySector /\ offset' = offset /\ offset' + part' < ChunkEnd
    <3>1. CASE bySector
      <4>1. count = 1 /\ offset + part < ChunkEnd BY <1>1, <2>1, <3>1 DEF PlaceInv
      <4>2. offset' = IF offset + part + count = ChunkEnd THEN ChunkEnd ELSE offset
        BY <1>3, <2>1, <3>1 DEF NextOffset
      <4>3. CASE offset + part + count = ChunkEnd
        <5>1. offset' = ChunkEnd BY <4>2, <4>3
        <5>2. offset' # offset BY <2>2, <2>4, <5>1
        <5>3. bySector' = FALSE BY <1>3, <5>2, Zenon
        <5>4. part' = 0 BY <1>3, <5>3
        <5>5. ~ bySector' /\ bySector' \in BOOLEAN BY <5>3
        <5>6. offset' \in Nat /\ offset' + part' = offset + part + count /\ offset' <= size
          BY <2>1, <2>2, <2>4, <4>3, <5>1, <5>4
        <5> QED BY <5>4, <5>5, <5>6
      <4>4. CASE offset + part + count # ChunkEnd
        <5>1. offset' = offset BY <4>2, <4>4
        <5>2. bySector' = TRUE BY <1>3, <2>2, <3>1, <5>1
        <5>3. part' = part + count BY <1>3, <2>1, <5>2
        <5> QED BY <2>2, <2>4, <3>1, <4>1, <4>4, <5>1, <5>2, <5>3
      <4> QED BY <4>3, <4>4
    <3>2. CASE ~ bySector
      <4>1. part = 0 /\ offset' = offset + count BY <1>1, <1>3, <2>1, <3>2 DEF PlaceInv, NextOffset
      <4>2. bySector' = FALSE BY <1>3, <3>2, Zenon
      <4>3. part' = 0 BY <1>3, <4>2
      <4>4. offset + count <= size BY <2>1, <3>2
      <4>5. ~ bySector' /\ bySector' \in BOOLEAN BY <4>2
      <4>6. offset' \in Nat /\ offset' + part' = offset + part + count /\ offset' <= size
        BY <2>1, <2>2, <4>1, <4>3, <4>4
      <4> QED BY <4>3, <4>5, <4>6
    <3> QED BY <3>1, <3>2
  <2>6. /\ stage' \in {"read", "closing", "done"}
        /\ stage' = "read" => offset' < size
        /\ stage' # "read" => ~ offset' < size
    BY <1>3
  <2>7. ChunkEnd' = IF offset' = offset THEN ChunkEnd ELSE ChunkEnd' BY DEF ChunkEnd
  <2>8. PlaceInv'
    <3>1. Len(image') = offset' + part' BY <1>1, <2>2, <2>3, <2>5 DEF PlaceInv
    <3>2. bySector' => tool = "dump" /\ offset' < size /\ offset' + part' < ChunkEnd'
      BY <1>1, <2>5, <2>7 DEF PlaceInv
    <3> QED BY <1>1, <2>3, <2>5, <2>6, <3>1, <3>2 DEF PlaceInv
  <2>9. StartInv'
    <3>1. stage' # "read" => offset' = size BY <2>2, <2>5, <2>6
    <3>2. stage' # "read" => ~ bySector' BY <1>1, <2>2, <2>5, <3>1 DEF PlaceInv
    <3> QED BY <1>1, <2>5, <2>6, <3>1, <3>2 DEF StartInv
  <2>10. CommandInv' BY <1>3 DEF CommandInv
  <2>11. MapInv'
    <3>1. DOMAIN image = 1 .. Len(image) /\ DOMAIN image' = 1 .. Len(image) + count /\ Len(image) \in Nat
      BY <2>1, <2>2, <2>3
    <3>2. CASE stage = "read"
      <4>1. \A n \in 1 .. count : image'[Len(image) + n] = Len(image) + n
        <5>1. DOMAIN sectors = 1 .. count BY <2>1
        <5>2. \A n \in 1 .. count : sectors[n] = Len(image) + n BY <3>2, <5>1
        <5> QED BY <2>3, <5>2
      <4>2. badmap \subseteq DOMAIN image BY <1>1, <3>2 DEF MapInv
      <4>3. ASSUME NEW n \in DOMAIN image'
            PROVE  image'[n] = n \/ (image'[n] = Zeros /\ n \in badmap)
        <5>1. CASE n \in DOMAIN image BY <1>1, <2>3, <3>1, <5>1 DEF MapInv
        <5>2. CASE n \notin DOMAIN image
          <6>1. n - Len(image) \in 1 .. count BY <3>1, <5>2
          <6>2. image'[Len(image) + (n - Len(image))] = Len(image) + (n - Len(image))
            BY <4>1, <6>1
          <6> QED BY <3>1, <6>2
        <5> QED BY <5>1, <5>2
      <4>4. ASSUME NEW n \in badmap PROVE n \in DOMAIN image' /\ image'[n] = Zeros
        <5>1. n \in DOMAIN image /\ n # Len(image) + 1 BY <3>1, <4>2
        <5>2. image[n] = Zeros BY <1>1, <5>1 DEF MapInv
        <5> QED BY <2>3, <3>1, <5>1, <5>2
      <4> QED BY <1>3, <2>6, <4>3, <4>4 DEF MapInv
    <3>3. CASE stage = "zero"
      <4>1. count = 1 /\ image'[Len(image) + 1] = Zeros /\ Len(image) + 1 \in badmap
        BY <1>1, <2>1, <2>3, <3>3 DEF MapInv
      <4>2. ASSUME NEW n \in DOMAIN image'
            PROVE  image'[n] = n \/ (image'[n] = Zeros /\ n \in badmap)
        <5>1. CASE n \in DOMAIN image BY <1>1, <2>3, <3>1, <5>1 DEF MapInv
        <5>2. CASE n = Len(image) + 1 BY <4>1, <5>2
        <5> QED BY <3>1, <4>1, <5>1, <5>2
      <4>3. ASSUME NEW n \in badmap PROVE n \in DOMAIN image' /\ image'[n] = Zeros
        <5>1. CASE n = Len(image) + 1 BY <3>1, <4>1, <5>1
        <5>2. CASE n \in DOMAIN image /\ image[n] = Zeros BY <2>3, <3>1, <5>2
        <5> QED BY <1>1, <5>1, <5>2 DEF MapInv
      <4> QED BY <1>3, <2>6, <4>2, <4>3 DEF MapInv
    <3> QED BY <3>2, <3>3
  <2> QED BY <2>8, <2>9, <2>10, <2>11 DEF SonyIInv
<1>4. stage = "zero" => tool # "copy" BY <1>1 DEF PlaceInv
<1> QED BY <1>2, <1>3, <1>4 DEF Keep

\* What a read of the wanted range returns is what follows the output.
LEMMA ContentFollows ==
  ASSUME SonyIInv, asked = Wanted, stage = "read", NEW count \in 1 .. Wanted.count
  PROVE  /\ SubSeq(Content(asked), 1, count) \in Seq(Nat)
         /\ Len(SubSeq(Content(asked), 1, count)) = count
         /\ \A n \in 1 .. count : SubSeq(Content(asked), 1, count)[n] = Len(image) + n
         /\ bySector => count = 1
         /\ ~ bySector => offset + count <= size
<1>1. PlaceInv BY DEF SonyIInv
<1>2. offset \in Nat /\ part \in Nat /\ size \in Nat /\ offset < size BY <1>1 DEF PlaceInv
<1>3. ChunkEnd \in Nat /\ offset < ChunkEnd /\ ChunkEnd <= size
  BY <1>2 DEF ChunkEnd, Least, ChunkSectors
<1>4. Wanted.count \in Nat \ {0} /\ Wanted.from = offset + part
  BY <1>2, <1>3 DEF Wanted
<1>5. Len(image) = offset + part BY <1>1 DEF PlaceInv
<1>6. Content(asked) \in [1 .. Wanted.count -> Nat] /\ \A n \in 1 .. Wanted.count : Content(asked)[n] = Len(image) + n
  BY <1>2, <1>4, <1>5 DEF Content
<1>7. Content(asked) \in Seq(Nat) /\ Len(Content(asked)) = Wanted.count
  <2>1. PICK length \in Nat : length = Wanted.count BY <1>4
  <2>2. Content(asked) \in [1 .. length -> Nat] BY <1>6, <2>1
  <2> QED BY <2>1, <2>2
<1>8. bySector => count = 1 BY DEF Wanted
<1>9. ~ bySector => offset + count <= size BY <1>2, <1>3 DEF Wanted
<1> QED BY <1>6, <1>7, <1>8, <1>9

\* Every step keeps the invariant.
LEMMA SonyNextInv == SonyIInv /\ [SonyNext]_sonyVars => SonyIInv'
<1> SUFFICES ASSUME SonyIInv, [SonyNext]_sonyVars PROVE SonyIInv' OBVIOUS
<1>1. PlaceInv /\ StartInv /\ CommandInv /\ MapInv BY DEF SonyIInv
<1> USE DEF readVars, fileVars
\* Steps that leave place and files alone.
<1>2. ASSUME UNCHANGED <<tool, offset, part, image, badmap>>,
             UNCHANGED size, UNCHANGED bySector,
             stage' \in {"read", "reopen", "map"} => stage \in {"read", "reopen", "create"},
             stage' \in {"read", "reopen", "map"} => size # 0,
             stage' = "map" => bySector,
             stage' \in {"closing", "done"} =>
               stage = "closing" \/ (stage = "create" /\ size = 0),
             stage' \notin {"connect", "zero"},
             stage' # "failed" => stage \notin {"connect", "zero", "failed"},
             stage' = "create" => stage = "create"
      PROVE  PlaceInv' /\ StartInv' /\ MapInv'
  <2>1. stage \in {"read", "reopen"} => offset < size BY <1>1 DEF PlaceInv
  <2>2. stage = "create" => offset = 0 BY <1>1 DEF StartInv
  <2>3. stage' \in {"read", "reopen", "map"} => offset < size BY <1>1, <1>2, <2>1, <2>2 DEF PlaceInv
  <2>4. PlaceInv' BY <1>1, <1>2, <2>3 DEF PlaceInv, ChunkEnd
  <2>5. StartInv' BY <1>1, <1>2 DEF StartInv
  <2>6. MapInv' BY <1>1, <1>2 DEF MapInv
  <2> QED BY <2>4, <2>5, <2>6
<1>3. CASE UNCHANGED sonyVars
  BY <1>1, <1>3 DEF sonyVars, SonyIInv, PlaceInv, StartInv, CommandInv, MapInv, ChunkEnd, Wanted
<1>4. CASE Connect
  <2>1. /\ UNCHANGED <<tool, asked, offset, part, bySector, command, image, badmap>>
        /\ stage = "connect"
        /\ stage' \in {"connect", "create", "failed", "closing failed"}
        /\ \/ size' \in ReportedSizes /\ (tool = "dump" => size' # 0) /\ stage' = "create"
           \/ size' = size /\ (stage' = "connect" \/ tool # "dump" \/ stage' = "failed") /\ stage' # "create"
    BY <1>4 DEF Connect
  <2>2. offset = 0 /\ part = 0 /\ size = 0 /\ command = "send" /\ badmap \subseteq DOMAIN image
    BY <1>1, <2>1 DEF StartInv, CommandInv, MapInv
  <2>3. ~ bySector BY <1>1, <2>2 DEF PlaceInv
  <2>4. PlaceInv'
    <3>1. bySector' = FALSE /\ size' \in {0, Sectors} /\ offset' = 0 /\ part' = 0
      BY <1>1, <2>1, <2>2, <2>3 DEF PlaceInv, ReportedSizes
    <3>2. image' = image /\ tool' = tool BY <2>1
    <3>3. image \in Seq(Nat) /\ Len(image) = 0 /\ tool \in {"get", "dump", "copy"}
      BY <1>1, <2>2 DEF PlaceInv
    <3>4. stage' \notin {"read", "reopen", "map", "zero"} BY <2>1
    <3>5. ~ bySector' /\ bySector' \in BOOLEAN BY <3>1
    <3>6. offset' <= size' /\ Len(image') = offset' + part' /\ image' \in Seq(Nat)
      BY <3>1, <3>2, <3>3
    <3> QED BY <3>1, <3>2, <3>3, <3>4, <3>5, <3>6 DEF PlaceInv
  <2>5. StartInv' BY <2>1, <2>2 DEF StartInv, ReportedSizes
  <2>6. CommandInv' BY <2>1, <2>2 DEF CommandInv
  <2>7. MapInv' BY <1>1, <2>1, <2>2 DEF MapInv
  <2> QED BY <2>4, <2>5, <2>6, <2>7 DEF SonyIInv
<1>5. CASE Create
  <2>1. /\ UNCHANGED <<tool, size, asked, offset, part, bySector, command, image, badmap>>
        /\ stage = "create"
        /\ \/ size # 0 /\ stage' \in {"read", "failed"}
           \/ size = 0 /\ stage' \in {"closing", "done", "failed"}
    BY <1>5 DEF Create
  <2>2. PlaceInv' /\ StartInv' /\ MapInv' BY <1>2, <2>1
  <2>3. CommandInv' BY <1>1, <2>1 DEF CommandInv
  <2> QED BY <2>2, <2>3 DEF SonyIInv
<1>6. CASE Reopen
  <2>1. /\ UNCHANGED <<tool, size, offset, part, command, image, badmap>>
        /\ stage = "reopen"
        /\ \/ stage' \in {"read", "reopen", "failed"} /\ UNCHANGED bySector
           \/ tool = "dump" /\ ~ bySector /\ bySector' = TRUE /\ stage' = "read"
           \/ bySector /\ stage' = "map" /\ UNCHANGED bySector
    BY <1>6 DEF Reopen
  <2>2. command = "send" /\ offset < size BY <1>1, <2>1 DEF CommandInv, PlaceInv
  <2>3. CommandInv' BY <2>1, <2>2 DEF CommandInv
  <2>4. CASE UNCHANGED bySector
    <3>1. size # 0 BY <1>1, <2>2 DEF PlaceInv
    <3>2. PlaceInv' /\ StartInv' /\ MapInv' BY <1>2, <2>1, <2>4, <3>1
    <3> QED BY <2>3, <3>2 DEF SonyIInv
  <2>5. CASE tool = "dump" /\ ~ bySector /\ bySector' = TRUE /\ stage' = "read"
    <3>1. offset + part < ChunkEnd
      BY <1>1, <2>2, <2>5 DEF PlaceInv, ChunkEnd, Least, ChunkSectors
    <3>2. PlaceInv' BY <1>1, <2>1, <2>2, <2>5, <3>1 DEF PlaceInv, ChunkEnd
    <3>3. StartInv' /\ MapInv' BY <1>1, <2>1, <2>5 DEF StartInv, MapInv
    <3> QED BY <2>3, <3>2, <3>3 DEF SonyIInv
  <2> QED BY <2>1, <2>4, <2>5
<1>7. CASE SendRead
  <2>1. CASE /\ asked' = Wanted /\ command' \in {"data", "status"}
             /\ UNCHANGED <<tool, size, stage, offset, part, bySector, image, badmap>>
    <3>1. stage = "read" BY <1>7 DEF SendRead
    <3>2. PlaceInv' /\ StartInv' /\ MapInv' BY <1>1, <2>1, <3>1 DEF PlaceInv, StartInv, MapInv, ChunkEnd
    <3>3. CommandInv' BY <2>1, <3>1 DEF CommandInv, Wanted, ChunkEnd
    <3> QED BY <3>2, <3>3 DEF SonyIInv
  <2> QED BY <1>7, <2>1, FailedReadKeeps DEF SendRead
<1>8. CASE ReadStatus
  <2>1. CASE /\ command' = "data"
             /\ UNCHANGED <<tool, size, asked, stage, offset, part, bySector, image, badmap>>
    <3>1. stage = "read" /\ command = "status" BY <1>8 DEF ReadStatus
    <3>2. PlaceInv' /\ StartInv' /\ MapInv' BY <1>1, <2>1, <3>1 DEF PlaceInv, StartInv, MapInv, ChunkEnd
    <3>3. CommandInv' BY <1>1, <2>1, <3>1 DEF CommandInv, Wanted, ChunkEnd
    <3> QED BY <3>2, <3>3 DEF SonyIInv
  <2> QED BY <1>8, <2>1, FailedReadKeeps DEF ReadStatus
<1>9. CASE ReadSectors
  <2>1. stage = "read" /\ asked = Wanted /\ offset < size /\ UNCHANGED <<tool, size, asked>>
    BY <1>1, <1>9 DEF ReadSectors, CommandInv, PlaceInv
  <2>2. ASSUME NEW count \in 1 .. Wanted.count, Keep(SubSeq(Content(asked), 1, count))
        PROVE  SonyIInv'
    <3> DEFINE sectors == SubSeq(Content(asked), 1, count)
    <3>1. /\ sectors \in Seq(Nat)
          /\ Len(sectors) = count
          /\ \A n \in 1 .. count : sectors[n] = Len(image) + n
          /\ bySector => count = 1
          /\ ~ bySector => offset + count <= size
      BY <2>1, ContentFollows
    <3>2. Keep(sectors) BY <2>2
    <3> HIDE DEF sectors
    <3>3. Len(sectors) # 0 /\ DOMAIN sectors = 1 .. count BY <3>1
    <3> QED BY <2>1, <3>1, <3>2, <3>3, KeepKeeps
  <2> QED BY <1>9, <2>1, <2>2, FailedReadKeeps DEF ReadSectors
<1>10. CASE MapSector
  <2>1. /\ UNCHANGED <<tool, size, asked, offset, part, bySector, command, image>>
        /\ stage = "map"
        /\ \/ badmap' = badmap \union {Wanted.from + 1} /\ stage' = "zero"
           \/ stage' = "failed" /\ UNCHANGED badmap
    BY <1>10 DEF MapSector
  <2>2. Wanted.from = Len(image) BY <1>1 DEF PlaceInv, Wanted
  <2>3. command = "send" BY <1>1, <2>1 DEF CommandInv
  <2>4. PlaceInv' BY <1>1, <2>1 DEF PlaceInv, ChunkEnd
  <2>5. StartInv' BY <1>1, <2>1 DEF StartInv
  <2>6. CommandInv' BY <2>1, <2>3 DEF CommandInv
  <2>7. MapInv' BY <1>1, <2>1, <2>2 DEF MapInv
  <2> QED BY <2>4, <2>5, <2>6, <2>7 DEF SonyIInv
<1>11. CASE ZeroSector
  <2>1. stage = "zero" /\ offset < size /\ Keep(<<Zeros>>) /\ UNCHANGED <<tool, size, asked>>
    BY <1>1, <1>11 DEF ZeroSector, PlaceInv
  <2>2. offset \in Nat /\ size \in Nat BY <1>1 DEF PlaceInv
  <2> DEFINE sectors == <<Zeros>>
  <2>3. sectors \in Seq(Nat) /\ Len(sectors) = 1 /\ sectors[1] = Zeros BY DEF Zeros
  <2>4. Keep(sectors) BY <2>1
  <2> HIDE DEF sectors
  <2>5. /\ Len(sectors) # 0
        /\ bySector => Len(sectors) = 1
        /\ ~ bySector => offset + Len(sectors) <= size
        /\ stage \in {"read", "zero"}
        /\ stage = "read" => \A n \in DOMAIN sectors : sectors[n] = Len(image) + n
        /\ stage = "zero" => Len(sectors) = 1 /\ sectors[1] = Zeros
    BY <2>1, <2>2, <2>3
  <2>6. sectors \in Seq(Nat) /\ offset < size /\ UNCHANGED <<tool, size, asked>> BY <2>1, <2>3
  <2> QED BY <2>4, <2>5, <2>6, KeepKeeps, Zenon
<1>12. CASE Close
  <2>1. /\ UNCHANGED <<tool, size, asked, offset, part, bySector, command, image, badmap>>
        /\ \/ stage = "closing" /\ stage' \in {"done", "failed"}
           \/ stage = "closing failed" /\ stage' = "failed"
    BY <1>12 DEF Close
  <2>2. PlaceInv' /\ StartInv' /\ MapInv'
    <3>1. CASE stage = "closing" /\ stage' = "done" BY <1>2, <2>1, <3>1
    <3>2. CASE stage' = "failed" BY <1>2, <2>1, <3>2
    <3> QED BY <2>1, <3>1, <3>2
  <2>3. CommandInv' BY <1>1, <2>1 DEF CommandInv, Wanted, ChunkEnd
  <2> QED BY <2>2, <2>3 DEF SonyIInv
<1> QED BY <1>3, <1>4, <1>5, <1>6, <1>7, <1>8, <1>9, <1>10, <1>11, <1>12 DEF SonyNext

-----------------------------------------------------------------------------

\* The invariant the theorem below follows from.
THEOREM SonyInductive == SonySpec => []SonyIInv
<1> QED BY SonyInitInv, SonyNextInv, PTL DEF SonySpec

\* Whenever the tool stops, the output holds the sectors of the file, or zeros
\* the map lists, and a tool that ends well has copied what it was told of.
THEOREM Accounted == SonySpec => []ImageIsAccounted
<1>1. SonyIInv => ImageIsAccounted
  BY DEF SonyIInv, PlaceInv, StartInv, MapInv, ImageIsAccounted
<1> QED BY SonyInductive, <1>1, PTL

=============================================================================
