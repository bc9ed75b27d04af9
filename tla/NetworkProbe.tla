---------------------------- MODULE NetworkProbe ----------------------------
(***************************************************************************)
(* The diagnostic HTTPS probe of the PRS-T1 agent (network.rs): what its   *)
(* options mean, which failure of the network becomes which verdict, and   *)
(* what its two diagnostic modes (a wrong host name, an injected loss of   *)
(* the network) make of it.  The probe keeps no state: a verdict is an     *)
(* operator of the arguments and of what the network does.                 *)
(***************************************************************************)
EXTENDS Naturals, Sequences

Faults == {"dns", "tls", "response"}
NoFault == "none"

\* An argument list: the endpoint, if there is one, and its options.
Endpoints == {"missing", "good", "unparsable", "plain_http", "no_host", "credentials", "query"}
Options == {"--invalid-hostname", "--inject dns", "--inject tls", "--inject response",
            "--inject unknown", "--inject", "other"}

FaultOf(option) ==
  CASE option = "--inject dns" -> "dns"
    [] option = "--inject tls" -> "tls"
    [] option = "--inject response" -> "response"
    [] OTHER -> NoFault

Failure(stage, kind) == [ok |-> FALSE, stage |-> stage, kind |-> kind]
Success == [ok |-> TRUE, stage |-> "done", kind |-> "success"]

\* The options are read in order and the endpoint is looked at last.
Usable(options) ==
  LET chosen == SelectSeq(options, LAMBDA o : FaultOf(o) # NoFault) IN
    /\ \A i \in DOMAIN options :
         options[i] = "--invalid-hostname" \/ FaultOf(options[i]) # NoFault
    /\ Len(chosen) <= 1
    /\ chosen = <<>> \/ \A i \in DOMAIN options : options[i] # "--invalid-hostname"

Parse(endpoint, options) ==
  IF endpoint = "missing" \/ ~Usable(options) THEN Failure("arguments", "usage")
  ELSE IF endpoint # "good" THEN Failure("configuration", "invalid_input")
  ELSE [ok |-> TRUE,
        invalid_hostname |-> \E i \in DOMAIN options : options[i] = "--invalid-hostname",
        fault |-> IF \E i \in DOMAIN options : FaultOf(options[i]) # NoFault
                  THEN FaultOf(options[CHOOSE i \in DOMAIN options : FaultOf(options[i]) # NoFault])
                  ELSE NoFault]

\* What the network has in store for one probe.
Networks ==
  [tls : {"ready", "no_entropy"},
   dns : {"addresses", "none", "error", "timeout"},
   link : {"up", "refused", "timeout", "broken"},
   certificate : {"valid", "other_name", "untrusted"},
   status : {"2xx", "other"},
   body : {"small", "declared_long", "long", "cut", "slow"}]

Resolve(network) ==
  CASE network.dns = "addresses" -> Success
    [] network.dns = "timeout" -> Failure("dns", "resolution_timeout")
    [] OTHER -> Failure("dns", "resolution_failed")

\* The verifier checks the chain before the name.  The negative test expects
\* a name no certificate is issued for; an injected fault fails every chain.
Verify(config, network) ==
  CASE config.fault = "tls" -> "general"
    [] network.certificate = "untrusted" -> "chain"
    [] config.invalid_hostname \/ network.certificate = "other_name" -> "name"
    [] OTHER -> "passed"

\* ProbeFailure::request_for and ::request, the order of its classification.
Request(config, network) ==
  LET tls == Verify(config, network) IN
    CASE network.link = "timeout" -> Failure("https", "timeout")
      [] network.link = "refused" -> Failure("https", "connect_failed")
      [] tls = "general" -> Failure("tls", "injected_tls_network_loss")
      [] tls = "name" -> Failure("tls", "tls_hostname_validation_failed")
      [] tls = "chain" -> Failure("https", "connect_failed")
      [] network.link = "broken" -> Failure("https", "request_failed")
      [] OTHER -> Success

\* A declared length is refused before the body is read, any other one while
\* it grows; the status is looked at when the whole body has been read.
ReadResponse(config, network) ==
  CASE network.body = "declared_long" -> Failure("response", "response_failed")
    [] config.fault = "response" -> Failure("response", "injected_response_network_loss")
    [] network.body = "slow" -> Failure("response", "timeout")
    [] network.body \in {"long", "cut"} -> Failure("response", "response_failed")
    [] network.status # "2xx" -> Failure("response", "response_failed")
    [] OTHER -> Success

Probe(config, network) ==
  LET resolved == Resolve(network)
      requested == Request(config, network)
  IN  IF config.fault = "dns" THEN Failure("dns", "injected_dns_network_loss")
      ELSE IF network.tls # "ready" THEN Failure("tls", "entropy_unavailable")
      ELSE IF ~resolved.ok THEN resolved
      ELSE IF ~requested.ok THEN requested
      ELSE ReadResponse(config, network)

\* run: the negative test passes on the one failure it is after.
Run(endpoint, options, network) ==
  LET config == Parse(endpoint, options) IN
    IF ~config.ok THEN config
    ELSE LET verdict == Probe(config, network) IN
           IF config.invalid_hostname /\ verdict.kind = "tls_hostname_validation_failed"
           THEN Success ELSE verdict

-----------------------------------------------------------------------------
(* Properties.                                                             *)

Arguments == Endpoints \X UNION {[1..n -> Options] : n \in 0..2}

\* A verdict means what its mode is for: the probe succeeds exactly when it
\* reached a trusted server of that name which gave a complete small 2xx
\* answer, the negative test exactly when a trusted chain was refused for
\* its name alone, and no probe that injects a fault succeeds.
VerdictIsSound(network) ==
  \A args \in Arguments :
    LET options == args[2]
        negative == "--invalid-hostname" \in {options[i] : i \in DOMAIN options}
        reachable == network.tls = "ready" /\ network.dns = "addresses"
        answers == network.link = "up" /\ network.status = "2xx" /\ network.body = "small"
    IN  Run(args[1], options, network).ok <=>
          /\ args[1] = "good" /\ reachable
          /\ \A i \in DOMAIN options : options[i] = "--invalid-hostname"
          /\ IF negative
             THEN network.certificate # "untrusted" /\ network.link \notin {"refused", "timeout"}
             ELSE network.certificate = "valid" /\ answers

=============================================================================
