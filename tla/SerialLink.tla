------------------------------ MODULE SerialLink ----------------------------
(***************************************************************************)
(* The serial line between prs350-devctl (serial.rs) and the development   *)
(* service of the PRS-350 (prs350-agent: service.rs, service_protocol.rs,  *)
(* transfer.rs), with the requests of prs350-wire.                         *)
(*                                                                         *)
(* A client is one call of the tool; it may end at any point, and the next *)
(* one finds what is still on the way.  A payload is a row of parts of     *)
(* half a chunk, named by the client it belongs to, and a checksum names   *)
(* the payload.  The terminal of the service hands out lines, or, during   *)
(* an upload, whatever has arrived within a second.                        *)
(***************************************************************************)
EXTENDS Naturals, Sequences, FiniteSets

CONSTANT Clients \* the number of calls of the tool

ASSUME ClientsAssumption == Clients \in Nat

VARIABLES
  downlink, uplink, \* what is on the way to the service and to the host
  tty,        \* of the service: "lines" or "raw"
  service,    \* "reading", "receiving", "restoring", "running", "stopped"
  upload,     \* the request that is served
  received,   \* its payload so far
  complete,   \* receive_payload_from has succeeded
  ran,        \* the payloads that were run
  client,     \* the number of the call
  host,       \* what the call waits for: "none", "ready", "ack", "result", "data"
  request,    \* of the call
  sent        \* the parts of the payload it has sent

serviceVars == <<tty, service, upload, received, complete, ran>>
hostVars == <<client, host, request, sent>>
serialVars == <<downlink, uplink, serviceVars, hostVars>>

ChunkParts == 2
Kinds == {"EXEC", "SHELL"}
Requests == [client : 1 .. Clients, kind : Kinds, parts : {1, 3}]
            \union [client : 1 .. Clients, kind : {"PING", "CAPTURE"}, parts : {0}]
NoCall == [client |-> 0, kind |-> "PING", parts |-> 0]

\* What travels down: request lines and parts of payloads.
Line(of) == [what |-> "line", of |-> of, part |-> 0]
Part(of, part) == [what |-> "part", of |-> of, part |-> part]
PartsOf(of, first, last) == [n \in 1 .. last - first + 1 |-> Part(of, first + n - 1)]
Payload(of) == PartsOf(of, 1, of.parts)

\* What travels up: lines, and the data that follows one.
Answer(word, kind, bytes) == [word |-> word, kind |-> kind, bytes |-> bytes]
Data == Answer("data", "", 0)
Refusal == Answer("ERR", "", 0)

Lesser(m, n) == IF m < n THEN m ELSE n
ChunkAt(of, done) == Lesser(ChunkParts, of.parts - done)

SerialInit ==
  /\ downlink = <<>> /\ uplink = <<>>
  /\ tty = "lines" /\ service = "reading" /\ upload = NoCall /\ received = <<>>
  /\ complete = FALSE /\ ran = {}
  /\ client = 0 /\ host = "none" /\ request = NoCall /\ sent = 0

-----------------------------------------------------------------------------
(* The service.                                                            *)

Reply(answer) == uplink' = Append(uplink, answer)
ReplyWithData(answer) == uplink' = uplink \o <<answer, Data>>

\* The parts of a line: a binary may contain a newline, a command does not;
\* a request ends with one.
MayEndLine(n) ==
  /\ downlink[n].what = "line" \/ downlink[n].of.kind = "EXEC"
  /\ \A before \in 1 .. n - 1 : downlink[before].what = "part"

\* read_protocol_line gives up on a line of more than MAX_LINE_LEN bytes,
\* which ends the service.
Overlong(n) == n > ChunkParts

\* decode_request and the answers that need no payload.  A line that is not a
\* request alone is malformed.
Serve(line) ==
  \/ /\ line.what = "line" /\ line.of.kind = "PING"
     /\ Reply(Answer("OK", "PING", 0)) /\ UNCHANGED serviceVars
  \/ /\ line.what = "line" /\ line.of.kind = "CAPTURE"
     /\ ReplyWithData(Answer("OK", "CAPTURE", 0)) \/ Reply(Refusal)
     /\ UNCHANGED serviceVars
  \/ /\ line.what = "line" /\ line.of.kind \in Kinds
     /\ tty' = "raw" /\ service' = "receiving" /\ upload' = line.of /\ received' = <<>>
     /\ complete' = FALSE
     /\ Reply(Answer("READY", line.of.kind, 0)) /\ UNCHANGED ran
  \* stty fails
  \/ /\ line.what = "line" /\ line.of.kind \in Kinds
     /\ Reply(Refusal) /\ UNCHANGED serviceVars

\* run_serial_service_with: a line, or more of a line than is allowed.
ReadRequest ==
  /\ service = "reading"
  /\ \E n \in DOMAIN downlink :
       /\ MayEndLine(n)
       /\ downlink' = SubSeq(downlink, n + 1, Len(downlink))
       /\ \/ Overlong(n) /\ service' = "stopped"
             /\ UNCHANGED <<uplink, tty, upload, received, complete, ran>>
          \/ ~Overlong(n) /\ n = 1 /\ Serve(Head(downlink))
          \/ ~Overlong(n) /\ (n > 1 \/ Head(downlink).what = "part")
             /\ Reply(Refusal) /\ UNCHANGED serviceVars
  /\ UNCHANGED hostVars

\* A terminal that was left raw returns nothing after a second: what has
\* arrived is taken for a line, and nothing for the end of the input.
ReadNothing ==
  /\ service = "reading" /\ tty = "raw"
  /\ \A n \in DOMAIN downlink : ~MayEndLine(n) \/ downlink[n].what = "part"
  /\ downlink' = <<>>
  /\ \/ /\ downlink = <<>> \/ Overlong(Len(downlink))
        /\ service' = "stopped"
        /\ UNCHANGED <<uplink, tty, upload, received, complete, ran>>
     \/ downlink # <<>> /\ ~Overlong(Len(downlink)) /\ Reply(Refusal) /\ UNCHANGED serviceVars
  /\ UNCHANGED hostVars

\* Mutant: the checksum is not compared.
FaultyChecked == Len(received') = upload.parts

\* receive_payload_from: the checksum of what has been received.
Checked == received' = Payload(upload)

\* receive_payload_from: a chunk is read and acknowledged.
ReceiveChunk ==
  /\ service = "receiving"
  /\ \E parts \in {ChunkAt(upload, Len(received))} :
       /\ Len(downlink) >= parts
       /\ received' = received \o SubSeq(downlink, 1, parts)
       /\ downlink' = SubSeq(downlink, parts + 1, Len(downlink))
  /\ Reply(Answer("ACK", upload.kind, Len(received')))
  /\ IF Len(received') < upload.parts THEN UNCHANGED <<service, complete>>
     ELSE service' = "restoring" /\ complete' = Checked
  /\ UNCHANGED <<tty, upload, ran, hostVars>>

\* Mutant: the terminal waits for the first byte without a limit.
FaultyMayGiveUp == downlink # <<>>

\* A second without a byte ends the wait for a chunk.
MayGiveUp == TRUE

\* What has arrived of the chunk is lost.
GiveUp ==
  /\ service = "receiving" /\ MayGiveUp
  /\ Len(downlink) < ChunkAt(upload, Len(received))
  /\ downlink' = <<>> /\ service' = "restoring"
  /\ UNCHANGED <<uplink, tty, upload, received, complete, ran, hostVars>>

\* set_serial_mode(false), which may fail; then the binary is started, or the
\* command, which is waited for.
Restore ==
  /\ service = "restoring"
  /\ \/ /\ tty' = "lines"
        /\ \/ complete /\ upload.kind = "SHELL" /\ service' = "running" /\ UNCHANGED <<uplink, ran>>
           \/ /\ complete /\ upload.kind = "EXEC" /\ service' = "reading"
              /\ ran' = ran \union {received} /\ Reply(Answer("OK", "EXEC", 0))
           \* It cannot be started.
           \/ complete /\ service' = "reading" /\ Reply(Refusal) /\ UNCHANGED ran
           \/ ~complete /\ service' = "reading" /\ Reply(Refusal) /\ UNCHANGED ran
     \/ service' = "reading" /\ Reply(Refusal) /\ UNCHANGED <<tty, ran>>
  /\ UNCHANGED <<downlink, upload, received, complete, hostVars>>

\* The command has ended; its output follows the answer.
CommandEnds ==
  /\ service = "running" /\ service' = "reading"
  /\ ran' = ran \union {received} /\ ReplyWithData(Answer("OK", "SHELL", 0))
  /\ UNCHANGED <<downlink, tty, upload, received, complete, hostVars>>

ServiceStep == ReadRequest \/ ReadNothing \/ ReceiveChunk \/ GiveUp \/ Restore \/ CommandEnds

-----------------------------------------------------------------------------
(* The host.                                                               *)

Send(parts) == downlink' = downlink \o parts

\* SerialClient::open and the request.  The driver may drop the answers that
\* no call has read.
OpenLine ==
  /\ host = "none" /\ client < Clients /\ client' = client + 1 /\ sent' = 0
  /\ \E of \in {r \in Requests : r.client = client'} :
       /\ request' = of /\ Send(<<Line(of)>>)
       /\ host' = IF of.kind \in Kinds THEN "ready" ELSE "result"
  /\ uplink' \in {uplink, <<>>}
  /\ UNCHANGED serviceVars

\* The next chunk of write_payload.
SendChunk ==
  /\ sent' = sent + ChunkAt(request, sent)
  /\ Send(PartsOf(request, sent + 1, sent'))
  /\ host' = "ack"

\* The answer each stage waits for; write_payload counts the bytes.
Expected ==
  CASE host = "ready" -> Answer("READY", request.kind, 0)
    [] host = "ack" -> Answer("ACK", request.kind, sent)
    [] OTHER -> Answer("OK", request.kind, 0)

\* read_response_line: any other answer ends the call.
ReadAnswer ==
  /\ host \notin {"none", "data"} /\ uplink # <<>> /\ uplink' = Tail(uplink)
  /\ \/ Head(uplink) = Expected /\ host \in {"ready", "ack"} /\ sent < request.parts /\ SendChunk
     \/ /\ Head(uplink) = Expected /\ host = "ack" /\ sent = request.parts
        /\ host' = "result" /\ UNCHANGED <<downlink, sent>>
     \/ /\ Head(uplink) = Expected /\ host = "result"
        /\ host' = IF request.kind \in {"SHELL", "CAPTURE"} THEN "data" ELSE "none"
        /\ UNCHANGED <<downlink, sent>>
     \/ Head(uplink) # Expected /\ host' = "none" /\ UNCHANGED <<downlink, sent>>
  /\ UNCHANGED <<client, request, serviceVars>>

\* read_exact_bytes takes whatever arrives.
ReadData ==
  /\ host = "data" /\ uplink # <<>> /\ uplink' = Tail(uplink) /\ host' = "none"
  /\ UNCHANGED <<downlink, client, request, sent, serviceVars>>

\* The deadline of read_line or read_exact_bytes passes, or the call is interrupted.
Abandon ==
  /\ host # "none" /\ host' = "none"
  /\ UNCHANGED <<downlink, uplink, client, request, sent, serviceVars>>

SerialNext == ServiceStep \/ OpenLine \/ ReadAnswer \/ ReadData \/ Abandon

\* The service is a process of its own, and a command ends.
SerialFairness == WF_serialVars(ServiceStep)

SerialSpec == SerialInit /\ [][SerialNext]_serialVars /\ SerialFairness

-----------------------------------------------------------------------------
(* Properties.                                                             *)

SerialTypeOK ==
  /\ tty \in {"lines", "raw"} /\ complete \in BOOLEAN
  /\ service \in {"reading", "receiving", "restoring", "running", "stopped"}
  /\ upload \in Requests \union {NoCall} /\ request \in Requests \union {NoCall}
  /\ host \in {"none", "ready", "ack", "result", "data"}
  /\ client \in 0 .. Clients /\ sent \in 0 .. 3
  /\ service \in {"receiving", "restoring"} => tty = "raw"

\* The service runs nothing but whole payloads of one call that asked for it,
\* however calls end in the middle of an upload and the lines and chunks of
\* the next one get into it.
WholePayloadsRun == \A payload \in ran : \E of \in Requests : payload = Payload(of)

\* A call that ends in the middle of an upload does not leave the service in
\* it: its terminal hands out lines again, or the service has stopped.
UploadEnds == (tty = "raw") ~> (tty = "lines" \/ service = "stopped")

=============================================================================
