------------------------------ MODULE SerialWire ----------------------------
(***************************************************************************)
(* The lines of the serial protocol (prs350-wire): what encode_request and *)
(* encode_response write and decode_request and decode_response read.      *)
(*                                                                         *)
(* A line is its words and its length; a word is its parts, separated by   *)
(* "=", the last of which may be a number.  A text is part of a line.      *)
(***************************************************************************)
EXTENDS Integers, Sequences

MAX_LINE_LEN == 1024
MAX_EXEC_BYTES == 1024 * 1024
MAX_SHELL_BYTES == 4096

Bad == [ok |-> FALSE]
Good(value) == [ok |-> TRUE, value |-> value]
NoNumber == -1
Bare(part) == [parts |-> <<part>>, number |-> NoNumber]
Number(n) == [parts |-> <<>>, number |-> n]
Field(key, word) == [word EXCEPT !.parts = <<key>> \o @]
HasKey(word, key) == Len(word.parts) > 0 /\ word.parts[1] = key /\ word # Bare(key)
FieldValue(word) == [word EXCEPT !.parts = Tail(@)]
Text(words, length, newline) == [words |-> words, length |-> length, newline |-> newline]
WireLine(words, length) == [words |-> words, length |-> length]

-----------------------------------------------------------------------------
(* Requests.                                                               *)

PlainRequests == {"PING", "INFO", "STATUS", "REBOOT", "PROBE", "RENDER", "CAPTURE"}
WireRequest(kind, bytes, crc32) == [kind |-> kind, bytes |-> bytes, crc32 |-> crc32]

EncodeRequest(request) ==
  IF request.kind \in PlainRequests THEN <<Bare("PRS1"), Bare(request.kind)>>
  ELSE <<Bare("PRS1"), Bare(request.kind), Number(request.bytes), Number(request.crc32)>>

PayloadLimit(kind) == IF kind = "EXEC" THEN MAX_EXEC_BYTES ELSE MAX_SHELL_BYTES

\* parse_execute_request and parse_shell_request.
ParseUpload(words) ==
  LET kind == words[2].parts[1] IN
    IF Len(words) = 4 /\ words[3].number \in 1 .. PayloadLimit(kind)
    THEN Good(WireRequest(kind, words[3].number, words[4].number)) ELSE Bad

DecodeRequest(words) ==
  LET kind == words[2].parts[1] IN
    CASE kind \in PlainRequests /\ Len(words) = 2 -> Good(WireRequest(kind, 0, 0))
      [] kind \in {"EXEC", "SHELL"} -> ParseUpload(words)
      [] OTHER -> Bad

-----------------------------------------------------------------------------
(* Responses.                                                              *)

\* The responses that are a text, and the bytes in front of it, the prefix
\* included.
Leads == [INFO |-> 13, STATUS |-> 15, PROBE |-> 14, RENDERED |-> 17, READY |-> 11, EXEC |-> 13, ERR |-> 9]
Leading(kind) == IF kind \in {"READY", "ERR"} THEN <<Bare("PRS1"), Bare(kind)>>
                 ELSE <<Bare("PRS1"), Bare("OK"), Bare(kind)>>

Response(kind, text, numbers) == [kind |-> kind, text |-> text, numbers |-> numbers]

\* validate_text: the longest lead is not taken into account.
Valid(text) == text.length > 0 /\ ~text.newline /\ Leads["ERR"] + text.length <= MAX_LINE_LEN

\* encode_framebuffer_header, the one that measures the whole line.
EncodeFramebuffer(text, numbers) ==
  LET length == 53 + text.length IN
    IF Valid(text) /\ 0 \notin {numbers[n] : n \in DOMAIN numbers} /\ length <= MAX_LINE_LEN
    THEN Good(WireLine(<<Bare("PRS1"), Bare("OK"), Bare("FRAMEBUFFER"), Field("width", Number(numbers[1])),
                         Field("height", Number(numbers[2])), Field("format", text.words[1])>>
                         \o Tail(text.words) \o <<Field("bytes", Number(numbers[3]))>>, length))
    ELSE Bad

\* A number counts one byte.  The newline is part of the line.
EncodeResponse(response) ==
  LET text == response.text
      numbers == response.numbers
  IN  CASE response.kind \in DOMAIN Leads ->
             IF Valid(text) THEN Good(WireLine(Leading(response.kind) \o text.words,
                                               Leads[response.kind] + text.length + 1)) ELSE Bad
        [] response.kind = "ACK" ->
             IF Valid(text)
             THEN Good(WireLine(<<Bare("PRS1"), Bare("ACK")>> \o text.words
                                  \o <<Field("bytes", Number(numbers[1]))>>, 18 + text.length)) ELSE Bad
        [] response.kind = "SHELL" ->
             IF Valid(text)
             THEN Good(WireLine(<<Bare("PRS1"), Bare("OK"), Bare("SHELL"), Field("bytes", Number(numbers[1])),
                                  Field("status", text.words[1])>> \o Tail(text.words),
                                30 + text.length)) ELSE Bad
        [] response.kind = "FRAMEBUFFER" -> EncodeFramebuffer(text, numbers)
        [] OTHER -> Good(WireLine(<<Bare("PRS1"), Bare("OK"), Bare(response.kind)>>, 8 + 9))

\* parse_named_usize and parse_named_text: the first field of that name.
Named(words, name) ==
  LET places == {n \in DOMAIN words : HasKey(words[n], name)} IN
    IF places = {} THEN Bad
    ELSE Good(FieldValue(words[CHOOSE n \in places : \A m \in places : n <= m]))

NamedNumber(words, name) ==
  LET field == Named(words, name) IN
    IF field.ok /\ field.value.number # NoNumber THEN Good(field.value.number) ELSE Bad

\* What decode_response finds: the kind, the words of the text, the numbers.
Decoded(kind, words, numbers) == Good([kind |-> kind, words |-> words, numbers |-> numbers])

\* parse_ack_kind: the first word.
ParseAck(words) ==
  LET bytes == NamedNumber(words, "bytes") IN
    IF bytes.ok THEN Decoded("ACK", <<words[1]>>, <<bytes.value>>) ELSE Bad

\* parse_framebuffer_header: its fields in their order.
ParseFramebuffer(words) ==
  LET keys == <<"width", "height", "format", "bytes">> IN
    IF /\ Len(words) = 4 /\ \A n \in 1 .. 4 : HasKey(words[n], keys[n])
       /\ \A n \in {1, 2, 4} : words[n].number > 0
    THEN Decoded("FRAMEBUFFER", <<FieldValue(words[3])>>,
                 <<words[1].number, words[2].number, words[4].number>>)
    ELSE Bad

DecodeResponse(line) ==
  LET words == line.words
      kind == IF words[2] = Bare("OK") THEN words[3].parts[1] ELSE words[2].parts[1]
      rest == SubSeq(words, IF words[2] = Bare("OK") THEN 4 ELSE 3, Len(words))
  IN  IF line.length > MAX_LINE_LEN THEN Bad
      ELSE CASE kind \in DOMAIN Leads -> IF rest = <<>> THEN Bad ELSE Decoded(kind, rest, <<>>)
             [] kind = "ACK" -> ParseAck(rest)
             [] kind = "SHELL" ->
                  IF ~NamedNumber(rest, "bytes").ok \/ ~Named(rest, "status").ok THEN Bad
                  ELSE Decoded(kind, <<Named(rest, "status").value>>, <<NamedNumber(rest, "bytes").value>>)
             [] kind = "FRAMEBUFFER" -> ParseFramebuffer(rest)
             [] OTHER -> IF rest = <<>> THEN Decoded(kind, <<>>, <<>>) ELSE Bad

-----------------------------------------------------------------------------
(* Properties.                                                             *)

\* A request that is written is read as the same, or, when the service does
\* not take a payload of that size, as none.
RequestIsSound(request) ==
  LET read == DecodeRequest(EncodeRequest(request)) IN
    IF request.kind \in PlainRequests \/ request.bytes \in 1 .. PayloadLimit(request.kind)
    THEN read = Good(request) ELSE ~read.ok

\* A response that is written is read as the same, whatever its text looks
\* like, unless its line is longer than the reader takes, which the encoder
\* lets pass by less than a lead and some numbers; only where the text is a
\* field of the line it has to be one word, which does not look like another
\* field.
ResponseIsSound(response) ==
  LET line == EncodeResponse(response)
      read == DecodeResponse(line.value)
      same == [kind |-> response.kind, words |-> response.text.words, numbers |-> response.numbers]
      field == response.kind \in {"ACK", "SHELL", "FRAMEBUFFER"}
  IN  line.ok =>
        /\ line.value.length <= MAX_LINE_LEN + 21
        /\ (/\ line.value.length <= MAX_LINE_LEN
            /\ field => Len(response.text.words) = 1
            /\ response.kind = "ACK" => ~HasKey(response.text.words[1], "bytes"))
             => read = Good(same)
        /\ read.ok /\ ~field => read = Good(same)

=============================================================================
