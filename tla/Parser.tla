-------------------------------- MODULE Parser --------------------------------
(***************************************************************************)
(* ServiceBusParser: commands to messages of the SDK, and received         *)
(* messages to those of FastStream.  A text is the sequence of its parts,  *)
(* and a value that AMQP may hand over as bytes says whether it is bytes   *)
(* and whether they decode.                                                *)
(***************************************************************************)
EXTENDS Publishing, SequencesExt

Text(t) == [text |-> t, bytes |-> FALSE, utf8 |-> TRUE]
AsText(v) == [text |-> v.text, bytes |-> FALSE, utf8 |-> v.utf8]
AsBytes(v) == [text |-> v.text, bytes |-> TRUE, utf8 |-> v.utf8]

\* What json_dumps and str make of data that is neither text nor bytes.
Json(data) == <<"json", data>>
Str(data) == <<"str", data>>

\* A body is data of some shape; chunks are texts, lists the sections of a SEQUENCE.
ExtractBody(type, body) ==
  CASE body.shape = "none" -> <<>>
    [] body.shape # "none" /\ type = "SEQUENCE" -> Json(body.data)
    [] body.shape \in {"bytes", "str"} /\ type # "SEQUENCE" -> body.data
    [] body.shape \notin {"none", "bytes", "str"} /\ type = "VALUE" -> Json(body.data)
    [] body.shape = "mapping" /\ type = "DATA" -> Json(body.data)
    [] body.shape = "chunks" /\ type = "DATA" -> FlattenSeq(body.data)
    [] OTHER -> Str(body.data)

Decoded(v) == IF v.bytes /\ v.utf8 THEN AsText(v) ELSE v

\* Keys are decoded, values where they can be.  The SDK gives every key as bytes,
\* so no two of them have one text.
NormalizeHeaders(properties) ==
  [t \in {k.text : k \in DOMAIN properties} |->
     Decoded(properties[CHOOSE k \in DOMAIN properties : k.text = t])]

\* `{**headers}`, keyed by str.
Properties(headers) ==
  [k \in {Text(t) : t \in DOMAIN headers} |-> headers[k.text]]

\* encode_message for a body that is not a message of the SDK already.
EncodeMessage(body, cmd, id) ==
  [body |-> <<body>>, properties |-> Properties(cmd.headers),
   correlation |-> NameOr(cmd.correlation, id), reply_to |-> cmd.reply_to,
   options |-> cmd.options]

\* A message of the SDK is changed in place and keeps the rest of what it has,
\* whatever the command says of it.
EncodeRaw(raw, cmd) ==
  [raw EXCEPT !.properties = Merge(@, Properties(cmd.headers))]

\* The wire: keys and texts arrive as bytes, the body in chunks.
Transfer(m) ==
  [m EXCEPT !.properties =
     [k \in {AsBytes(j) : j \in DOMAIN m.properties} |->
        AsBytes(m.properties[AsText(k)])]]

ParseMessage(m, id) ==
  [body |-> ExtractBody("DATA", [shape |-> "chunks", data |-> m.body]),
   headers |-> NormalizeHeaders(m.properties),
   reply_to |-> m.reply_to, correlation |-> NameOr(m.correlation, id),
   subject |-> m.options["subject"]]
=============================================================================
