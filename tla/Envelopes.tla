----------------------------- MODULE Envelopes ------------------------------
(***************************************************************************)
(* Text messages of the read node and what parseIncoming makes of them     *)
(* (websocket.go): call the listen callbacks, call the error callbacks,    *)
(* reject the listen, or nothing at all.                                   *)
(*                                                                         *)
(* Of a JSON value only what the code asks of it is kept: is it there, is  *)
(* it null, does it decode into the wanted struct, and what is its id.     *)
(***************************************************************************)

Ids == {"absent", "null", "empty", "text", "other"}

\* A value from which a Block or a Transaction may be decoded.  The empty object
\* decodes into a zero Block, whose fields nobody examines, so it is among the
\* values with block = TRUE.
Payload == [is : {"absent", "null"}, block : {FALSE}, tx : {FALSE}, id : {"absent"}]
           \cup [is : {"value"}, block : BOOLEAN, tx : BOOLEAN, id : Ids]

\* A message.  json: not JSON for the envelope, the bare null, or an object;
\* tx: the whole message decodes as a Transaction.
Envelope == [json : {"invalid", "null", "object"}, id : Ids, tx : BOOLEAN,
             type : {"absent", "null", "text", "block", "transaction", "subscribe",
                     "listen", "unknown"},
             data : Payload, state : {"absent", "OK", "Fail", "other"}]

\* The message itself, decoded as a transaction when it carries an id.
Whole(e) == [is |-> "value", block |-> FALSE, tx |-> e.tx, id |-> e.id]

\* A null decodes without an error but leaves the id nil.
decodeTransaction(p) == p.is = "value" /\ p.tx /\ p.id = "text"

decodeBlock(p) == p.is = "value" /\ p.block

HasId(e) == e.id \notin {"absent", "null"}

\* The payload the listen callbacks get.
Event(e) == IF HasId(e) THEN Whole(e) ELSE e.data

IsEvent(e) ==
    \/ (HasId(e) \/ e.type = "transaction") /\ decodeTransaction(Event(e))
    \/ ~HasId(e) /\ e.type = "block" /\ decodeBlock(e.data)

\* The answer to a listen is a rejection unless it says OK, the answer to a
\* subscribe only if it says Fail.
RejectsIfFail(e) == ~HasId(e) /\ e.type = "listen" /\ e.state = "Fail"
RejectsListen(e) == ~HasId(e) /\ e.type = "listen" /\ e.state # "OK"

Acknowledges(e) ==
    ~HasId(e) /\ \/ e.type = "listen" /\ ~RejectsListen(e)
                 \/ e.type = "subscribe" /\ e.state # "Fail"

parseIncoming(e) ==
    CASE e.json # "object" -> "bad"
      [] e.json = "object" /\ IsEvent(e) -> "event"
      [] e.json = "object" /\ RejectsListen(e) -> "listenFail"
      [] e.json = "object" /\ Acknowledges(e) -> "quiet"
      [] OTHER -> "bad"
=============================================================================
