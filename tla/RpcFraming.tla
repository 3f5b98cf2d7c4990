----------------------------- MODULE RpcFraming -----------------------------
(***************************************************************************)
(* How the client reads a response (client.py:195-275): the content type   *)
(* picks the framing, the framing yields a JSON-RPC message, the message   *)
(* decides how the call ends.                                              *)
(*                                                                         *)
(* A message is what the client can tell of it: whether it is an object,   *)
(* its id, and what its members `result` and `error` look like.  A text is *)
(* the message it is as a whole, if it is one, and its blocks: the         *)
(* stretches between blank lines, each the sequence of its lines.  A data  *)
(* line holds one part of the text of a message.                           *)
(***************************************************************************)
EXTENDS Integers, Sequences, FiniteSets

ResultMember == {"absent", "object", "other"}
ErrorMember == {"absent", "null", "error", "error with odd code", "other"}

Line(m, part, parts) == [data |-> TRUE, of |-> m, part |-> part, parts |-> parts]

First(S) == CHOOSE i \in S : \A j \in S : i <= j

\* The data lines of a block, joined: the message they make, if they make one;
\* the k-th of them has to be its part k.
Payload(block) ==
    LET Data == {i \in DOMAIN block : block[i].data}
        Rank(i) == Cardinality({j \in Data : j <= i})
    IN  {m \in {block[i].of : i \in Data} :
             \A i \in Data : block[i] = Line(m, Rank(i), Cardinality(Data))}

ResponseShaped_Any(m) == m.object   \* mutant: whatever carries the id is an answer
ResponseShaped(m) == m.object /\ (m.result # "absent" \/ m.error # "absent")

\* _extract_jsonrpc_from_sse: the first response with the request's id wins,
\* then the first response there is.
Extract(blocks, id) ==
    LET Responses == {i \in DOMAIN blocks : \E m \in Payload(blocks[i]) : ResponseShaped(m)}
        Own == {i \in Responses : \E m \in Payload(blocks[i]) : m.id = id}
    IN  CASE Own # {}                     -> Payload(blocks[First(Own)])
          [] Own = {} /\ Responses # {}   -> Payload(blocks[First(Responses)])
          [] OTHER                        -> {}

\* The message of a response, by its content type; an unknown type is tried as
\* JSON and then as a stream.
Decode(response, id) ==
    LET text == response.text
    IN  CASE response.type = "sse"   -> Extract(text.blocks, id)
          [] response.type = "json"  -> text.json
          [] response.type = "other" ->
                 IF text.json # {} THEN text.json ELSE Extract(text.blocks, id)

\* _unwrap_rpc: an error member that is not null beats a result.  An error code
\* that int() rejects raises what the manager does not expect.
Unwrap(m) ==
    CASE ~m.object                                -> "fails"
      [] m.object /\ m.error = "error with odd code" -> "breaks"
      [] m.object /\ m.error \in {"error", "other"}  -> "fails"
      [] OTHER -> IF m.result = "object" THEN "returns" ELSE "fails"

\* _result_from_response: how the call with this id ends.
Outcome(response, id) ==
    LET message == Decode(response, id)
    IN  IF message = {} THEN "fails" ELSE Unwrap(CHOOSE m \in message : TRUE)
=============================================================================
