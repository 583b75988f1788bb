--------------------------- MODULE RelayProtocol ---------------------------
(***************************************************************************)
(* Protocol v1: envelopes and their parsing (commandrelay-protocol), and   *)
(* the parsing of payload fields (src/server/message-validation.ts).       *)
(*                                                                         *)
(* A frame is abstracted to what parsing tells apart:                      *)
(*   kib        its size                                                   *)
(*   json       "invalid", "object", or "other" JSON                       *)
(*   v          its version                                                *)
(*   type       a string value, see below, or another one                  *)
(*   timestamp  TRUE when it is a safe integer that is not negative        *)
(*   payload    a record of values, or None when it is not an object       *)
(*   requestId  None, or a string value with its length and characters     *)
(* A value is [t, ...]: t is the JSON type.  A string has its trimmed text *)
(* (trim), whether trimming changes it (padded), and the integer and the   *)
(* boolean it reads as (int, bool), None when it reads as none.            *)
(***************************************************************************)
EXTENDS Integers, Sequences

CONSTANT None

RequiredTypes ==
  {"auth", "list_sessions", "attach", "output", "input", "ack", "error", "heartbeat",
   "policy_update"}

RuntimeTypes ==
  {"detach", "enable_input", "disable_input", "disconnect", "hello", "session_list", "auth_ok",
   "auth_error", "heartbeat_ack"}

AllowedTypes == RequiredTypes \cup RuntimeTypes

RequestIdRequiredTypes ==
  {"auth", "list_sessions", "attach", "detach", "enable_input", "disable_input", "disconnect",
   "input", "ack", "error"}

MaxEnvelopeKib == 64
RequestIdMaxLength == 128

Rejected(code) == [ok |-> FALSE, error |-> code]
Parsed(type, id, payload) == [ok |-> TRUE, type |-> type, requestId |-> id, payload |-> payload]

isString(value) == value.t = "string"

validateRequestId(id) ==
  /\ isString(id) /\ id.len \in 1..RequestIdMaxLength
  /\ ~id.padded /\ id.printable

\* The test for a missing id looks at the type as sent, with its padding.
parseStrictV1(frame) ==
  LET type == frame.type.trim IN
  IF frame.v # 1 THEN Rejected("invalid_version")
  ELSE IF type \notin AllowedTypes THEN Rejected("unsupported_type")
  ELSE IF ~frame.timestamp THEN Rejected("invalid_timestamp")
  ELSE IF frame.payload = None THEN Rejected("invalid_payload")
  ELSE IF frame.requestId # None /\ ~validateRequestId(frame.requestId)
       THEN Rejected("invalid_request_id")
  ELSE IF ~frame.type.padded /\ type \in RequestIdRequiredTypes /\ frame.requestId = None
       THEN Rejected("missing_request_id")
  ELSE Parsed(type, IF frame.requestId = None THEN None ELSE frame.requestId.trim, frame.payload)

NoFields ==
  [f \in {"token", "paneId", "lastSeq", "data", "override", "takeOwnership"} |->
     [t |-> "undefined"]]

parseMessage(frame, strictV1) ==
  IF strictV1 /\ frame.kib > MaxEnvelopeKib THEN Rejected("message_too_large")
  ELSE IF frame.json = "invalid" THEN Rejected("invalid_json")
  ELSE IF frame.json # "object" THEN Rejected("invalid_json_object")
  ELSE IF ~isString(frame.type) \/ frame.type.trim = "" THEN Rejected("missing_type")
  ELSE IF strictV1 THEN parseStrictV1(frame)
  ELSE IF frame.type.padded THEN Rejected("invalid_type")
  ELSE Parsed(frame.type.trim,
              IF frame.requestId # None /\ isString(frame.requestId) THEN frame.requestId.trim
              ELSE None,
              IF frame.payload = None THEN NoFields ELSE frame.payload)

parseNonEmptyString(value) == IF isString(value) /\ value.trim # "" THEN value.trim ELSE None

parseOptionalInt(value) == IF value.t \in {"integer", "string"} THEN value.int ELSE None

parseOptionalBoolean(value) == IF value.t \in {"boolean", "string"} THEN value.bool ELSE None
============================================================================
