------------------------------ MODULE EventCodec ------------------------------
(***************************************************************************)
(* What becomes of a JSON-RPC message on its way to the inspector: Parse     *)
(* (pipeline/parser.go), the JSON of the live stream and of the list         *)
(* (types/event.go), the row (storage/event.go), the JSON of a detail        *)
(* (stream/event_detail.go), the parsing of both in the desktop              *)
(* (types/events.ts), and the sections the inspector shows                   *)
(* (event-inspector.ts).  Fields every event has, and that no step of these  *)
(* changes, are left out, as are costs and risk flags, which nothing sets.   *)
(*                                                                         *)
(* A JSON value is one of a few that the code tells apart:                   *)
(*   Null, Falsy    null; false, 0 or "", which JavaScript takes for no value*)
(*   "plain"        with no record of strings in it, an array say            *)
(*   "strings"      a record of strings, which findHeaders takes for headers *)
(*   "call"         {name, arguments: a record of strings}                   *)
(*   "bareCall"     {name}                                                   *)
(* Absent is a field that is not there, or Go's nil.                         *)
(***************************************************************************)
EXTENDS Integers, Sequences

CONSTANTS Absent, Null, Falsy

(* The empty string: no name, no link, no method.                           *)
Empty == ""

Values == {Null, Falsy, "plain", "strings", "call", "bareCall"}

(* What a client or server sends; method "" is none.                        *)
Frames ==
  [method : {Empty, "tools/call", "other"},
   id     : {Absent, Null, "id"},
   params : Values \cup {Absent},
   result : Values \cup {Absent},
   error  : {Absent, Null} \cup [code : Int, data : Values \cup {Absent}]]

(* What parseBackendMCPEvent returns; ids are those of events.               *)
Details(ids) ==
  [type      : {"request", "response", "notification", "error"},
   method    : {Empty, "tools/call", "other"},
   pairedId  : ids \cup {Empty, Null},
   messageId : {Null, "id"},
   params    : Values,
   result    : Values,
   error     : {Null} \cup [code : Int, data : Values],
   toolName  : {Null, "tool"},
   toolArgs  : Values]

(* No value is not a value, and no value is not an object.                   *)
ASSUME CodecAssumption ==
  /\ Absent # Null
  /\ {Absent, Null} \cap {Falsy, Empty, "id", "tool", "plain", "strings", "call", "bareCall"} = {}
  /\ {Absent, Null} \cap [code : Int, data : Values \cup {Absent}] = {}

-----------------------------------------------------------------------------
(* The daemon.                                                              *)

(* An id that is null unmarshals to a nil pointer, a null result to the raw  *)
(* message "null".                                                          *)
MessageId(f) == IF f.id = Null THEN Absent ELSE f.id

MessageType(f) ==
  CASE f.method # Empty /\ MessageId(f) # Absent  -> "request"
    [] f.method # Empty /\ MessageId(f) = Absent  -> "notification"
    [] f.method = Empty /\ f.result # Absent      -> "response"
    [] f.method = Empty /\ f.result = Absent /\ f.error # Absent -> "error"
    [] OTHER -> Empty

IsToolCall(f) == MessageType(f) = "request" /\ f.method = "tools/call"

(* Parse of anything else fails: what has to be an object is none.          *)
Accepted(f) == IsToolCall(f) => f.params \in {Null, "strings", "call", "bareCall"}

(* Parse, for a message that ends up with the given link.  A null error      *)
(* unmarshals to an error of code 0.                                        *)
Event(f, link) ==
  LET called == IsToolCall(f) /\ f.params \in {"call", "bareCall"} IN
  [type     |-> MessageType(f),
   method   |-> f.method,
   pairedId |-> link,
   messageId |-> MessageId(f),
   params   |-> f.params,
   result   |-> f.result,
   error    |-> IF f.error = Null THEN [code |-> 0, data |-> Absent] ELSE f.error,
   toolName |-> IF called THEN "tool" ELSE Empty,
   toolArgs |-> IF called /\ f.params = "call" THEN "strings" ELSE Absent]

(* What comes back of an event from its row: there is no column for the      *)
(* tool's arguments and none for the data of an error.                      *)
Row(e) ==
  [e EXCEPT !.toolArgs = Absent,
            !.error = IF @ = Absent THEN Absent ELSE [@ EXCEPT !.data = Absent]]

OrNull(x) == IF x = Absent THEN Null ELSE x

ErrorJson(error) == IF error = Absent THEN Absent ELSE [error EXCEPT !.data = OrNull(@)]

(* MCPEvent as JSON: only toolName and toolArgs are left out when empty.    *)
EventJson(e) ==
  [e EXCEPT !.messageId = OrNull(@), !.params = OrNull(@), !.result = OrNull(@),
            !.error = OrNull(ErrorJson(@)),
            !.toolName = IF @ = Empty THEN Absent ELSE @]

(* eventDetailResponse as JSON: everything that is empty is left out.       *)
DetailJson(e) ==
  [e EXCEPT !.pairedId = IF @ = Empty THEN Absent ELSE @,
            !.error = ErrorJson(@),
            !.toolName = IF @ = Empty THEN Absent ELSE @]

-----------------------------------------------------------------------------
(* The desktop.                                                             *)

(* parseBackendMCPEvent throws at anything else.                            *)
Readable(json) ==
  /\ json.type \in {"request", "response", "notification", "error"}
  /\ json.pairedId # Null /\ json.toolName # Null

Normalize(json) ==
  [json EXCEPT !.pairedId = OrNull(@), !.messageId = OrNull(@), !.params = OrNull(@),
               !.result = OrNull(@), !.error = OrNull(@), !.toolName = OrNull(@),
               !.toolArgs = OrNull(@)]

(* findHeaders in one value.                                                *)
HeadersIn(x) ==
  CASE x \in {"strings", "bareCall"} -> x
    [] x = "call" -> "strings"
    [] OTHER -> Null

(* The first of some values that has any.                                   *)
FirstHeaders(values) ==
  LET found == SelectSeq(values, LAMBDA x : HeadersIn(x) # Null)
  IN  IF found = <<>> THEN Null ELSE HeadersIn(found[1])

Headers(event) ==
  FirstHeaders(<<event.params, event.result,
                 IF event.error = Null THEN Null ELSE event.error.data>>)

(* buildParsedPayloadSections: <<section, document>>.                       *)
Sections(event) ==
  {s \in {<<"tool arguments", event.toolArgs>>, <<"params", event.params>>,
          <<"headers", Headers(event)>>, <<"result", event.result>>,
          <<"error", event.error>>} : s[2] \notin {Null, Falsy}}
=============================================================================
