---------------------------- MODULE MCInspector ----------------------------
(* Instances of Inspector for TLC; bounds are in the cfg file.               *)
EXTENDS Inspector

CONSTANTS request, response, other

F(method, id, params, result, error) ==
  [method |-> method, id |-> id, params |-> params, result |-> result, error |-> error]

ToolCall == F("tools/call", "id", "call", Absent, Absent)

MCTraffic ==
  [e \in {request, response, other} |->
     CASE e = request  -> {ToolCall, F("tools/call", "id", "plain", Absent, Absent)}
       [] e = response -> {F("", "id", Absent, "strings", Null)}
       [] e = other    -> {F("", "id", Absent, Absent, [code |-> 1, data |-> "strings"]),
                           F("", "id", Absent, Falsy, Absent),
                           F("", Absent, Absent, Absent, Absent)}]

MCPartner ==
  [e \in {request, response, other} |->
     CASE e = request -> response [] e = response -> request [] e = other -> ""]
=============================================================================
