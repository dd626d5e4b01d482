-------------------------------- MODULE Proxy -------------------------------
(***************************************************************************)
(* The stdio proxy between one agent and one MCP server                     *)
(* (cmd/spektr-proxy/main.go) and its connection to the daemon              *)
(* (interceptor/socket.go): two loops that scan, report and forward, the    *)
(* goroutine that interrupts the server, and main, which waits for both.    *)
(*                                                                         *)
(* A line is the number of a request; the answer to it has the same number. *)
(* Notifications and requests of the server's own travel like answers and   *)
(* are left out.  The agent, the server and the daemon are external: the    *)
(* agent hangs up when it likes, the server answers in any order, may end   *)
(* at any time and ends when it is interrupted, the daemon may stop reading *)
(* its socket.                                                              *)
(***************************************************************************)
EXTENDS Naturals, Sequences, Functions

CONSTANTS
  MaxLines,  \* bound: requests the agent sends
  PipeCap    \* lines a pipe holds

ASSUME ProxyAssumption == MaxLines \in Nat /\ PipeCap \in Nat \ {0}

Directions == {"request", "response"}
Lines == 1 .. MaxLines
NoLine == 0

VARIABLES
  agent,        \* "open", "closedStdin" or "gone"
  serverUp,     \* the server's process runs
  sent,         \* per direction: lines the sender has written, a history
  got,          \* per direction: lines the receiver has read, a history
  source,       \* per direction: the pipe the loop scans
  sink,         \* per direction: the pipe the loop writes to
  loop,         \* per direction: where the goroutine stands
  line,         \* per direction: the line in its hands
  cancelled,    \* ctx is done
  interrupted,  \* os.Interrupt has been sent to the server
  mainPc,       \* where main stands
  conn,         \* client.conn: "nil", "drained" or "full" as the daemon reads
  torn,         \* what the daemon has of the socket ends within a line
  decoded       \* reports the daemon has decoded, <<direction, line>>

agentVars == <<agent, sent, got>>
pipeVars  == <<source, sink>>
loopVars  == <<loop, line>>
endVars   == <<cancelled, interrupted, mainPc>>
daemonVars == <<conn, torn, decoded>>
proxyVars == <<agentVars, serverUp, pipeVars, loopVars, endVars, daemonVars>>

Running == mainPc \notin {"exited", "killed"}

(* The pipes never hold more than they can and never hold a line twice.     *)
ProxyTypeOK ==
  /\ agent \in {"open", "closedStdin", "gone"}
  /\ serverUp \in BOOLEAN
  /\ \A s \in {sent, got, source, sink} :
       s \in [Directions -> Seq(Lines)] /\ \A d \in Directions : IsInjective(s[d])
  /\ \A d \in Directions : Len(source[d]) <= PipeCap /\ Len(sink[d]) <= PipeCap
  /\ loop \in [Directions -> {"scan", "report", "forward", "done"}]
  /\ line \in [Directions -> Lines \cup {NoLine}]
  /\ cancelled \in BOOLEAN /\ interrupted \in BOOLEAN
  /\ mainPc \in {"waiting", "reaping", "closing", "exited", "killed"}
  /\ conn \in {"nil", "drained", "full"}
  /\ torn \in BOOLEAN
  /\ decoded \in Seq(Directions \X Lines)

(* Connect succeeds, or fails three times, which leaves conn nil for good.  *)
Connect == {"nil", "drained"}

(* The server has been started.                                             *)
ProxyInit ==
  /\ agent = "open" /\ serverUp = TRUE
  /\ sent = [d \in Directions |-> <<>>] /\ got = [d \in Directions |-> <<>>]
  /\ source = [d \in Directions |-> <<>>] /\ sink = [d \in Directions |-> <<>>]
  /\ loop = [d \in Directions |-> "scan"]
  /\ line = [d \in Directions |-> NoLine]
  /\ cancelled = FALSE /\ interrupted = FALSE /\ mainPc = "waiting"
  /\ conn \in Connect /\ torn = FALSE /\ decoded = <<>>

-----------------------------------------------------------------------------
(* The agent, the server and the daemon.                                    *)

HasRoom(pipe) == Len(pipe) < PipeCap

Put(d, l) ==
  /\ HasRoom(source[d])
  /\ sent' = [sent EXCEPT ![d] = Append(@, l)]
  /\ source' = [source EXCEPT ![d] = Append(@, l)]

Take(d) ==
  /\ sink[d] # <<>>
  /\ got' = [got EXCEPT ![d] = Append(@, Head(sink[d]))]
  /\ sink' = [sink EXCEPT ![d] = Tail(@)]

AgentSends ==
  /\ agent = "open"
  /\ Len(sent["request"]) < MaxLines
  /\ Put("request", Len(sent["request"]) + 1)
  /\ UNCHANGED <<agent, got, serverUp, sink, loopVars, endVars, daemonVars>>

AgentReads ==
  /\ agent # "gone"
  /\ Take("response")
  /\ UNCHANGED <<agent, sent, serverUp, source, loopVars, endVars, daemonVars>>

(* The agent closes the proxy's stdin, or ends with both its pipes.         *)
AgentHangsUp ==
  /\ \/ agent = "open" /\ agent' = "closedStdin"
     \/ agent # "gone" /\ agent' = "gone"
  /\ UNCHANGED <<sent, got, serverUp, pipeVars, loopVars, endVars, daemonVars>>

ServerReads ==
  /\ serverUp
  /\ Take("request")
  /\ UNCHANGED <<agent, sent, serverUp, source, loopVars, endVars, daemonVars>>

ServerAnswers(l) ==
  /\ serverUp
  /\ l \in Range(got["request"]) \ Range(sent["response"])
  /\ Put("response", l)
  /\ UNCHANGED <<agent, got, serverUp, sink, loopVars, endVars, daemonVars>>

(* The server's process ends: what it has written stays in its pipe.        *)
ServerExits ==
  /\ serverUp
  /\ serverUp' = FALSE
  /\ UNCHANGED <<agentVars, pipeVars, loopVars, endVars, daemonVars>>

(* The daemon's socket buffer fills up because the daemon does not read (or *)
(* has gone), and is drained when it does.                                  *)
DaemonStalls ==
  /\ conn = "drained"
  /\ conn' = "full"
  /\ UNCHANGED <<agentVars, serverUp, pipeVars, loopVars, endVars, torn, decoded>>

DaemonDrains ==
  /\ conn = "full"
  /\ conn' = "drained"
  /\ UNCHANGED <<agentVars, serverUp, pipeVars, loopVars, endVars, torn, decoded>>

-----------------------------------------------------------------------------
(* The loops.  Both have the same body; the steps follow each other as      *)
(* After says.                                                              *)

(* Mutant: the line is forwarded first and reported then.                   *)
AfterForwardFirst(pc) ==
  CASE pc = "scan" -> "forward"
    [] pc = "forward" -> "report"
    [] pc = "report" -> "scan"

After(pc) ==
  CASE pc = "scan" -> "report"
    [] pc = "report" -> "forward"
    [] pc = "forward" -> "scan"

Step(d, pc) ==
  /\ Running
  /\ loop[d] = pc
  /\ loop' = [loop EXCEPT ![d] = After(pc)]

ScanLine(d) ==
  /\ Step(d, "scan")
  /\ source[d] # <<>>
  /\ line' = [line EXCEPT ![d] = Head(source[d])]
  /\ source' = [source EXCEPT ![d] = Tail(@)]
  /\ UNCHANGED <<agentVars, serverUp, sink, endVars, daemonVars>>

AtEOF(d) ==
  /\ source[d] = <<>>
  /\ IF d = "request" THEN agent # "open" ELSE ~serverUp

(* Mutant: the deferred cancel is missing.                                  *)
LoopEndsQuietly(d) ==
  /\ Running
  /\ loop[d] = "scan"
  /\ AtEOF(d) \/ source[d] # <<>>
  /\ loop' = [loop EXCEPT ![d] = "done"]
  /\ UNCHANGED <<agentVars, serverUp, pipeVars, line, endVars, daemonVars>>

(* Scan returns false at the end of the input or on a line of more than     *)
(* 64 KiB, the limit of a Scanner; the deferred calls cancel ctx.           *)
LoopEnds(d) ==
  /\ Running
  /\ loop[d] = "scan"
  /\ AtEOF(d) \/ source[d] # <<>>
  /\ loop' = [loop EXCEPT ![d] = "done"]
  /\ cancelled' = TRUE
  /\ UNCHANGED <<agentVars, serverUp, pipeVars, line, interrupted, mainPc,
                 daemonVars>>

(* What a Write to the socket leaves there: the whole line, nothing, or a   *)
(* part that the deadline cut.  The daemon splits at newlines, so a part    *)
(* becomes one line with the report that follows it, which does not decode. *)
(* (A part that lacks nothing but its newline and is the last thing written *)
(* would decode when the socket is closed; that case is left out.)          *)
WritesAll(r) ==
  /\ torn' = FALSE
  /\ decoded' = IF torn THEN decoded ELSE Append(decoded, r)

WritesPart == torn' = TRUE /\ UNCHANGED decoded

WritesNothing == UNCHANGED <<torn, decoded>>

(* Mutant: no deadline, so the Write waits for the daemon.                  *)
ReportWaiting(r) ==
  /\ \/ conn = "nil" /\ WritesNothing
     \/ conn = "drained" /\ WritesAll(r)
  /\ UNCHANGED conn

(* ReportAsync: it returns within a millisecond whatever the daemon does,   *)
(* and mu keeps the loops' writes apart, so it is one step.                 *)
ReportAsync(r) ==
  /\ \/ WritesNothing
     \/ conn # "nil" /\ WritesPart
     \/ conn = "drained" /\ WritesAll(r)
  /\ UNCHANGED conn

(* Mutant: a report that was not written ends the iteration.                *)
ReportLineOrSkip(d) ==
  /\ Running
  /\ loop[d] = "report"
  /\ ReportAsync(<<d, line[d]>>)
  /\ loop' = [loop EXCEPT ![d] = IF decoded' = decoded THEN "scan" ELSE "forward"]
  /\ UNCHANGED <<agentVars, serverUp, pipeVars, line, endVars>>

ReportLine(d) ==
  /\ Step(d, "report")
  /\ ReportAsync(<<d, line[d]>>)
  /\ UNCHANGED <<agentVars, serverUp, pipeVars, line, endVars>>

(* Mutant: a buffer without a limit in front of the pipe.                   *)
WriteBuffered(d) ==
  /\ sink' = [sink EXCEPT ![d] = Append(@, line[d])]

Write(d) ==
  /\ HasRoom(sink[d])
  /\ sink' = [sink EXCEPT ![d] = Append(@, line[d])]

(* serverIn.Write: a server that has ended costs an error that is ignored.  *)
ForwardRequest ==
  /\ Step("request", "forward")
  /\ IF serverUp THEN Write("request") ELSE UNCHANGED sink
  /\ UNCHANGED <<agentVars, serverUp, source, line, endVars, daemonVars>>

ForwardResponse ==
  /\ agent # "gone"
  /\ Step("response", "forward")
  /\ Write("response")
  /\ UNCHANGED <<agentVars, serverUp, source, line, endVars, daemonVars>>

(* os.Stdout.Write when nobody holds the other end: the Go runtime lets     *)
(* SIGPIPE on standard output end the process.                              *)
BrokenStdout ==
  /\ Running
  /\ agent = "gone"
  /\ loop["response"] = "forward"
  /\ mainPc' = "killed"
  /\ UNCHANGED <<agentVars, serverUp, pipeVars, loopVars, cancelled, interrupted,
                 daemonVars>>

-----------------------------------------------------------------------------
(* The goroutine that waits for ctx, and main.                              *)

Interrupt ==
  /\ Running
  /\ cancelled /\ ~interrupted
  /\ interrupted' = TRUE
  /\ UNCHANGED <<agentVars, serverUp, pipeVars, loopVars, cancelled, mainPc,
                 daemonVars>>

(* wg.Wait, cmd.Wait, client.Close.                                         *)
LoopsJoined ==
  /\ mainPc = "waiting"
  /\ \A d \in Directions : loop[d] = "done"
  /\ mainPc' = "reaping"
  /\ UNCHANGED <<agentVars, serverUp, pipeVars, loopVars, cancelled, interrupted,
                 daemonVars>>

ReapServer ==
  /\ mainPc = "reaping"
  /\ ~serverUp
  /\ mainPc' = "closing"
  /\ UNCHANGED <<agentVars, serverUp, pipeVars, loopVars, cancelled, interrupted,
                 daemonVars>>

CloseClient ==
  /\ mainPc = "closing"
  /\ conn' = "nil"
  /\ mainPc' = "exited"
  /\ UNCHANGED <<agentVars, serverUp, pipeVars, loopVars, cancelled, interrupted,
                 torn, decoded>>

-----------------------------------------------------------------------------

LoopNext(d) == ScanLine(d) \/ LoopEnds(d) \/ ReportLine(d)

RequestLoop  == LoopNext("request") \/ ForwardRequest
ResponseLoop == LoopNext("response") \/ ForwardResponse \/ BrokenStdout
MainNext     == LoopsJoined \/ ReapServer \/ CloseClient
ServerNext   == ServerReads \/ ServerExits \/ \E l \in Lines : ServerAnswers(l)

ProxyNext ==
  \/ AgentSends \/ AgentReads \/ AgentHangsUp
  \/ ServerNext
  \/ DaemonStalls \/ DaemonDrains
  \/ RequestLoop \/ ResponseLoop
  \/ Interrupt \/ MainNext

ProxySpec == ProxyInit /\ [][ProxyNext]_proxyVars

(* The proxy's goroutines run when they can.  The agent keeps reading until *)
(* it goes, the server keeps reading and ends when it is interrupted.       *)
(* Nobody must send or answer, and the daemon need never read again.        *)
ProxyFairness ==
  /\ WF_proxyVars(RequestLoop) /\ WF_proxyVars(ResponseLoop)
  /\ WF_proxyVars(Interrupt) /\ WF_proxyVars(MainNext)
  /\ WF_proxyVars(AgentReads) /\ WF_proxyVars(ServerReads)
  /\ WF_proxyVars(interrupted /\ ServerExits)

ProxyFairSpec == ProxySpec /\ ProxyFairness

-----------------------------------------------------------------------------
(* Properties.                                                              *)

(* ARCHITECTURE.md: "The agent never knows anything went wrong."  With the  *)
(* proxy between them, reporting or not, cut or stalled, agent and server   *)
(* see two plain wires.                                                     *)
WireView == INSTANCE Wire
ImplementsWire == WireView!Spec

(* What the daemon decodes mirrors the traffic: per direction in its order, *)
(* nothing twice, and no answer before its request, although the two loops  *)
(* share the socket, lines are torn and whole reports are lost.  Enrich and *)
(* the timeline take the order of arrival for the order of events.          *)
Position(s, l) == CHOOSE i \in DOMAIN s : s[i] = l

ReportsMirrorTraffic ==
  \A i, j \in DOMAIN decoded : i < j =>
    LET a == decoded[i] b == decoded[j] IN
    /\ a[1] = b[1] => Position(sent[a[1]], a[2]) < Position(sent[b[1]], b[2])
    /\ a[1] # b[1] /\ a[2] = b[2] => a[1] = "request"

(* ARCHITECTURE.md: "If the proxy blocks, the agent blocks."  A line that   *)
(* was sent arrives, even when the daemon never reads again; only the end   *)
(* of the receiver or of the loop (hung up, too long a line) excuses it.    *)
Receiving(d) == IF d = "request" THEN serverUp ELSE agent # "gone"

LinesArrive ==
  \A d \in Directions, l \in Lines :
    l \in Range(sent[d]) ~>
      l \in Range(got[d]) \/ ~Receiving(d) \/ loop[d] = "done" \/ ~Running

(* Once the agent hangs up the proxy ends: the interrupt ends the server,   *)
(* which ends the other loop, which lets main go on.                        *)
ProxyEnds == agent # "open" ~> ~Running
=============================================================================
