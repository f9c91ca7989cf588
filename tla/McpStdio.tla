------------------------------ MODULE McpStdio ------------------------------
(***************************************************************************)
(* MCPClient of penguincode (tools/mcp/client.py) and its discovery by      *)
(* MCPToolManager: requests go to the server's stdin, and a caller takes    *)
(* the next line of its stdout for its answer.  The client counts ids but   *)
(* compares none, and it has no lock: agents that run at the same time      *)
(* share it, and an agent that times out is cancelled between its write and *)
(* its line.  A line over the 64 KiB that an asyncio stream takes by        *)
(* default raises in readline(), which may leave the rest of it in the pipe.*)
(* The server is external: it answers the requests in turn, and may write   *)
(* other lines, or end.                                                     *)
(***************************************************************************)
EXTENDS Integers, Sequences

CONSTANTS
    Agents,       \* callers of call_tool
    NoAgent,
    MaxCalls,     \* bound on the calls of tools
    MaxNotices    \* bound on the other lines of the server

VARIABLES
    proc,       \* the server process: "off", "up", "dead"
    stage,      \* discovery: "new", "initialize", "list", "ready", "failed",
                \* "shut"
    owned,      \* the client is in _clients
    nextId,     \* _next_id
    asked,      \* requests the server has not answered
    lines,      \* lines of its stdout nobody has read: the id of the request
                \* they answer, Notice, Text or Long
    want,       \* want[a]: the id a has written, 0 when it is not calling
    blocked,    \* the caller the stream will wake when there is data
    last,       \* last[a]: the id a wanted last and the line it took for it
    notices,    \* how many other lines there were
    disturbed   \* history: a call was left or overlapped another, the
                \* server wrote a line that answers nothing, or the rest of
                \* a line was left in the pipe

pvars == <<proc, stage, owned, nextId, asked, lines, want, blocked, last, notices, disturbed>>

Notice == 0     \* a message that is not an answer and has no result
Text == -1      \* not JSON
Long == -2      \* a line over the limit of the stream, of whatever contents

Discovery == "discovery"
Callers == Agents \cup {Discovery}

ASSUME McpAssumption ==
    /\ Discovery \notin Agents /\ NoAgent \notin Callers
    /\ MaxCalls \in Nat /\ MaxNotices \in Nat

McpInit ==
    /\ proc = "off" /\ stage = "new" /\ owned = FALSE /\ nextId = 1
    /\ asked = <<>> /\ lines = <<>> /\ blocked = NoAgent /\ notices = 0
    /\ want = [a \in Callers |-> 0]
    /\ last = [a \in Callers |-> [id |-> 0, line |-> 0]] /\ disturbed = FALSE

(* _send_request, up to drain(). *)
Write(a) ==
    /\ want' = [want EXCEPT ![a] = nextId]
    /\ asked' = Append(asked, nextId) /\ nextId' = nextId + 1
    /\ disturbed' = (disturbed \/ \E b \in Callers \ {a} : want[b] # 0)

(* start(): the process is created, if there is such a command, and         *)
(* initialize is sent.                                                      *)
Start ==
    /\ stage = "new"
    /\ \/ proc' = "up" /\ stage' = "initialize" /\ Write(Discovery)
       \/ stage' = "failed" /\ UNCHANGED <<proc, nextId, asked, want, disturbed>>
    /\ UNCHANGED <<owned, lines, blocked, last, notices>>

(* An agent calls a tool, whether or not the process is still there: when   *)
(* it is not, the write or drain() may raise.                               *)
CallTool(a) ==
    /\ stage = "ready" /\ want[a] = 0 /\ nextId <= MaxCalls + 2
    /\ \/ Write(a)
       \/ proc # "up" /\ nextId' = nextId + 1 /\ UNCHANGED <<asked, want, disturbed>>
    /\ UNCHANGED <<proc, stage, owned, lines, blocked, last, notices>>

(* The caller has its result.  Discovery writes the initialized             *)
(* notification, registers the client and asks for the tools.               *)
Proceed(a) ==
    IF a = Discovery /\ stage = "initialize"
    THEN stage' = "list" /\ owned' = TRUE /\ Write(a)
    ELSE /\ stage' = IF a = Discovery THEN "ready" ELSE stage
         /\ want' = [want EXCEPT ![a] = 0]
         /\ UNCHANGED <<owned, nextId, asked, disturbed>>

(* An exception ends the call, and discovery if it is the caller. *)
GiveUp(a) ==
    /\ stage' = IF a = Discovery THEN "failed" ELSE stage
    /\ want' = [want EXCEPT ![a] = 0]
    /\ UNCHANGED <<owned, nextId, asked>>

Unblock(a) == blocked' = IF blocked = a THEN NoAgent ELSE blocked

(* What the caller makes of its line.  An answer may be an error, which     *)
(* raises as a line that is not JSON does; and when start() has its answer, *)
(* the write or drain() of the notification may raise.                      *)
Take(a, line) ==
    /\ last' = [last EXCEPT ![a] = [id |-> want[a], line |-> line]]
    /\ Unblock(a)
    /\ \/ line # Text /\ Proceed(a)
       \/ /\ line # Notice \/ (a = Discovery /\ stage = "initialize")
          /\ GiveUp(a) /\ UNCHANGED disturbed
    /\ UNCHANGED <<proc, notices>>

(* A mutant of ReadLine: start() goes on without reading its answer. *)
ReadLineNotInitialize(a) ==
    /\ want[a] # 0 /\ lines # <<>> /\ Head(lines) # Long
    /\ lines' = IF stage = "initialize" THEN lines ELSE Tail(lines)
    /\ Take(a, Head(lines))

(* readline() has a line, for whoever comes first. *)
ReadLine(a) ==
    /\ want[a] # 0 /\ lines # <<>> /\ Head(lines) # Long
    /\ lines' = Tail(lines)
    /\ Take(a, Head(lines))

(* The line is over the limit, a ValueError: readline() drops it when it    *)
(* has come as far as its newline; otherwise it drops what has come, and    *)
(* the rest is the next line, no JSON either, and may be over the limit in  *)
(* its turn.                                                                *)
ReadOverrun(a) ==
    /\ want[a] # 0 /\ lines # <<>> /\ Head(lines) = Long
    /\ lines' \in {Tail(lines), <<Text>> \o Tail(lines), lines}
    /\ disturbed' = (disturbed \/ lines' # Tail(lines))
    /\ Unblock(a) /\ GiveUp(a)
    /\ UNCHANGED <<proc, last, notices>>

(* It has none: the first caller waits. *)
WaitLine(a) ==
    /\ want[a] # 0 /\ lines = <<>> /\ blocked = NoAgent /\ proc = "up"
    /\ blocked' = a
    /\ UNCHANGED <<proc, stage, owned, nextId, asked, lines, want, last, notices, disturbed>>

(* A second one gets an exception from the stream, and at the end of the    *)
(* output there is nothing to parse.                                        *)
ReadFails(a) ==
    /\ want[a] # 0 /\ lines = <<>>
    /\ blocked \notin {NoAgent, a} \/ proc # "up"
    /\ Unblock(a) /\ GiveUp(a)
    /\ UNCHANGED <<proc, lines, last, notices, disturbed>>

(* The agent is cancelled (its timeout) while its call is open. *)
Abandon(a) ==
    /\ want[a] # 0
    /\ want' = [want EXCEPT ![a] = 0] /\ Unblock(a) /\ disturbed' = TRUE
    /\ UNCHANGED <<proc, stage, owned, nextId, asked, lines, last, notices>>

(* The server (external).  A line wakes the caller that waits, which reads  *)
(* in its turn.                                                             *)
ServerAnswers ==
    /\ proc = "up" /\ asked # <<>>
    /\ \E l \in {Head(asked), Long} : lines' = Append(lines, l)
    /\ asked' = Tail(asked) /\ blocked' = NoAgent
    /\ UNCHANGED <<proc, stage, owned, nextId, want, last, notices, disturbed>>

ServerSays ==
    /\ proc = "up" /\ notices < MaxNotices
    /\ \E l \in {Notice, Text, Long} : lines' = Append(lines, l)
    /\ notices' = notices + 1 /\ disturbed' = TRUE /\ blocked' = NoAgent
    /\ UNCHANGED <<proc, stage, owned, nextId, asked, want, last>>

ServerEnds ==
    /\ proc = "up"
    /\ proc' = "dead" /\ asked' = <<>> /\ blocked' = NoAgent
    /\ UNCHANGED <<stage, owned, nextId, lines, want, last, notices, disturbed>>

(* shutdown(), when the REPL ends: the clients in _clients are stopped. *)
Shutdown ==
    /\ stage \in {"ready", "failed"} /\ \A a \in Agents : want[a] = 0
    /\ stage' = "shut" /\ owned' = FALSE
    /\ IF owned THEN proc' = "off" /\ asked' = <<>> ELSE UNCHANGED <<proc, asked>>
    /\ UNCHANGED <<nextId, lines, want, blocked, last, notices, disturbed>>

McpNext ==
    \/ Start \/ ServerAnswers \/ ServerSays \/ ServerEnds \/ Shutdown
    \/ \E a \in Agents : CallTool(a) \/ Abandon(a)
    \/ \E a \in Callers : ReadLine(a) \/ ReadOverrun(a) \/ WaitLine(a) \/ ReadFails(a)

McpSpec == McpInit /\ [][McpNext]_pvars
-----------------------------------------------------------------------------
McpTypeOK ==
    /\ proc \in {"off", "up", "dead"}
    /\ stage \in {"new", "initialize", "list", "ready", "failed", "shut"}
    /\ asked \in Seq(1..nextId - 1) /\ lines \in Seq(Long..nextId - 1)
    /\ want \in [Callers -> 0..nextId - 1] /\ blocked \in Callers \cup {NoAgent}

(* As long as the calls come one after the other, none is left before its   *)
(* line, the server only answers and no answer is so long that readline()   *)
(* leaves its rest behind, every call gets the line that answers it,        *)
(* although no id is compared and the server may report errors, answer with *)
(* lines that are dropped as too long, or end.                              *)
OwnReply == ~disturbed => \A a \in Callers : last[a].line = last[a].id

(* What the docstring of call_tool says: "Returns: Tool result". *)
ReplyBelongsToCall ==
    \A a \in Agents : last[a].line > 0 => last[a].line = last[a].id

(* What the docstring of MCPToolManager.shutdown says: "Stop all running    *)
(* stdio MCP server processes".                                             *)
ShutdownStops == stage = "shut" => proc # "up"
=============================================================================
