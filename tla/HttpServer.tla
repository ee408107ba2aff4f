----------------------------- MODULE HttpServer -----------------------------
(***************************************************************************)
(* rpc/http on top of one Connection: the client sends requests, which     *)
(* arrive in pieces of any size; HttpServer::onMessage parses what is in   *)
(* the input buffer, line by line, and answers.  HttpServer gives its      *)
(* multi::Server no worker threads, so all of it runs in one loop.         *)
(*                                                                         *)
(* A line of a request is a record that tells what the parser looks for in *)
(* it.  Paths, queries and bodies of responses are left out.  Pieces are   *)
(* counted in half lines and responses in halves, so that lines, requests  *)
(* and responses can be cut in two.  Errors of the socket are in TcpServer.*)
(***************************************************************************)
EXTENDS Integers, Sequences, SequencesExt, Functions

CONSTANTS
    Kinds,          \* the requests that the client may send
    LinesOf,        \* LinesOf[kind]: the lines of the request
    MaxRequests     \* bound: requests on the connection

\* A line has two spaces, a colon, or neither.
Lines == [type : {"request"}, method : STRING, version : STRING]
            \cup [type : {"header"}, field : STRING, value : STRING]
            \cup [type : {"text"}]

ASSUME HttpAssumption ==
    MaxRequests \in Nat /\ \A k \in Kinds : LinesOf[k] \in Seq(Lines) \ {<<>>}

VARIABLES
    requests,   \* the requests the client has sent
    arrived,    \* half lines of them read into _input_buf
    pos,        \* lines of them taken out of _input_buf
    context,    \* the HttpContext of the connection
    pc,         \* the loop thread: where it is in onMessage
    status,     \* _status
    out,        \* _output_buf, in half responses
    writable,   \* IsWritable(): EV_WRITE is asked for
    wire,       \* history: half responses the socket took
    answers,    \* history: the responses that were sent, in their order
    waited      \* history: the client had all responses when it sent a request

httpVars == <<requests, arrived, pos, context, pc, status, out, writable, wire,
              answers, waited>>

Methods == {"GET", "POST", "HEAD", "PUT", "DELETE"}
Versions == {"HTTP/1.0", "HTTP/1.1"}

Stream == FlattenSeq([i \in 1..Len(requests) |-> LinesOf[requests[i]]])
LineComplete == arrived >= 2 * (pos + 1)
Line == Stream[pos + 1]

\* A default HttpRequest, and the context of a new connection.
NewRequest == [method |-> "invalid", version |-> "unknown", headers |-> <<>>]
NewContext == [state |-> "requestLine", request |-> NewRequest]

\* Mutant: the request keeps its headers.
MutResetContext(c) == [NewContext EXCEPT !.request.headers = c.request.headers]

ResetContext(c) == NewContext

-----------------------------------------------------------------------------
(* Connection.                                                             *)

Halves(i) == <<<<i, 1>>, <<i, 2>>>>

\* Mutant: the socket is asked although older responses wait.
MutSend(answer) ==
    LET data == Halves(Len(answers) + 1) IN
    \E taken \in 0..Len(data) :
        /\ status = "connected"
        /\ answers' = Append(answers, answer)
        /\ wire' = wire \o SubSeq(data, 1, taken)
        /\ out' = out \o SubSeq(data, taken + 1, Len(data))
        /\ writable' = (writable \/ taken < Len(data))

\* send: the socket is asked at once only when nothing waits; it takes what it
\* can, and the rest is written when epoll reports the socket.
Send(answer) ==
    LET data == Halves(Len(answers) + 1)
        direct == ~writable /\ out = <<>> IN
    \E taken \in 0..(IF direct THEN Len(data) ELSE 0) :
        /\ status = "connected"
        /\ answers' = Append(answers, answer)
        /\ wire' = wire \o SubSeq(data, 1, taken)
        /\ out' = out \o SubSeq(data, taken + 1, Len(data))
        /\ writable' = (writable \/ taken < Len(data))

\* ForceClose in the loop thread; what is in _output_buf is never written.
ForceClose == status = "connected" /\ status' = "closed"

-----------------------------------------------------------------------------
(* The parts of HttpRequest and HttpContext.                               *)

\* processRequestLine: the method is stored even if the rest is wrong.
WithRequestLine(c, l) ==
    IF l.type = "request" /\ l.method \in Methods
    THEN [c EXCEPT !.request.method = l.method,
                   !.request.version = IF l.version \in Versions THEN l.version ELSE @]
    ELSE c

GoodRequestLine(l) ==
    l.type = "request" /\ l.method \in Methods /\ l.version \in Versions

\* addHeader and getHeader.
AddHeader(headers, l) ==
    [f \in DOMAIN headers \cup {l.field} |-> IF f = l.field THEN l.value ELSE headers[f]]

GetHeader(headers, field) == IF field \in DOMAIN headers THEN headers[field] ELSE ""

\* Whether the connection is to be closed after the response to a request.
AsksToClose(request) ==
    LET connection == GetHeader(request.headers, "Connection") IN
    \/ connection = "close"
    \/ request.version = "HTTP/1.0" /\ connection # "Keep-Alive"

\* appendToBuffer: a response says how long it is unless it is the last one.
\* "asked" is what onRequest made of the request.
Response(code, asked, close) ==
    [status |-> code, asked |-> asked, length |-> ~close, keepAlive |-> ~close]

\* The literal of onMessage.
BadRequestResponse == [status |-> 400, asked |-> TRUE, length |-> FALSE, keepAlive |-> FALSE]

-----------------------------------------------------------------------------
HttpInit ==
    /\ requests = <<>>
    /\ arrived = 0
    /\ pos = 0
    /\ context = NewContext     \* onConnection
    /\ pc = "select"
    /\ status = "connected"
    /\ out = <<>>
    /\ writable = FALSE
    /\ wire = <<>>
    /\ answers = <<>>
    /\ waited = TRUE

(* The client.                                                             *)

ClientSends(kind) ==
    /\ status = "connected"
    /\ Len(requests) < MaxRequests
    /\ requests' = Append(requests, kind)
    /\ waited' = (waited /\ Len(wire) = 2 * Len(requests))
    /\ UNCHANGED <<arrived, pos, context, pc, status, out, writable, wire, answers>>

(* The loop thread.                                                        *)

\* Connection::HandleRead: some bytes arrive, onMessage starts to parse.
HandleRead ==
    /\ status = "connected"
    /\ pc = "select"
    /\ \E n \in (arrived + 1)..(2 * Len(Stream)) : arrived' = n
    /\ pc' = "parse"
    /\ UNCHANGED <<requests, pos, context, status, out, writable, wire, answers, waited>>

\* The client has shut down its side and everything was read.
HandleEof ==
    /\ status = "connected"
    /\ pc = "select"
    /\ arrived = 2 * Len(Stream)
    /\ status' = "closed"
    /\ UNCHANGED <<requests, arrived, pos, context, pc, out, writable, wire, answers, waited>>

\* Mutant: EV_WRITE is dropped although something is left to write.
MutHandleWrite ==
    /\ status = "connected"
    /\ pc = "select"
    /\ writable
    /\ \E n \in 1..Len(out) :
        /\ wire' = wire \o SubSeq(out, 1, n)
        /\ out' = SubSeq(out, n + 1, Len(out))
        /\ writable' = FALSE
    /\ UNCHANGED <<requests, arrived, pos, context, pc, status, answers, waited>>

\* Connection::HandleWrite; epoll reports the socket when it takes something.
HandleWrite ==
    /\ status = "connected"
    /\ pc = "select"
    /\ writable
    /\ \E n \in 1..Len(out) :
        /\ wire' = wire \o SubSeq(out, 1, n)
        /\ out' = SubSeq(out, n + 1, Len(out))
        /\ writable' = (n < Len(out))
    /\ UNCHANGED <<requests, arrived, pos, context, pc, status, answers, waited>>

\* parseRequest, first state.
ParseRequestLine ==
    /\ pc = "parse"
    /\ status = "connected"
    /\ context.state = "requestLine"
    /\ LineComplete
    /\ \/ /\ GoodRequestLine(Line)
          /\ context' = [WithRequestLine(context, Line) EXCEPT !.state = "headers"]
          /\ pos' = pos + 1
          /\ UNCHANGED pc
       \/ /\ ~GoodRequestLine(Line)
          /\ context' = WithRequestLine(context, Line)
          /\ pc' = "bad"
          /\ UNCHANGED pos
    /\ UNCHANGED <<requests, arrived, status, out, writable, wire, answers, waited>>

\* parseRequest, second state: any line without a colon ends the headers.
ParseHeader ==
    /\ pc = "parse"
    /\ context.state = "headers"
    /\ LineComplete
    /\ pos' = pos + 1
    /\ \/ /\ Line.type = "header"
          /\ context' = [context EXCEPT !.request.headers = AddHeader(@, Line)]
          /\ UNCHANGED pc
       \/ /\ Line.type # "header"
          /\ context' = [context EXCEPT !.state = "gotAll"]
          /\ pc' = "request"
    /\ UNCHANGED <<requests, arrived, status, out, writable, wire, answers, waited>>

\* No line end is left in the buffer: onMessage returns.
WaitForMore ==
    /\ pc = "parse"
    /\ status = "connected"
    /\ ~LineComplete
    /\ pc' = "select"
    /\ UNCHANGED <<requests, arrived, pos, context, status, out, writable, wire,
                   answers, waited>>

\* findCRLF looks past the readable bytes, where the lines that were read
\* before have left theirs: a line end it finds there belongs to no line.  What
\* follows (a failed assertion of Seek, or a request nobody sent) is not
\* modelled.
FindStaleLineEnd ==
    /\ pc = "parse"
    /\ status = "connected"
    /\ ~LineComplete
    /\ pos > 0
    /\ status' = "stale"
    /\ UNCHANGED <<requests, arrived, pos, context, pc, out, writable, wire, answers, waited>>

\* The rest of onMessage after an error: 400 and ForceClose.
BadRequest ==
    /\ pc = "bad"
    /\ Send(BadRequestResponse)
    /\ ForceClose
    /\ pc' = "select"
    /\ UNCHANGED <<requests, arrived, pos, context, waited>>

\* onRequest and the end of onMessage: the callback may set or clear the wish to
\* close.  What is left in the buffer waits for the next call of onMessage.
OnRequest ==
    /\ pc = "request"
    /\ LET asked == AsksToClose(context.request) IN
        \E close \in BOOLEAN :
            /\ Send(Response(200, asked, close))
            /\ IF close THEN ForceClose ELSE UNCHANGED status
    /\ context' = ResetContext(context)
    /\ pc' = "select"
    /\ UNCHANGED <<requests, arrived, pos, waited>>

LoopStep ==
    \/ HandleRead \/ HandleWrite \/ ParseRequestLine \/ ParseHeader \/ WaitForMore
    \/ FindStaleLineEnd \/ BadRequest \/ OnRequest

HttpNext ==
    \/ \E kind \in Kinds : ClientSends(kind)
    \/ HandleEof
    \/ LoopStep

\* The client reads what is written, and what it sends arrives, so that epoll
\* reports the socket again and again for each; the loop serves both.
Fairness == WF_httpVars(LoopStep) /\ WF_httpVars(HandleRead) /\ WF_httpVars(HandleWrite)

HttpSpec == HttpInit /\ [][HttpNext]_httpVars /\ Fairness

-----------------------------------------------------------------------------
\* The types of the variables.
HttpTypeOK ==
    /\ requests \in Seq(Kinds) /\ Len(requests) <= MaxRequests
    /\ arrived \in 0..(2 * Len(Stream)) /\ pos \in 0..Len(Stream)
    /\ context.state \in {"requestLine", "headers", "gotAll"}
    /\ pc \in {"select", "parse", "bad", "request"}
    /\ status \in {"connected", "closed", "stale"}
    /\ writable \in BOOLEAN /\ waited \in BOOLEAN

\* What a request means, read as a whole: a request line, headers, and nothing
\* between the empty line and the next request.
WellFormedRequest(kind) ==
    LET lines == LinesOf[kind] IN
    /\ GoodRequestLine(lines[1])
    /\ \A i \in 2..(Len(lines) - 1) : lines[i].type = "header"
    /\ lines[Len(lines)].type = "text"

\* The line is a Connection header, and no later line of the request is one.
LastConnection(lines, i) ==
    LET connection(j) == lines[j].type = "header" /\ lines[j].field = "Connection" IN
    connection(i) /\ \A j \in (i + 1)..Len(lines) : ~connection(j)

Meaning(kind) ==
    LET lines == LinesOf[kind]
        says(v) == \E i \in 2..Len(lines) : LastConnection(lines, i) /\ lines[i].value = v IN
    IF ~WellFormedRequest(kind) THEN [status |-> 400, asked |-> TRUE]
    ELSE [status |-> 200,
          asked |-> \/ says("close")
                    \/ lines[1].version = "HTTP/1.0" /\ ~says("Keep-Alive")]

\* However the requests are cut into pieces and run into each other, the i-th
\* response answers the i-th request by what that request says, and by nothing
\* an earlier one said: this holds up to the first request whose lines do not
\* tell where it ends.  The assertion of setMethod holds: a request line is
\* parsed only into a HttpRequest without a method.
AnswersMatchRequests ==
    /\ HttpTypeOK
    /\ pc = "parse" /\ context.state = "requestLine" => context.request.method = "invalid"
    /\ \A i \in 1..Len(answers) :
        (\A j \in 1..i : j <= Len(requests) /\ (WellFormedRequest(requests[j])
                                                 \/ ~GoodRequestLine(LinesOf[requests[j]][1])))
            => /\ answers[i].status = Meaning(requests[i]).status
               /\ answers[i].asked = Meaning(requests[i]).asked

\* The client sees the responses in their order and without gaps, whether they
\* were written at once, later or in parts; nothing is lost while the connection
\* is open.  A response without a length is the last one, and the connection is
\* closed by it.
WireInOrder ==
    LET all == FlattenSeq([i \in 1..Len(answers) |-> Halves(i)]) IN
    /\ IsPrefix(wire, all)
    /\ status = "connected" => wire \o out = all /\ (writable <=> out # <<>>)
    /\ \A i \in 1..Len(answers) :
        ~answers[i].length => i = Len(answers) /\ status # "connected"

\* A client that waits for each response before it sends the next request gets
\* all of them, unless the connection ends.
WaitingClientAnswered ==
    \A i \in 1..MaxRequests :
        Len(requests) >= i ~> Len(wire) >= 2 * i \/ ~waited \/ status # "connected"
=============================================================================
