----------------------------- MODULE MCHttpServer -----------------------------
(* Model checking of HttpServer: the requests that tell the cases apart.      *)
EXTENDS HttpServer

Request(version) == [type |-> "request", method |-> "GET", version |-> version]
Header(field, value) == [type |-> "header", field |-> field, value |-> value]
Connection(value) == Header("Connection", value)
Text == [type |-> "text"]       \* a line without a space or a colon, or empty

\* Both versions with and without the header that matters, which may come twice
\* and next to another one with the same value; a request line with a version
\* that is not known; a line without a colon among the headers.
MCLinesOf == [
    v11      |-> <<Request("HTTP/1.1"), Header("Host", "close"), Text>>,
    v11close |-> <<Request("HTTP/1.1"), Connection("close"), Text>>,
    v10      |-> <<Request("HTTP/1.0"), Text>>,
    v10keep  |-> <<Request("HTTP/1.0"), Connection("close"), Connection("Keep-Alive"), Text>>,
    bad      |-> <<Request("HTTP/2"), Text>>,
    junk     |-> <<Request("HTTP/1.1"), Text, Connection("close"), Text>>]

MCKinds == DOMAIN MCLinesOf
===============================================================================
