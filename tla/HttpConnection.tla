--------------------------- MODULE HttpConnection ---------------------------
(***************************************************************************)
(* http.cc under the server program of examples/http.prk: fibers accept    *)
(* connections, and a fiber of its own reads the requests of each of them, *)
(* answers, and goes on or closes. A read is tried at once and, if there   *)
(* is nothing to read, completed by the event loop. A C++ exception is     *)
(* caught nowhere, so that it ends the process, as a failed assert does    *)
(* where asserts are compiled. Packets reach the server whole.             *)
(***************************************************************************)
EXTENDS HttpParser

CONSTANTS
    Connections,
    Acceptors,     \* the fibers that accept connections
    Scripts,       \* of each connection, what its client may send: [patient,
                   \* packets], a packet being [data, headers]; a patient client
                   \* waits for each answer
    InOrder        \* the arguments of async_accept are evaluated left to right

ASSUME ConnectionAssumption == InOrder \in BOOLEAN

VARIABLES
    asserts,   \* the build has assertions (Release has none)
    crashed,   \* the process has ended
    acceptor,  \* of each accepting fiber: "running" or "waiting"
    backlog,   \* connections that no fiber has accepted yet
    client,    \* of each connection: [script, sent, got, gone]
    inbox,     \* of each connection: packets not read yet
    conn,      \* of each connection: HTTPConnectionImpl and its fiber's pc
    pool,      \* HTTPConnectionImpl::buffer_pool, a stack
    made,      \* buffers that were allocated
    last       \* of each connection: the packets of the last read

serverVars == <<asserts, crashed, acceptor, backlog, client, inbox, conn, pool, made, last>>

\* What * makes of an optional that never had a value: anything.
Indeterminate == <<"indeterminate">>
NoBuffer == 0

NewConnection ==
    [pc |-> "read", state |-> "INITIAL", open |-> TRUE, parser |-> NewParser,
     prev |-> "none", field |-> Indeterminate, value |-> Indeterminate, headers |-> << >>,
     buffer |-> NoBuffer, bad |-> FALSE]

Require(k, ok) == IF ok \/ ~asserts THEN k ELSE [k EXCEPT !.bad = TRUE]

-----------------------------------------------------------------------------
(* The callbacks. bad: an exception was thrown or an assert failed. Whether *)
(* header_field_ and header_value_ have a value is nowhere tested, and to   *)
(* reset one leaves in its place what it held: field and value are that.    *)

AppendHeader(k) ==
    Require([k EXCEPT !.headers = Append(@, <<k.field, k.value>>)], k.state = "INITIAL")

OnHeaderField(k, text) ==
    LET b == Require(k, k.state = "INITIAL" /\ k.prev # "field")
        c == CASE k.prev = "none" -> [b EXCEPT !.field = text]
               [] k.prev = "value" -> [AppendHeader(b) EXCEPT !.field = text]
               [] k.prev = "field" -> b
    IN [c EXCEPT !.prev = "field"]

OnHeaderValue(k, text) ==
    LET b == Require(k, k.state = "INITIAL" /\ k.prev # "value")
        c == CASE k.prev = "none" -> [b EXCEPT !.bad = TRUE]
               [] k.prev = "field" -> [b EXCEPT !.value = text]
               [] k.prev = "value" -> b
    IN [c EXCEPT !.prev = "value"]

OnHeadersComplete(k) == [AppendHeader(k) EXCEPT !.state = "HEADERS_COMPLETE"]

Callback(k, call) ==
    CASE k.bad -> k
      [] ~k.bad /\ call[1] = "header_field" -> OnHeaderField(k, call[2])
      [] ~k.bad /\ call[1] = "header_value" -> OnHeaderValue(k, call[2])
      [] ~k.bad /\ call[1] = "headers_complete" -> OnHeadersComplete(k)
      [] ~k.bad /\ call[1] = "body" -> Require(k, FALSE)
      [] OTHER -> k

\* parse_some: there has to be a whole head of a request in what was read.
Judged(k, whole) == [k EXCEPT !.bad = @ \/ ~whole \/ k.state # "HEADERS_COMPLETE"]

\* A connection after these calls, in their order.
Notified(k, calls) ==
    LET f[i \in 0 .. Len(calls)] == IF i = 0 THEN k ELSE Callback(f[i - 1], calls[i])
    IN f[Len(calls)]

\* What the callbacks leave, in the fields that they have anything to do with.
AfterCalls(k, run) ==
    LET b == Notified([k EXCEPT !.parser = run.p], run.calls)
    IN Judged([k EXCEPT !.parser = b.parser, !.state = b.state, !.prev = b.prev, !.field = b.field,
                        !.value = b.value, !.headers = b.headers, !.bad = b.bad], run.whole)

ParseSome(k, data) == AfterCalls(k, Execute(k.parser, data))

-----------------------------------------------------------------------------
FaultReleaseBuffer(k) == k

\* release_buffer, as far as the connection goes.
ReleaseBuffer(k) == [k EXCEPT !.buffer = NoBuffer]

FaultResetHeaders(k) == k

\* The start of read_request: the optionals are reset as well.
ResetHeaders(k) == [k EXCEPT !.headers = << >>]

ServerInit ==
    /\ asserts \in BOOLEAN
    /\ crashed = FALSE
    /\ acceptor = [f \in Acceptors |-> "running"]
    /\ backlog = Connections
    /\ \E script \in [Connections -> UNION {Scripts[c] : c \in Connections}] :
           /\ \A c \in Connections : script[c] \in Scripts[c]
           /\ client = [c \in Connections |->
                            [script |-> script[c], sent |-> 0, got |-> 0, gone |-> FALSE]]
    /\ inbox = [c \in Connections |-> << >>]
    /\ conn = [c \in Connections |-> [NewConnection EXCEPT !.pc = "unborn"]]
    /\ pool = << >>
    /\ made = 0
    /\ last = [c \in Connections |-> << >>]

Become(c, k) ==
    /\ conn' = [conn EXCEPT ![c] = k]
    /\ crashed' = k.bad

\* The client sends its next packet, or leaves.
Send(c) ==
    LET k == client[c] IN
    /\ ~k.gone /\ k.sent < Len(k.script.packets)
    /\ k.script.patient => k.got = k.sent
    /\ client' = [client EXCEPT ![c].sent = @ + 1]
    /\ inbox' = [inbox EXCEPT ![c] = Append(@, k.script.packets[k.sent + 1])]
    /\ UNCHANGED <<asserts, crashed, acceptor, backlog, conn, pool, made, last>>

Leave(c) ==
    /\ ~client[c].gone
    /\ client' = [client EXCEPT ![c].gone = TRUE]
    /\ UNCHANGED <<asserts, crashed, acceptor, backlog, inbox, conn, pool, made, last>>

\* http_accept_connection: a connection is there, at once or by the event loop
\* later. The fiber of the new connection is spawned, and the loop goes on.
AcceptConnection(f, c) ==
    /\ ~crashed /\ c \in backlog
    /\ backlog' = backlog \ {c}
    /\ acceptor' = [acceptor EXCEPT ![f] = "running"]
    /\ conn' = [conn EXCEPT ![c] = NewConnection]
    /\ UNCHANGED <<asserts, crashed, client, inbox, pool, made, last>>

\* accept_connection_async dereferences a pointer in one argument of a call
\* and moves it away in another.
AcceptConnectionAsync(f) ==
    /\ ~crashed /\ acceptor[f] = "running" /\ backlog = {}
    /\ acceptor' = [acceptor EXCEPT ![f] = "waiting"]
    /\ crashed' = ~InOrder
    /\ UNCHANGED <<asserts, backlog, client, inbox, conn, pool, made, last>>

Bytes(packets) == FoldLeft(LAMBDA out, m : out \o m.data, << >>, packets)

\* Some or all of the packets that have arrived were read into the buffer of k.
Transferred(c, k, n) ==
    /\ last' = [last EXCEPT ![c] = SubSeq(inbox[c], 1, n)]
    /\ inbox' = [inbox EXCEPT ![c] = SubSeq(@, n + 1, Len(@))]
    /\ \E b \in {ParseSome(k, Bytes(SubSeq(inbox[c], 1, n)))} :
           Become(c, IF b.bad THEN b ELSE [ReleaseBuffer(b) EXCEPT !.pc = "write"])

\* read_request: reads at once if it can.
ReadRequest(c) ==
    LET k == ResetHeaders(Require(conn[c], conn[c].state = "INITIAL"))
        reused == k.buffer = NoBuffer /\ pool # << >>
        new == k.buffer = NoBuffer /\ pool = << >>
        b == IF reused THEN [k EXCEPT !.buffer = Last(pool)]
             ELSE IF new THEN [k EXCEPT !.buffer = made + 1] ELSE k
        left == IF reused THEN Front(pool) ELSE pool
    IN
    /\ ~crashed /\ conn[c].pc = "read"
    /\ made' = IF new THEN made + 1 ELSE made
    /\ \/ /\ inbox[c] # << >>
          /\ \E n \in 1 .. Len(inbox[c]) : Transferred(c, b, n)
          /\ pool' = IF crashed' THEN left ELSE Append(left, b.buffer)
       \/ /\ inbox[c] = << >>
          /\ Become(c, [b EXCEPT !.pc = IF client[c].gone THEN "failed" ELSE "reading"])
          /\ pool' = left
          /\ UNCHANGED <<inbox, last>>
    /\ UNCHANGED <<asserts, acceptor, backlog, client>>

\* The completion of async_read_some in read_request_async.
ReadCompleted(c) ==
    /\ ~crashed /\ conn[c].pc = "reading"
    /\ \/ /\ inbox[c] # << >>
          /\ \E n \in 1 .. Len(inbox[c]) : Transferred(c, conn[c], n)
          /\ pool' = IF crashed' THEN pool ELSE Append(pool, conn[c].buffer)
       \/ /\ inbox[c] = << >> /\ client[c].gone
          /\ Become(c, [conn[c] EXCEPT !.pc = "failed"])
          /\ UNCHANGED <<pool, inbox, last>>
    /\ UNCHANGED <<asserts, acceptor, backlog, client, made>>

\* The writes of write_response: one to a client that has left may fail.
Write(c) ==
    LET k == conn[c] IN
    /\ ~crashed /\ k.pc = "write"
    /\ \E failed \in IF k.state # "HEADERS_COMPLETE" THEN {TRUE} ELSE {FALSE, client[c].gone} :
           Become(c, [k EXCEPT !.bad = failed, !.pc = "finish"])
    /\ client' = [client EXCEPT ![c].got = IF crashed' THEN @ ELSE @ + 1]
    /\ UNCHANGED <<asserts, acceptor, backlog, inbox, pool, made, last>>

FaultResponseFinish(c) ==
    /\ ~crashed /\ conn[c].pc = "finish"
    /\ conn' = [conn EXCEPT ![c].pc = "keepalive"]
    /\ UNCHANGED <<asserts, crashed, acceptor, backlog, client, inbox, pool, made, last>>

ResponseFinish(c) ==
    /\ ~crashed /\ conn[c].pc = "finish"
    /\ conn' = [conn EXCEPT ![c].pc = "keepalive", ![c].state = "INITIAL"]
    /\ UNCHANGED <<asserts, crashed, acceptor, backlog, client, inbox, pool, made, last>>

FaultKeepAlive(c) ==
    /\ ~crashed /\ conn[c].pc = "keepalive"
    /\ conn' = [conn EXCEPT ![c].pc =
                    IF "keep_alive" \in conn[c].parser.flags /\ conn[c].open THEN "read" ELSE "close"]
    /\ UNCHANGED <<asserts, crashed, acceptor, backlog, client, inbox, pool, made, last>>

\* http_keepalive, and on to the next request or to the end.
KeepAlive(c) ==
    /\ ~crashed /\ conn[c].pc = "keepalive"
    /\ conn' = [conn EXCEPT ![c].pc =
                    IF ShouldKeepAlive(conn[c].parser) /\ conn[c].open THEN "read" ELSE "close"]
    /\ UNCHANGED <<asserts, crashed, acceptor, backlog, client, inbox, pool, made, last>>

\* The deferred close. A failed read leaves before the defer is reached.
Close(c) ==
    /\ ~crashed /\ conn[c].pc = "close"
    /\ conn' = [conn EXCEPT ![c].pc = "done", ![c].open = FALSE]
    /\ UNCHANGED <<asserts, crashed, acceptor, backlog, client, inbox, pool, made, last>>

\* The destructor, once the sweep finds the connection of a fiber that ended.
Destroy(c) ==
    /\ ~crashed /\ conn[c].pc \in {"done", "failed"}
    /\ conn' = [conn EXCEPT ![c] = [ReleaseBuffer(@) EXCEPT !.pc = "swept", !.open = FALSE]]
    /\ pool' = IF conn[c].buffer = NoBuffer THEN pool ELSE Append(pool, conn[c].buffer)
    /\ UNCHANGED <<asserts, crashed, acceptor, backlog, client, inbox, made, last>>

FiberStep(c) == Write(c) \/ ResponseFinish(c) \/ KeepAlive(c) \/ Close(c)

ServerNext ==
    \/ \E f \in Acceptors :
           AcceptConnectionAsync(f) \/ \E c \in Connections : AcceptConnection(f, c)
    \/ \E c \in Connections :
           \/ Send(c) \/ Leave(c) \/ Destroy(c)
           \/ ReadRequest(c) \/ ReadCompleted(c) \/ FiberStep(c)

\* Whether the fiber of c, or the event loop for it, can read.
CanRead(c) ==
    /\ ~crashed
    /\ \/ conn[c].pc = "read"
       \/ conn[c].pc = "reading" /\ (inbox[c] # << >> \/ client[c].gone)

\* Fibers run and the event loop delivers; clients and the sweep may take any
\* time. For the reads, weak fairness is written out with CanRead in place of
\* ENABLED, for which TLC would parse a request many times.
Fairness ==
    \A c \in Connections :
        /\ WF_serverVars(FiberStep(c))
        /\ WF_serverVars(\E f \in Acceptors : AcceptConnection(f, c))
        /\ []<>~CanRead(c) \/ []<><<ReadRequest(c) \/ ReadCompleted(c)>>_serverVars

ServerSpec == ServerInit /\ [][ServerNext]_serverVars /\ Fairness

-----------------------------------------------------------------------------
Holders(b) == {c \in Connections : conn[c].buffer = b}
Places(b) == {i \in DOMAIN pool : pool[i] = b}

\* A buffer that was ever allocated is in the pool once, or one connection has
\* it, and none has one but while its fiber waits for a read, or after a read
\* failed, until the connection is destroyed (ensure_buffer, release_buffer).
BuffersAccounted ==
    ~crashed =>
        /\ \A b \in 1 .. made : Cardinality(Holders(b)) + Cardinality(Places(b)) = 1
        /\ \A c \in Connections :
               conn[c].buffer # NoBuffer <=> conn[c].pc \in {"reading", "failed"}

\* The headers, name and value, that a text tells of.
HeadersTold(text) ==
    LET calls == Execute(NewParser, text).calls IN
    {<<calls[i][2], calls[i + 1][2]>> : i \in {l \in DOMAIN calls : calls[l][1] = "header_field"}}

HeadersHeard(packets, n) ==
    UNION {HeadersTold(Bytes(SubSeq(packets, i, j))) : i, j \in 1 .. n}

\* What a connection may have heard of before its last read.
Stale(c) ==
    {<<Indeterminate, Indeterminate>>}
        \cup HeadersHeard(client[c].script.packets, client[c].sent - Len(inbox[c]) - Len(last[c]))

\* After a read of one request the headers are those of this request, in their
\* order, but for one entry before them, which on_header_field and
\* on_headers_complete append at the first header of a later request (prev_header_cb
\* is left at value) and for a request without headers. That entry is a whole
\* header of an earlier read of this connection or was never set: never a name
\* with the value of another header, nor a header of this request.
HeadersAreTheRequests ==
    \A c \in Connections :
        ~crashed /\ conn[c].state = "HEADERS_COMPLETE" /\ Len(last[c]) = 1 =>
            \/ conn[c].headers = last[c][1].headers
            \/ \E h \in Stale(c) : conn[c].headers = <<h>> \o last[c][1].headers

\* What on_headers_complete says that it does, "finalize headers": after a read of
\* one request the headers are those of this request and nothing else.
HeadersOfTheRequestOnly ==
    \A c \in Connections :
        ~crashed /\ conn[c].state = "HEADERS_COMPLETE" /\ Len(last[c]) = 1 =>
            conn[c].headers = last[c][1].headers

\* The process ends only if a request came in pieces, with another in one read
\* or after one that ends the conversation, or a client left before its answer
\* ("TODO read more", "TODO check nparsed", assert in read_request and write).
OnlyKnownCrashes ==
    crashed => \E c \in Connections :
        Len(last[c]) > 1 \/ ~client[c].script.patient \/ client[c].gone

\* A client that sends one whole request at a time gets an answer to each, for
\* as long as it stays and no other client ends the process.
RequestsAnswered ==
    \A c \in Connections, n \in 1 .. 2 :
        (client[c].script.patient /\ client[c].sent >= n)
            ~> (client[c].got >= n \/ client[c].gone \/ crashed)

-----------------------------------------------------------------------------
\* The calls for a request with these headers and no body.
CallsOf(calls, headers) ==
    \E n \in 0 .. Len(calls) :
        /\ Len(calls) = 2 * n + 4
        /\ headers = [i \in 1 .. n |-> <<calls[2 * i + 1][2], calls[2 * i + 2][2]>>]
        /\ calls[1][1] = "message_begin" /\ calls[2][1] = "url"
        /\ \A i \in 1 .. n : /\ calls[2 * i + 1][1] = "header_field"
                             /\ calls[2 * i + 2][1] = "header_value"
        /\ calls[2 * n + 3][1] = "headers_complete"
        /\ calls[2 * n + 4][1] = "message_complete"

HasHead(run) == run.whole /\ \E i \in DOMAIN run.calls : run.calls[i][1] = "headers_complete"

\* Every message has ended, and each header's name was followed by its value.
AtEnd(run) ==
    /\ run.p.state = NewMessage(run.p)
    /\ \A i \in DOMAIN run.calls :
           /\ run.calls[i][1] = "header_field" =>
                  i + 1 \in DOMAIN run.calls /\ run.calls[i + 1][1] = "header_value"
           /\ run.calls[i][1] = "header_value" =>
                  i - 1 \in DOMAIN run.calls /\ run.calls[i - 1][1] = "header_field"

\* What the packets of a script are, by how a new parser takes them: no read ends
\* after the head of a request and within the request, and a packet that has a
\* head is a whole request with the headers it is said to have, as every packet
\* of a patient client is.
ScriptsRead ==
    \A c \in Connections : \A s \in Scripts[c] :
        /\ s.packets \in Seq(ToSet(s.packets))
        /\ \A i \in 1 .. Len(s.packets) : \A j \in i .. Len(s.packets) :
               LET text == Bytes(SubSeq(s.packets, i, j))
                   run == Execute(NewParser, text)
               IN /\ text \in Seq(ToSet(text))
                  /\ HasHead(run) => AtEnd(run)
                  /\ i = j /\ (s.patient \/ HasHead(run)) =>
                         run.whole /\ CallsOf(run.calls, s.packets[i].headers)
=============================================================================
