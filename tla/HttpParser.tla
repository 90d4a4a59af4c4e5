----------------------------- MODULE HttpParser -----------------------------
(***************************************************************************)
(* http_parser.c for requests, in strict mode, as the server uses it: the  *)
(* parser is a record that survives from one read to the next, and Execute *)
(* runs it over the characters of one read and lists the callbacks it      *)
(* makes. A character of the model is a piece of a request that the parser *)
(* tells apart from others ("con", "nection", "\r", a digit); the pieces   *)
(* are small enough that a read can end inside a name or a value. A state  *)
(* is named as in the code, without s_ or h_; the size limit of a header,  *)
(* overlong lengths, CONNECT and responses are left out.                   *)
(***************************************************************************)
EXTENDS Integers, Sequences, FiniteSets, SequencesExt

Digits == [c \in {"0", "1", "2"} |-> IF c = "0" THEN 0 ELSE IF c = "1" THEN 1 ELSE 2]

None == -1      \* ULLONG_MAX: no content length

\* http_parser_init for requests.
NewParser == [state |-> "start_req", header |-> "general", flags |-> {}, length |-> None,
              major |-> 0, minor |-> 0, index |-> 0, upgrade |-> FALSE, error |-> FALSE]

\* The target of the move from state s over c, or otherwise.
Move(moves, s, c, otherwise) ==
    IF \E m \in moves : m[1] = s /\ m[2] = c
    THEN (CHOOSE m \in moves : m[1] = s /\ m[2] = c)[3]
    ELSE otherwise

\* parse_url_char; "u" is any letter.
UrlMoves ==
    {<<"spaces_before_url", "/", "path">>, <<"spaces_before_url", "u", "schema">>,
     <<"schema", "u", "schema">>, <<"schema", ":", "schema_slash">>,
     <<"schema_slash", "/", "schema_slash_slash">>,
     <<"schema_slash_slash", "/", "server_start">>}
    \cup {<<s, "/", "path">> : s \in {"server_start", "server", "server_with_at", "path"}}
    \cup {<<s, c, "server">> : s \in {"server_start", "server", "server_with_at"},
                              c \in {"u", ":"}}
    \cup {<<s, "@", "server_with_at">> : s \in {"server_start", "server"}}
    \cup {<<s, "?", "query">> : s \in {"server_start", "server", "server_with_at", "path"}}
    \cup {<<"path", c, "path">> : c \in {"u", "@", ":"}}
    \cup {<<"query", c, "query">> : c \in {"u", "@", ":", "/", "?"}}
    \cup {<<s, "#", "fragment">> : s \in {"path", "query", "fragment"}}
    \cup {<<"fragment", c, "fragment">> : c \in {"u", "@", ":", "/", "?"}}

UrlStates == {m[3] : m \in UrlMoves}

\* The header names that mean something to the parser.
NameMoves ==
    {<<"start", "con", "CON">>, <<"start", "transfer-", "matching_transfer_encoding">>,
     <<"start", "proxy-con", "matching_proxy_connection">>,
     <<"matching_proxy_connection", "nection", "connection">>,
     <<"start", "upgrade", "upgrade">>, <<"CON", "nection", "connection">>,
     <<"CON", "tent-length", "content_length">>,
     <<"matching_transfer_encoding", "encoding", "transfer_encoding">>}

\* How a value begins, by the header it belongs to, and how it goes on.
ValueStartMoves ==
    {<<"transfer_encoding", "chu", "matching_chunked">>,
     <<"connection", "keep-", "matching_keep_alive">>,
     <<"connection", "clo", "matching_close">>,
     <<"connection", "upgrade", "connection_upgrade">>}

TokenMoves ==
    {<<"token_start", "keep-", "matching_keep_alive">>,
     <<"token_start", "clo", "matching_close">>,
     <<"token_start", "upgrade", "connection_upgrade">>,
     <<"token_start", " ", "token_start">>,
     <<"matching_keep_alive", "alive", "keep_alive">>,
     <<"matching_close", "se", "close">>,
     <<"token", ",", "token_start">>}
    \cup {<<"token_start", c, "general">> : c \in {",", ":", "/", "?", "@"}}
    \cup {<<h, " ", h>> : h \in {"keep_alive", "close", "connection_upgrade"}}

\* The flags that a value sets once it is complete.
Tokens == {"keep_alive", "close", "connection_upgrade"}

FlagOf(h) == IF h \in Tokens \cup {"chunked"} THEN {h} ELSE {}

ShouldKeepAlive(p) ==
    IF p.major > 0 /\ p.minor > 0 THEN "close" \notin p.flags ELSE "keep_alive" \in p.flags

NewMessage(p) == IF ShouldKeepAlive(p) THEN "start_req" ELSE "dead"

-----------------------------------------------------------------------------
(* A run in progress is the parser p, what the marked text is (mark, text), *)
(* the callbacks so far, and whether the run goes on.                       *)

Fail(a) == [a EXCEPT !.p.error = TRUE, !.stop = TRUE, !.whole = FALSE]

Goto(a, state) == [a EXCEPT !.p.state = state]

Notify(a, kind) == [a EXCEPT !.calls = Append(@, <<kind, << >>>>)]

\* CALLBACK_DATA: nothing happens without a mark.
Emit(a, kind) ==
    IF a.mark = kind
    THEN [a EXCEPT !.calls = Append(@, <<kind, a.text>>), !.mark = "none", !.text = << >>]
    ELSE a

Take(a, c) == [a EXCEPT !.text = Append(@, c)]

\* MARK: a text that is marked goes on.
Mark(a, kind, c) == IF a.mark = kind THEN Take(a, c) ELSE [a EXCEPT !.mark = kind, !.text = <<c>>]

StartReq(a, c) ==
    IF c \in {"\r", "\n"} THEN a
    ELSE LET fresh == [a EXCEPT !.p.flags = {}, !.p.length = None]
         IN IF c # "G" THEN Fail(fresh)
            ELSE Notify([fresh EXCEPT !.p.state = "req_method", !.p.index = 1],
                        "message_begin")

ReqMethod(a, c) ==
    IF c = " " /\ a.p.index = 3 THEN Goto(a, "spaces_before_url")
    ELSE IF c = "ET" /\ a.p.index = 1 THEN [a EXCEPT !.p.index = 3]
    ELSE Fail(a)

Url(a, c) ==
    LET s == a.p.state
        next == Move(UrlMoves, s, c, "dead")
        strict == s \notin {"path", "query", "fragment", "server", "server_with_at"}
    IN IF s = "spaces_before_url" /\ c = " " THEN a
       ELSE IF c = " " /\ ~strict THEN Emit(Goto(a, "http_start"), "url")
       ELSE IF c \in {"\r", "\n"} /\ ~strict
       THEN Emit([a EXCEPT !.p.major = 0, !.p.minor = 9,
                           !.p.state = IF c = "\r" THEN "line_almost_done"
                                       ELSE "header_field_start"], "url")
       ELSE IF next = "dead" THEN Fail(Goto(a, next))
       ELSE IF s = "spaces_before_url" THEN Mark(Goto(a, next), "url", c)
       ELSE Take(Goto(a, next), c)

\* From the first "H" to the end of the line.
Version(a, c) ==
    LET s == a.p.state
        number == c \in DOMAIN Digits
    IN CASE s = "http_start" /\ c = " " -> a
         [] s = "http_start" /\ c = "HTTP/" -> Goto(a, "first_http_major")
         [] s = "first_http_major" /\ number /\ c # "0" ->
                [a EXCEPT !.p.state = "http_major", !.p.major = Digits[c]]
         [] s = "http_major" /\ c = "." -> Goto(a, "first_http_minor")
         [] s = "http_major" /\ number -> [a EXCEPT !.p.major = 10 * @ + Digits[c]]
         [] s = "first_http_minor" /\ number ->
                [a EXCEPT !.p.state = "http_minor", !.p.minor = Digits[c]]
         [] s = "http_minor" /\ number -> [a EXCEPT !.p.minor = 10 * @ + Digits[c]]
         [] s = "http_minor" /\ c = "\r" -> Goto(a, "line_almost_done")
         [] s = "http_minor" /\ c = "\n" -> Goto(a, "header_field_start")
         [] OTHER -> Fail(a)

Expect(a, c, wanted, state) == IF c = wanted THEN Goto(a, state) ELSE Fail(a)

\* The end of a message: what comes next depends on keep-alive.
MessageDone(a) ==
    LET done == Notify(Goto(a, NewMessage(a.p)), "message_complete")
    IN IF a.p.upgrade THEN [done EXCEPT !.stop = TRUE] ELSE done

HeadersDone(a, c) ==
    LET chunked == "chunked" \in a.p.flags
        hasBody == chunked \/ a.p.length > 0
    IN IF c # "\n" THEN Fail(a)
       ELSE IF ~hasBody THEN MessageDone(a)
       ELSE Goto(a, IF chunked THEN "chunk_size_start" ELSE "body_identity")

HeadersAlmostDone(a, c) ==
    IF c # "\n" THEN Fail(a)
    ELSE IF "trailing" \in a.p.flags THEN MessageDone(a)
    ELSE IF {"chunked", "content_length"} \subseteq a.p.flags THEN Fail(a)
    ELSE LET upgraded == [a EXCEPT
                              !.p.state = "headers_done",
                              !.p.upgrade = {"upgrade", "connection_upgrade"} \subseteq a.p.flags]
         IN HeadersDone(Notify(upgraded, "headers_complete"), c)

Punctuation == {"\r", "\n", " ", ":", ",", "/", "?", "@"}

HeaderFieldStart(a, c) ==
    CASE c = "\r" -> Goto(a, "headers_almost_done")
      [] c = "\n" -> HeadersAlmostDone(Goto(a, "headers_almost_done"), c)
      [] c \in Punctuation \ {"\r", "\n"} -> Fail(a)
      [] OTHER -> Mark([a EXCEPT !.p.state = "header_field",
                                 !.p.header = Move(NameMoves, "start", c, "general")],
                       "header_field", c)

HeaderField(a, c) ==
    CASE c = ":" -> Emit(Goto(a, "header_value_discard_ws"), "header_field")
      [] c \in Punctuation \ {":"} -> Fail(a)
      [] OTHER -> Take([a EXCEPT !.p.header = Move(NameMoves, a.p.header, c, "general")], c)

\* The first character of a value, or of a further line of it.
HeaderValueStart(a, c) ==
    LET h == a.p.header
        b == Mark(Goto(a, "header_value"), "header_value", c)
    IN CASE h = "upgrade" -> [b EXCEPT !.p.flags = @ \cup {"upgrade"}, !.p.header = "general"]
         [] h = "content_length" ->
                IF c \notin DOMAIN Digits \/ "content_length" \in a.p.flags THEN Fail(b)
                ELSE [b EXCEPT !.p.flags = @ \cup {"content_length"}, !.p.length = Digits[c]]
         [] h = "connection" -> [b EXCEPT !.p.header = Move(ValueStartMoves, h, c, "token")]
         [] h = "token_start" -> b
         [] OTHER -> [b EXCEPT !.p.header = Move(ValueStartMoves, h, c, "general")]

HeaderValueDiscardWs(a, c) ==
    CASE c = " " -> a
      [] c = "\r" -> Goto(a, "header_value_discard_ws_almost_done")
      [] c = "\n" -> Goto(a, "header_value_discard_lws")
      [] OTHER -> HeaderValueStart(a, c)

\* A value that turns out empty still is a value.
HeaderValueDiscardLws(a, c) ==
    IF c = " " THEN Goto(a, "header_value_discard_ws")
    ELSE HeaderFieldStart(
             Emit([a EXCEPT !.p.flags = @ \cup FlagOf(a.p.header), !.mark = "header_value",
                            !.p.state = "header_field_start"], "header_value"), c)

HeaderValue(a, c) ==
    LET h == a.p.header
        b == Take(a, c)
    IN CASE c = "\r" -> Emit(Goto(a, "header_almost_done"), "header_value")
         [] c = "\n" -> Emit(Goto(a, "header_value_lws"), "header_value")
         [] c \notin {"\r", "\n"} /\ h = "content_length" ->
                IF c = " " THEN b
                ELSE IF c \notin DOMAIN Digits THEN Fail(b)
                ELSE [b EXCEPT !.p.length = 10 * @ + Digits[c]]
         [] c \notin {"\r", "\n"} /\ h = "matching_chunked" ->
                [b EXCEPT !.p.header = IF c = "nked" THEN "chunked" ELSE "general"]
         [] c \notin {"\r", "\n"} /\ h = "chunked" ->
                [b EXCEPT !.p.header = IF c = " " THEN "chunked" ELSE "general"]
         [] c \notin {"\r", "\n"} /\ h \in Tokens /\ c = "," ->
                [b EXCEPT !.p.flags = @ \cup FlagOf(h), !.p.header = "token_start"]
         [] OTHER -> [b EXCEPT !.p.header =
                          IF h = "general" THEN h ELSE Move(TokenMoves, h, c, "token")]

\* A line that begins with a space goes on with the value; any other ends it.
HeaderValueLws(a, c) ==
    IF c = " " THEN HeaderValueStart(a, c)
    ELSE HeaderFieldStart([a EXCEPT !.p.flags = @ \cup FlagOf(a.p.header),
                                    !.p.state = "header_field_start"], c)

BodyIdentity(a, c) ==
    LET b == [Mark(a, "body", c) EXCEPT !.p.length = @ - 1]
    IN IF b.p.length = 0 THEN MessageDone(Emit(b, "body")) ELSE b

ChunkSizeStart(a, c) ==
    IF c \in DOMAIN Digits THEN [a EXCEPT !.p.length = Digits[c], !.p.state = "chunk_size"]
    ELSE Fail(a)

ChunkSize(a, c) ==
    CASE c = "\r" -> Goto(a, "chunk_size_almost_done")
      [] c \in DOMAIN Digits -> [a EXCEPT !.p.length = 16 * @ + Digits[c]]
      [] c = " " -> Goto(a, "chunk_parameters")
      [] OTHER -> Fail(a)

ChunkSizeAlmostDone(a, c) ==
    IF c # "\n" THEN Fail(a)
    ELSE IF a.p.length = 0
    THEN [a EXCEPT !.p.flags = @ \cup {"trailing"}, !.p.state = "header_field_start"]
    ELSE Goto(a, "chunk_data")

ChunkData(a, c) ==
    LET b == [Mark(a, "body", c) EXCEPT !.p.length = @ - 1]
    IN IF b.p.length = 0 THEN Goto(b, "chunk_data_almost_done") ELSE b

\* One character.
Step(a, c) ==
    LET s == a.p.state IN
    CASE s = "dead" -> IF c \in {"\r", "\n"} THEN a ELSE Fail(a)
      [] s = "start_req" -> StartReq(a, c)
      [] s = "req_method" -> ReqMethod(a, c)
      [] s = "spaces_before_url" \/ s \in UrlStates -> Url(a, c)
      [] s \in {"http_start", "first_http_major", "http_major", "first_http_minor",
                "http_minor"} -> Version(a, c)
      [] s = "line_almost_done" -> Expect(a, c, "\n", "header_field_start")
      [] s = "header_field_start" -> HeaderFieldStart(a, c)
      [] s = "header_field" -> HeaderField(a, c)
      [] s = "header_value_discard_ws" -> HeaderValueDiscardWs(a, c)
      [] s = "header_value_discard_ws_almost_done" ->
             Expect(a, c, "\n", "header_value_discard_lws")
      [] s = "header_value_discard_lws" -> HeaderValueDiscardLws(a, c)
      [] s = "header_value" -> HeaderValue(a, c)
      [] s = "header_almost_done" -> Expect(a, c, "\n", "header_value_lws")
      [] s = "header_value_lws" -> HeaderValueLws(a, c)
      [] s = "headers_almost_done" -> HeadersAlmostDone(a, c)
      [] s = "body_identity" -> BodyIdentity(a, c)
      [] s = "chunk_size_start" -> ChunkSizeStart(a, c)
      [] s = "chunk_size" -> ChunkSize(a, c)
      [] s = "chunk_parameters" -> IF c = "\r" THEN Goto(a, "chunk_size_almost_done") ELSE a
      [] s = "chunk_size_almost_done" -> ChunkSizeAlmostDone(a, c)
      [] s = "chunk_data" -> ChunkData(a, c)
      [] s = "chunk_data_almost_done" ->
             IF c = "\r" THEN Emit(Goto(a, "chunk_data_done"), "body") ELSE Fail(a)
      [] s = "chunk_data_done" -> Expect(a, c, "\n", "chunk_size_start")
      [] OTHER -> Fail(a)

-----------------------------------------------------------------------------
FaultPending(p) == IF p.state = "header_value" THEN "header_value" ELSE "none"

\* The text that a read in this state goes on with.
Pending(p) ==
    IF p.state \in {"header_field", "header_value"} THEN p.state
    ELSE IF p.state \in UrlStates THEN "url" ELSE "none"

\* The character after those read so far, unless the run has stopped.
Eat(a, c) == IF a.stop THEN [a EXCEPT !.whole = FALSE] ELSE Step(a, c)

\* The run as it is before and after each character of data.
Progress(a, data) ==
    LET f[i \in 0 .. Len(data)] == IF i = 0 THEN a ELSE Eat(f[i - 1], data[i])
    IN f

\* A slip: what a header means is forgotten between reads.
FaultBegin(p) == [p |-> [p EXCEPT !.header = "general"], mark |-> Pending(p), text |-> << >>,
                  calls |-> << >>, stop |-> p.error, whole |-> ~p.error]

Begin(p) == [p |-> p, mark |-> Pending(p), text |-> << >>, calls |-> << >>,
             stop |-> p.error, whole |-> ~p.error]

\* Text still marked is handed out at the end of a read.
End(a) == IF a.p.error \/ a.mark = "none" THEN a ELSE Emit(a, a.mark)

\* http_parser_execute: the parser afterwards, the callbacks in order, and
\* whether it took all of data.
Execute(p, data) ==
    LET a == End(Progress(Begin(p), data)[Len(data)])
    IN [p |-> a.p, calls |-> a.calls, whole |-> a.whole]
=============================================================================
