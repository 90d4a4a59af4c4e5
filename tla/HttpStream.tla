----------------------------- MODULE HttpStream -----------------------------
(***************************************************************************)
(* A client's bytes reach the parser in reads that end anywhere. A message *)
(* is described by what it says; Rendered is how it is written down, and   *)
(* Told what its receiver has to be told of it, whatever the reads. Pieces *)
(* of one text that arrive in several callbacks count as one text.         *)
(***************************************************************************)
EXTENDS HttpParser

CONSTANTS
    Streams,    \* sequences of messages [url, minor, eol, headers, body]
    MaxRead     \* bound: a read takes at most so much, or all there is

VARIABLES
    stream,     \* the messages the client sends
    unread,     \* the characters not read yet
    parser,
    told        \* the callbacks so far, texts joined

vars == <<stream, unread, parser, told>>

HeaderName(h) ==
    CASE h.kind \in {"other"} -> <<"con", "x">>
      [] h.kind = "connection" -> <<"con", "nection">>
      [] h.kind = "proxy" -> <<"proxy-con", "nection">>
      [] h.kind = "length" -> <<"con", "tent-length">>
      [] h.kind = "encoding" -> <<"transfer-", "encoding">>
      [] h.kind = "upgrade" -> <<"upgrade">>

Line(h, eol) == HeaderName(h) \o <<":", " ">> \o h.value \o eol

\* The chunked form of a body has chunks of one character and one trailer line.
ChunkedBody(text, eol) ==
    FoldLeft(LAMBDA out, c : out \o <<"1", "\r", "\n", c, "\r", "\n">>, << >>, text)
        \o <<"0", " ", "\r", "\n">> \o Line([kind |-> "other", value |-> <<"x">>], eol)
        \o eol

IsChunked(m) == \E h \in ToSet(m.headers) : h.kind = "encoding"
HasLength(m) == \E h \in ToSet(m.headers) : h.kind = "length"

Rendered(m) ==
    <<"G", "ET", " ">> \o m.url \o <<" ", "HTTP/", "1", ".", m.minor>> \o m.eol
        \o FoldLeft(LAMBDA out, h : out \o Line(h, m.eol), << >>, m.headers) \o m.eol
        \o (IF IsChunked(m) THEN ChunkedBody(m.body, m.eol) ELSE m.body)

\* All that the client of a stream sends.
Written(ms) == FoldLeft(LAMBDA out, m : out \o Rendered(m), << >>, ms)

ASSUME StreamAssumption ==
    /\ MaxRead \in Nat \ {0}
    /\ \A ms \in Streams : Written(ms) \in Seq(ToSet(Written(ms)))

\* The tokens that the headers of a message say about its connection.
Says(m, token) ==
    \E h \in ToSet(m.headers) : h.kind \in {"connection", "proxy"} /\ token \in h.tokens

KeptAlive(m) == IF m.minor = "0" THEN Says(m, "keep-alive") ELSE ~Says(m, "close")

\* What follows such a message is not for this parser: no stream has more.
Upgrades(m) == Says(m, "upgrade") /\ \E h \in ToSet(m.headers) : h.kind = "upgrade"

Refused(m) == IsChunked(m) /\ HasLength(m)

\* The text of a value is what is between the line ends.
Text(value) == SelectSeq(value, LAMBDA c : c \notin {"\r", "\n"})

ToldOfHeaders(headers) ==
    FoldLeft(LAMBDA out, h : out \o <<<<"header_field", HeaderName(h)>>,
                                      <<"header_value", Text(h.value)>>>>, << >>, headers)

ToldOf(m) ==
    <<<<"message_begin", << >>>>, <<"url", m.url>>>> \o ToldOfHeaders(m.headers)
    \o (IF Refused(m) THEN << >>
        ELSE <<<<"headers_complete", << >>>>>>
             \o (IF m.body = << >> THEN << >> ELSE <<<<"body", m.body>>>>)
             \o (IF IsChunked(m)
                 THEN ToldOfHeaders(<<[kind |-> "other", value |-> <<"x">>]>>) ELSE << >>)
             \o <<<<"message_complete", << >>>>>>)

\* A receiver hears no more after a message that ends the conversation.
Ends(m) == Refused(m) \/ ~KeptAlive(m)

Heard(ms) ==
    SelectSeq([i \in DOMAIN ms |-> [m |-> ms[i], cut |-> \E j \in 1 .. i - 1 : Ends(ms[j])]],
              LAMBDA e : ~e.cut)

Told(ms) == FoldLeft(LAMBDA out, e : out \o ToldOf(e.m), << >>, Heard(ms))

Texts == {"url", "header_field", "header_value", "body"}

\* The callback e after those in t.
Join(t, e) ==
    IF t # << >> /\ e[1] \in Texts /\ Last(t)[1] = e[1]
    THEN [t EXCEPT ![Len(t)] = <<e[1], Last(t)[2] \o e[2]>>]
    ELSE Append(t, e)

\* The callbacks in t, and those after them.
Joined(t, calls) ==
    LET f[i \in 0 .. Len(calls)] == IF i = 0 THEN t ELSE Join(f[i - 1], calls[i])
    IN f[Len(calls)]

-----------------------------------------------------------------------------
Init ==
    /\ stream \in Streams
    /\ unread = Written(stream)
    /\ parser = NewParser
    /\ told = << >>

Read(n) ==
    LET run == Execute(parser, SubSeq(unread, 1, n)) IN
    /\ n <= Len(unread)
    /\ parser' = run.p
    /\ told' = Joined(told, run.calls)
    /\ unread' = IF run.whole THEN SubSeq(unread, n + 1, Len(unread)) ELSE << >>
    /\ UNCHANGED stream

Next == \E n \in 1 .. MaxRead \cup {Len(unread)} : n > 0 /\ Read(n)

Spec == Init /\ [][Next]_vars

-----------------------------------------------------------------------------
\* What a receiver that was told t must have been told of the messages ms: never
\* more than they say, all of it at the end, nothing of a message after one that
\* ends the conversation, and no error but after such a message.
Tells(ms, t, end, error) ==
    LET all == Told(ms)
        done == Len(t) IN
    /\ done <= Len(all)
    /\ \A i \in 1 .. done - 1 : t[i] = all[i]
    /\ done > 0 => t[done][1] = all[done][1] /\ IsPrefix(t[done][2], all[done][2])
    /\ end => t = all
    /\ error => \E m \in ToSet(ms) : Ends(m)

\* After the headers of a message and until the next one begins, the answer of
\* http_should_keep_alive is what the version and the Connection headers say.
Answers(ms, t, p) ==
    LET begun == Cardinality({i \in DOMAIN t : t[i][1] = "message_begin"})
        complete == Cardinality({i \in DOMAIN t : t[i][1] = "headers_complete"})
    IN begun = complete /\ begun > 0 => (ShouldKeepAlive(p) <=> KeptAlive(ms[begun]))

\* However the bytes of the messages are split over reads, the receiver is told
\* the same, and what they say: an error is for a message with both a length and
\* chunks or for one after "close" (s_dead).
SplitsDoNotMatter == Tells(stream, told, unread = << >>, parser.error)

\* Whatever the reads, the connection is kept as the messages so far ask.
KeepAliveAsAsked == Answers(stream, told, parser)

-----------------------------------------------------------------------------
\* The run after the first n characters of a text that begins a connection.
Whole(text) == Progress(Begin(NewParser), text)

\* The one read of the text is not cut short by an upgrade.
Uncut(text) == LET run == Execute(NewParser, text) IN run.whole \/ run.p.error

\* The same, of the streams as they are and of one read of the beginning of each:
\* a read that fails does so with no text in hand.
OneReadTells ==
    \A ms \in Streams :
        LET text == Written(ms) IN
        /\ Uncut(text)
        /\ \A n \in 0 .. Len(text) :
            LET run == Execute(NewParser, SubSeq(text, 1, n))
                t == Joined(<< >>, run.calls)
            IN /\ Tells(ms, t, n = Len(text) \/ ~run.whole, run.p.error)
               /\ Answers(ms, t, run.p)
               /\ run.p.error => Whole(text)[n].mark = "none"
=============================================================================
