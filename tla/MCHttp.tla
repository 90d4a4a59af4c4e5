------------------------------- MODULE MCHttp -------------------------------
(***************************************************************************)
(* Instances of HttpStream, the parser under reads that end anywhere, and  *)
(* of HttpConnection, the server, which share nothing: a behaviour reads   *)
(* one of the streams or serves the two connections. The client of the     *)
(* first one waits for each answer or does not, and sends two requests in  *)
(* two packets or one request in two pieces; that of the second one is     *)
(* patient. "con" and "x" make a header name in two callbacks, "clo" and   *)
(* "se" end the conversation.                                              *)
(***************************************************************************)
EXTENDS HttpStream, HttpConnection

CONSTANTS c1, c2

H(kind, value, tokens) == [kind |-> kind, value |-> value, tokens |-> tokens]

MCConnection ==
    {H("connection", <<"keep-", "alive">>, {"keep-alive"}),
     H("connection", <<"clo", "se">>, {"close"}),
     H("connection", <<"clo", "se", " ", ",", " ", "keep-", "alive">>, {"close", "keep-alive"}),
     H("connection", <<"x", ",", "\r", "\n", " ", "keep-", "alive">>, {"x", "keep-alive"}),
     H("connection", <<"keep-", "alive", "x">>, {"keep-alivex"}),
     H("proxy", <<"keep-", "alive", " ">>, {"keep-alive"}),
     H("connection", <<"upgrade">>, {"upgrade"})}

MCOther ==
    {H("other", <<"x">>, {}), H("other", << >>, {}), H("upgrade", <<"x">>, {}),
     H("other", <<"x", "\r", "\n", " ", "keep-", "alive">>, {})}

Message(url, minor, eol, headers, body) ==
    [url |-> url, minor |-> minor, eol |-> eol, headers |-> headers, body |-> body]

Plain == Message(<<"/">>, "1", <<"\r", "\n">>, << >>, << >>)

MCHeaders ==
    {<<h>> : h \in MCConnection \cup MCOther}
        \cup {<<c, h>> : c \in MCConnection, h \in MCOther}

MCBodies ==
    {[headers |-> <<H("length", <<"1", "2">>, {})>>, body |-> [i \in 1 .. 12 |-> "x"]],
     [headers |-> <<H("length", <<"0">>, {})>>, body |-> << >>],
     [headers |-> <<H("encoding", <<"chu", "nked">>, {})>>, body |-> <<"x", "/">>],
     [headers |-> <<H("length", <<"1">>, {}), H("encoding", <<"chu", "nked">>, {})>>,
      body |-> <<"x">>]}

MCUrls ==
    {<<"/", "u", "?", "u", "#", "u">>,
     <<"u", ":", "/", "/", "u", "@", "u", "/">>}

Followed(m) == IF Upgrades(m) THEN <<m>> ELSE <<m, Plain>>

MCStreams ==
    {Followed(Message(<<"/">>, minor, <<"\r", "\n">>, hs, << >>)) :
         minor \in {"0", "1"}, hs \in MCHeaders}
    \cup {Followed(Message(<<"/">>, minor, eol, b.headers, b.body)) :
              minor \in {"0", "1"}, eol \in {<<"\r", "\n">>, <<"\n">>}, b \in MCBodies}
    \cup {Followed(Message(url, "1", <<"\n">>, << >>, << >>)) : url \in MCUrls}

\* What the theorems about Spec ask of the streams.
ASSUME OneReadAssumption == OneReadTells

-----------------------------------------------------------------------------
RequestLine(minor) == <<"G", "ET", " ", "/", " ", "HTTP/", "1", ".", minor, "\n">>

Packet(data, headers) == [data |-> data, headers |-> headers]

MCPlain == Packet(RequestLine("1") \o <<"\n">>, << >>)

MCNamed == Packet(RequestLine("1") \o <<"x", ":", "x", "\n", "con", "x", ":", "\n", "\n">>,
                  <<<<<<"x">>, <<"x">>>>, <<<<"con", "x">>, << >>>>>>)

MCClosing == Packet(RequestLine("1") \o <<"con", "nection", ":", "clo", "se", "\n", "\n">>,
                    <<<<<<"con", "nection">>, <<"clo", "se">>>>>>)

MCTorn == <<Packet(RequestLine("1") \o <<"con">>, << >>), Packet(<<"x", ":", "x", "\n", "\n">>, << >>)>>

Patient(packets) == [patient |-> TRUE, packets |-> packets]
Impatient(packets) == [patient |-> FALSE, packets |-> packets]

MCScripts ==
    (c1 :> {Patient(<<MCNamed, MCClosing>>), Patient(<<MCPlain, MCNamed>>),
            Impatient(<<MCNamed, MCPlain>>), Impatient(MCTorn)})
    @@ (c2 :> {Patient(<<MCNamed, MCClosing>>)})

\* What the theorems about ServerSpec ask of the scripts.
ASSUME ScriptsAssumption == ScriptsRead

-----------------------------------------------------------------------------
HttpInit == Init /\ ServerInit

\* The stream that is there, unread, while the connections are served.
Unread == stream = (CHOOSE ms \in MCStreams : TRUE) /\ unread = Written(stream)

HttpNext ==
    \/ ServerInit /\ Next /\ UNCHANGED serverVars
    \/ Unread /\ ServerNext /\ UNCHANGED vars

\* The fairness is the server's; where a stream was read nothing is promised.
HttpSpec == HttpInit /\ [][HttpNext]_<<vars, serverVars>> /\ Fairness
=============================================================================
