----------------------------- MODULE Handshake -----------------------------
(***************************************************************************)
(* The opening handshake of one client: ws_get_handshake of                *)
(* src/src/websocket.c on the bytes as they come, the header parser and    *)
(* the checks under it, the answers, and the launch of the child (onopen   *)
(* of src/src/wdserver.c), in a server that Startup has configured.        *)
(*                                                                         *)
(* A request is a sequence of tokens: the text of a line, or a part of it, *)
(* is one token, and CR, LF and NUL are tokens of their own, because the   *)
(* parser looks for them with strstr() in what it takes for a string.      *)
(***************************************************************************)
EXTENDS Startup, SequencesExt

CONSTANTS
    Requests,  \* what a client may send, ASCII and in order
    MaxHead    \* WS_MAX_HEAD_SZ, in tokens

VARIABLES
    request,   \* what the client sends
    taken,     \* how much of it recv() has returned
    gone,      \* the client has closed or reset the connection
    buf,       \* headers->buf, of buflen
    reading,   \* headers->reading
    status,    \* client->status; "none" before the client is there
    responses, \* what has been given to the socket, or queued for it
    launched   \* the child

client == <<request, taken, gone, buf, reading, status, responses, launched>>
vars == <<startup, client>>

Token(kind) == [kind |-> kind]
CR == Token("CR")
LF == Token("LF")
NUL == Token("NUL")

\* A line "GET <path> HTTP/1.1", and one without the version.
GET(path) == [kind |-> "GET", path |-> path, version |-> TRUE]
OldGET == [kind |-> "GET", path |-> "known", version |-> FALSE]
\* A line "<name>: <value>".
Field(name, value) == [kind |-> "field", name |-> name, value |-> value]
\* Lines that have "GET " further on; no colon; nothing before it; a space before it.
Junk == {Token(kind) : kind \in {"mentions GET", "no colon", "no name", "space in name"}}

Paths == {"known", "unknown"}
Headers == {"path", "Host", "Origin", "Connection", "Key", "Version", "Upgrade"}
Names == (Headers \ {"path"}) \cup {"other"}
Values == {"a", "b", "ok", "bad"}

Tokens == {CR, LF, NUL, OldGET} \cup {GET(path) : path \in Paths} \cup Junk
          \cup {Field(name, value) : name \in Names, value \in Values}

ASSUME HandshakeAssumption == MaxHead \in Nat \ {0} /\ Requests \subseteq Seq(Tokens)

CrLf == <<CR, LF>>
Blank == CrLf \o CrLf

\* strstr(): p is in the C string s at i.
At(s, p, i) == i + Len(p) - 1 <= Len(s) /\ SubSeq(s, i, i + Len(p) - 1) = p
Places(s, p) == {i \in 1 .. Len(s) : At(s, p, i)}

\* What a C string function sees of a buffer.
CString(s) == IF \E i \in 1 .. Len(s) : s[i] = NUL
              THEN SubSeq(s, 1, Min({i \in 1 .. Len(s) : s[i] = NUL}) - 1) ELSE s

TypeOK == /\ StartupTypeOK
          /\ request \in Seq(Tokens)
          /\ taken \in 0 .. Len(request)
          /\ gone \in BOOLEAN /\ reading \in BOOLEAN /\ launched \in BOOLEAN
          /\ Len(buf) <= MaxHead /\ Range(buf) \subseteq Range(request)
          /\ status \in {"none", "OK", "READING", "CLOSE"}
          /\ Len(responses) <= 2

Init == /\ StartupInit
        /\ request = <<>> /\ taken = 0 /\ gone = FALSE
        /\ buf = <<>> /\ reading = TRUE /\ status = "none"
        /\ responses = <<>> /\ launched = FALSE

-----------------------------------------------------------------------------
(* The parser *)

\* What the headers are after "bad" has been set does not matter: the parser has given up.
HeaderMaps == [Headers \cup {"other", "bad"} -> Values \cup Paths \cup {"NULL", "set"}]
NoHeaders == [f \in Headers \cup {"other", "bad"} |-> "NULL"]
Bad == <<"bad", "set">>

\* A line with "GET " anywhere is taken for the request line ...
HasGET(line) == \E i \in DOMAIN line : line[i].kind \in {"GET", "mentions GET"}

\* ... whose path is what there is before the first version.
ws_parse_request(line) ==
    IF line[1].kind = "GET" /\ \E i \in DOMAIN line : line[i].kind = "GET" /\ line[i].version
    THEN <<"path", IF line[1].version THEN line[1].path ELSE "unknown">>
    ELSE Bad

\* The header that a line sets, and its value.
ws_set_header_fields(line) ==
    IF line = <<>> THEN Bad
    ELSE IF line[1] \in {CR, LF} THEN Bad
    ELSE IF HasGET(line) THEN ws_parse_request(line)
    ELSE IF line[1].kind = "field" THEN <<line[1].name, line[1].value>>
    ELSE Bad

\* Mutant: the first of two fields of one name stays.
ws_set_header_key_value_First(headers, set) ==
    IF headers[set[1]] = "NULL" THEN [headers EXCEPT ![set[1]] = set[2]] ELSE headers

ws_set_header_key_value(headers, set) == [headers EXCEPT ![set[1]] = set[2]]

\* The line that begins at i, and where lines begin.
LineAt(s, i) ==
    LET Ends(j) == j > Len(s) \/ At(s, CrLf, j)
    IN  SubSeq(s, i, (CHOOSE j \in i .. Len(s) + 1 : Ends(j) /\ \A k \in i .. j - 1 : ~Ends(k)) - 1)
Starts(s) == {1} \cup {i + 2 : i \in Places(s, CrLf)}

\* The loop, from the line that begins at.line: to the one that the string ends after with a
\* blank line, an empty one before that being bad.
parse_headers(s) ==
    LET from[at \in [line : 1 .. Len(s) + 1, headers : HeaderMaps]] ==
            LET line == LineAt(s, at.line)
                next == at.line + Len(line)
                set == ws_set_header_key_value(at.headers, ws_set_header_fields(line))
            IN  IF next > Len(s) \/ SubSeq(s, next, Len(s)) = Blank THEN set
                ELSE from[[line |-> next + 2, headers |-> set]]
    IN  from[[line |-> 1, headers |-> NoHeaders]]

\* method and protocol are there when path is.
ws_verify_req_headers(headers) ==
    /\ \A f \in {"path", "Host", "Connection", "Key", "Version"} : headers[f] # "NULL"
    /\ config["origin"] # "NULL" => headers["Origin"] = "ok"

-----------------------------------------------------------------------------
(* The answers *)

HTTP(code) == [code |-> code]

\* Sec-WebSocket-Accept is the digest of the key and of nothing else of the request.
Switching(headers) ==
    [code |-> 101, accept |-> headers["Key"],
     upgrade |-> IF headers["Upgrade"] = "NULL" THEN "websocket" ELSE headers["Upgrade"]]

\* ws_respond, for each of them: from the one that the client's reset meets, none.
Respond(answers) ==
    /\ \E k \in 0 .. Len(answers) : responses' = responses \o SubSeq(answers, 1, k)
    /\ gone' = (gone \/ Len(responses') < Len(responses) + Len(answers))

Refuse(code) == /\ Respond(<<HTTP(code)>>)
                /\ status' = "CLOSE"
                /\ UNCHANGED <<reading, launched>>

\* The child's pid; 0 if no demo has this name, -1 if vfork() fails.
onopen(path) == IF path = "known" THEN {"pid", "-1"} ELSE {"0"}

\* Mutant: the connection stays when the child is not launched.
Open_Stays(headers) ==
    \E pid \in IF config["echomode"] = "given" THEN {"not called"} ELSE onopen(headers["path"]) :
       /\ Respond(<<Switching(headers)>> \o IF pid \in {"0", "-1"} THEN <<HTTP(400)>> ELSE <<>>)
       /\ launched' = (pid = "pid")
       /\ reading' = FALSE
       /\ status' = "OK"

\* The 101 has been sent when the child is launched.
Open(headers) ==
    \E pid \in IF config["echomode"] = "given" THEN {"not called"} ELSE onopen(headers["path"]) :
       \/ /\ pid \in {"not called", "pid"}
          /\ Respond(<<Switching(headers)>>)
          /\ launched' = (pid = "pid")
          /\ reading' = FALSE
          /\ status' = "OK"
       \/ /\ pid \in {"0", "-1"}
          /\ Respond(<<Switching(headers), HTTP(IF pid = "0" THEN 400 ELSE 505)>>)
          /\ status' = "CLOSE"
          /\ UNCHANGED <<reading, launched>>

-----------------------------------------------------------------------------
(* The client, and ws_get_handshake *)

Connect == /\ pc = "serving" /\ status = "none"
           /\ request' \in Requests
           /\ status' = "OK"
           /\ UNCHANGED <<startup, taken, gone, buf, reading, responses, launched>>

Leave == /\ status \in {"OK", "READING"} /\ ~gone
         /\ gone' = TRUE
         /\ UNCHANGED <<startup, request, taken, buf, reading, status, responses, launched>>

InHandshake == status \in {"OK", "READING"} /\ reading

\* Mutant: every read asks for as much as the buffer holds.
Room_Whole == MaxHead

\* The size that recv() is given; buf has one byte more, for the NUL.
Room == MaxHead - Len(buf)

\* Mutant: buflen is what the last recv() has returned.
Got_Last(n) == SubSeq(request, taken + 1, taken + n)

\* headers->buf after a recv() of n.
Got(n) == buf \o SubSeq(request, taken + 1, taken + n)

Incomplete(s) == Places(s, Blank) = {}

More == /\ status' = "READING"
        /\ UNCHANGED <<gone, reading, responses, launched>>

\* What follows the read, s being the string that is in the buffer.
Answer(s) ==
    \/ Incomplete(s) /\ Len(s) < MaxHead /\ More
    \/ Incomplete(s) /\ Len(s) >= MaxHead /\ Refuse(400)
    \/ /\ ~Incomplete(s)
       /\ \E headers \in {parse_headers(s)} :
             IF headers["bad"] = "NULL" /\ ws_verify_req_headers(headers)
             THEN Open(headers) ELSE Refuse(400)

Receive(n) == /\ InHandshake /\ ~gone
              /\ n <= Len(request) - taken /\ n <= Room
              /\ buf' = Got(n)
              /\ taken' = taken + n
              /\ \E s \in {CString(Got(n))} : Answer(s)
              /\ UNCHANGED <<startup, request>>

\* recv() with no room left returns 0, as at the end of the stream.
ReadFails == /\ InHandshake
             /\ gone \/ (Room = 0 /\ taken < Len(request))
             /\ Refuse(400)
             /\ UNCHANGED <<startup, request, taken, buf>>

\* recv() has nothing yet.
TryAgain == /\ InHandshake
            /\ status' = "READING"
            /\ UNCHANGED <<startup, request, taken, gone, buf, reading, responses, launched>>

ws_get_handshake == (\E n \in 1 .. MaxHead : Receive(n)) \/ ReadFails

-----------------------------------------------------------------------------
\* No client comes, none goes, the server has ended, or the handshake is over.
Next == \/ Start /\ UNCHANGED client
        \/ Connect \/ Leave
        \/ ws_get_handshake \/ TryAgain

Spec == Init /\ [][Next]_vars

\* The loop reads what there is to read, while no other client's close is deferred.
FairSpec == Spec /\ WF_vars(ws_get_handshake)

-----------------------------------------------------------------------------
(* What a request is worth, said of the whole of it: the lines up to the    *)
(* blank line are a request line and fields, each well formed, and         *)
(* what the server asks for is among them.                                 *)

HeadEnd == [s \in Requests |->
    Min({Len(s) + 1} \cup {i \in Places(s, Blank) : \A j \in 1 .. i : s[j] # NUL})]
HeadStarts(s) == {i \in Starts(s) : i <= HeadEnd[s]}

WellFormed(line) ==
    IF Head(line).kind = "GET" THEN \E i \in DOMAIN line : line[i].kind = "GET" /\ line[i].version
    ELSE Head(line).kind = "field" /\ ~HasGET(line)

Says(s, i, name) == Head(LineAt(s, i)).kind = "field" /\ Head(LineAt(s, i)).name = name

Acceptable == {s \in Requests :
    /\ HeadEnd[s] \in 2 .. MaxHead - 3
    /\ \A i \in HeadStarts(s) : LineAt(s, i) # <<>> /\ WellFormed(LineAt(s, i))
    /\ \E i \in HeadStarts(s) : Head(LineAt(s, i)).kind = "GET"
    /\ \A name \in {"Host", "Connection", "Key", "Version"} :
          \E i \in HeadStarts(s) : Says(s, i, name)}

LastValue(name) == [s \in Acceptable |->
    LET places == {i \in HeadStarts(s) : Says(s, i, name)}
    IN  IF places = {} THEN "NULL" ELSE Head(LineAt(s, Max(places))).value]
Key == LastValue("Key")
Origin == LastValue("Origin")

-----------------------------------------------------------------------------
(* Safety *)

Answered(code) == \E i \in DOMAIN responses : responses[i].code = code

\* The request has come up to its blank line, and nothing that follows has come with it but
\* what a NUL hides.
HeadHasCome ==
    LET end == HeadEnd[request] + 3
    IN  taken >= end /\ (taken > end => request[end + 1] = NUL)

\* However recv() cuts the request, its answer is the one the whole request deserves: 101
\* with the digest of its last key if it is acceptable and has come up to its blank line
\* and not further, and a 400 alone if it is not or has not.
VerdictOfRequest ==
    /\ Answered(101) => /\ request \in Acceptable /\ HeadHasCome
                        /\ responses[1].accept = Key[request]
    /\ Answered(400) /\ ~Answered(101) => request \notin Acceptable \/ ~HeadHasCome

\* A page is open when its child has been launched and not otherwise, and its 101 has gone
\* out unless it has left; no other answer comes before the 101, and one after it is the
\* last: nothing is launched, the connection is closed.
OpenWithChild ==
    /\ launched => ~reading /\ status = "OK" /\ (Answered(101) \/ gone)
    /\ ~reading => launched \/ config["echomode"] = "given"
    /\ Len(responses) = 2 => responses[1].code = 101 /\ status = "CLOSE" /\ ~launched

\* What the help of wdserver says of --origin (src/src/wdserver.c:93): clients send the
\* specified origin in the handshake.  They need not: ws_init has forgotten it.
OriginEnsured ==
    "origin" \in given /\ Answered(101) => Origin[request] = "ok"

-----------------------------------------------------------------------------
(* Liveness *)

\* A client that sends a blank line, or more than the buffer holds, is answered and then
\* open or closed: it does not stay in the handshake.
HandshakeEnds ==
    InHandshake /\ (HeadEnd[request] <= Len(request) \/ Len(request) > MaxHead)
        ~> ~InHandshake
=============================================================================
