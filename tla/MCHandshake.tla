---------------------------- MODULE MCHandshake ----------------------------
(* Instances of Handshake for TLC: a request that is accepted, and those    *)
(* that differ from it by a line more, a line less, both, or at the end.   *)
EXTENDS Handshake

Good == << <<GET("known")>>, <<Field("Host", "a")>>, <<Field("Connection", "a")>>,
           <<Field("Key", "a")>>, <<Field("Version", "a")>> >>

\* Lines to put in; some have a LF, which does not end a line, or a NUL, or nothing.
Extra == { <<GET("unknown")>>, <<OldGET>>, <<OldGET, LF, GET("known")>>,
           <<Field("Key", "b")>>, <<Field("Origin", "ok")>>, <<Field("Origin", "bad")>>,
           <<Field("Upgrade", "b")>>, <<Field("other", "a")>>,
           <<Field("Host", "b"), LF, GET("known")>>, <<LF>>, <<>>, <<NUL>> }
         \cup {<<j>> : j \in Junk}

Less(lines) == {RemoveAt(lines, i) : i \in DOMAIN lines}
With(lines, places) == {InsertAt(lines, i, x) : i \in places, x \in Extra}

Text(lines) == FoldLeft(LAMBDA s, line : s \o line \o CrLf, <<>>, lines)

Short == {Good} \cup Less(Good) \cup With(Good, {1, 2, 5, 6})
         \cup UNION {With(lines, {3}) : lines \in Less(Good)}
TooLong == {Good \o << <<Field("other", "a")>>, x >> : x \in {<<NUL>>, <<Field("other", "a")>>}}

\* No blank line, a NUL for it, or a first message before the answer, which may begin with
\* a NUL.
Endings == {<<>>, <<CR>>, CrLf, <<NUL>>, CrLf \o <<Token("no colon")>>, CrLf \o CrLf,
            CrLf \o <<NUL, Token("no colon")>>}

MCRequests == {Text(lines) \o CrLf : lines \in Short}
              \cup {Text(lines) \o e : lines \in {Good} \cup TooLong, e \in Endings}
=============================================================================
