--------------------------- MODULE HandshakeProofs ---------------------------
(***************************************************************************)
(* The invariants of Handshake, for any requests and any size of the       *)
(* buffer, and what the parser makes of any request: its loop is followed  *)
(* from the blank line back to the first line (Downwards of SetInduction). *)
(***************************************************************************)
EXTENDS Handshake, SequenceTheorems, SetInduction, TLAPS

(* The options *)

OptionsRead == \A o \in DOMAIN Setting : o \in given <=> config[Setting[o]] = "given"

\* The options that have been read are in the configuration, until ws_init puts three back.
OptionsInv ==
    /\ StartupTypeOK
    /\ pc = "main" => given = {} /\ \A f \in Fields : config[f] = "NULL"
    /\ pc \in {"options", "daemon", "signals", "ws_init"} => OptionsRead
    /\ pc \in {"ws_start", "serving"} =>
          /\ \A o \in DOMAIN Setting \ {"access-log", "max-frame-size", "origin"} :
                o \in given <=> config[Setting[o]] = "given"
          /\ config["origin"] = "NULL"

\* No two options set one field.
LEMMA SettingType ==
    /\ DOMAIN Setting \subseteq Options
    /\ \A o \in DOMAIN Setting : Setting[o] \in Fields
    /\ \A o, u \in DOMAIN Setting : Setting[o] = Setting[u] => o = u
    /\ \A o \in DOMAIN Setting \ {"access-log", "max-frame-size", "origin"} :
          Setting[o] \notin {"accesslog", "max_frm_size", "origin"}
  BY DEF Setting, Options, Fields

LEMMA OptionsInit == StartupInit => OptionsInv
  BY DEF StartupInit, OptionsInv, StartupTypeOK

LEMMA OptionStep ==
    ASSUME OptionsInv, NEW o \in Options, parse_long_opt(o)
    PROVE  OptionsInv'
  <1>1. /\ pc = "options" /\ pc' = "options" /\ given' = given \cup {o}
        /\ args' = args \ {o} /\ daemon' \in BOOLEAN
        /\ config' = IF o \in DOMAIN Setting THEN [config EXCEPT ![Setting[o]] = "given"] ELSE config
    BY DEF parse_long_opt, Read, OptionsInv, StartupTypeOK
  <1>2. config \in [Fields -> {"NULL", "default", "given"}]
        /\ args \in SUBSET Options /\ given \in SUBSET Options
    BY DEF OptionsInv, StartupTypeOK
  <1>3. config' \in [Fields -> {"NULL", "default", "given"}]
    BY <1>1, <1>2, SettingType
  <1>4. OptionsRead'
    <2>1. OptionsRead
      BY <1>1 DEF OptionsInv
    <2> SUFFICES ASSUME NEW u \in DOMAIN Setting
                 PROVE  u \in given' <=> config'[Setting[u]] = "given"
      BY DEF OptionsRead
    <2>2. u = o => config'[Setting[u]] = "given"
      BY <1>1, <1>2, SettingType
    <2>3. u # o => config'[Setting[u]] = config[Setting[u]]
      BY <1>1, <1>2, SettingType
    <2> QED
      BY <1>1, <2>1, <2>2, <2>3 DEF OptionsRead
  <1> QED
    BY <1>1, <1>2, <1>3, <1>4 DEF OptionsInv, StartupTypeOK

LEMMA OptionsStep ==
    ASSUME OptionsInv, Start
    PROVE  OptionsInv'
  <1> USE DEF Goto
  <1>1. CASE Defaults
    <2>1. OptionsRead'
      <3> SUFFICES ASSUME NEW o \in DOMAIN Setting
                   PROVE  ~(o \in given') /\ config'[Setting[o]] # "given"
        BY DEF OptionsRead
      <3> QED
        BY <1>1, SettingType DEF Defaults, OptionsInv
    <2>2. config' \in [Fields -> {"NULL", "default", "given"}]
      BY <1>1 DEF Defaults, OptionsInv, StartupTypeOK
    <2> QED
      BY <1>1, <2>1, <2>2 DEF Defaults, OptionsInv, StartupTypeOK
  <1>2. CASE read_option_args
    <2>1. CASE \E o \in Options \ {"version", "help", "other"} : parse_long_opt(o)
      BY <2>1, OptionStep
    <2>2. CASE LogFails \/ \E o \in {"version", "help", "other"} : Help(o)
      <3>1. /\ pc' = "exited" /\ daemon' = daemon /\ config' = config
            /\ args' \in SUBSET Options /\ given' \in SUBSET Options
        BY <2>2 DEF LogFails, Help, Read, OptionsInv, StartupTypeOK, Options
      <3> QED
        BY <3>1 DEF OptionsInv, StartupTypeOK
    <2>3. CASE /\ pc = "options" /\ args = {}
               /\ Goto(IF daemon THEN "daemon" ELSE "signals")
               /\ UNCHANGED <<args, daemon, config, given>>
      BY <2>3 DEF OptionsInv, StartupTypeOK, OptionsRead
    <2> QED
      BY <1>2, <2>1, <2>2, <2>3 DEF read_option_args
  <1>3. CASE wd_daemon \/ setup_signals
    BY <1>3 DEF wd_daemon, setup_signals, OptionsInv, StartupTypeOK, OptionsRead
  <1>4. CASE ws_init
    <2>1. /\ pc = "ws_init" /\ pc' = "ws_start" /\ args' = args /\ daemon' = daemon /\ given' = given
          /\ config' = [config EXCEPT !["accesslog"] = "NULL", !["max_frm_size"] = "default",
                                      !["origin"] = "NULL"]
          /\ config \in [Fields -> {"NULL", "default", "given"}] /\ OptionsRead
      BY <1>4 DEF ws_init, OptionsInv, StartupTypeOK
    <2>2. /\ config' \in [Fields -> {"NULL", "default", "given"}] /\ config'["origin"] = "NULL"
          /\ \A f \in Fields \ {"accesslog", "max_frm_size", "origin"} : config'[f] = config[f]
      BY <2>1 DEF Fields
    <2>3. \A o \in DOMAIN Setting \ {"access-log", "max-frame-size", "origin"} :
             o \in given' <=> config'[Setting[o]] = "given"
      BY <2>1, <2>2, SettingType DEF OptionsRead
    <2> QED
      BY <2>1, <2>2, <2>3 DEF OptionsInv, StartupTypeOK
  <1>5. CASE ws_start
    BY <1>5 DEF ws_start, OptionsInv, StartupTypeOK
  <1> QED
    BY <1>1, <1>2, <1>3, <1>4, <1>5 DEF Start

LEMMA OptionsAlways == Spec => []OptionsInv
  <1>1. Init => OptionsInv
    BY OptionsInit DEF Init
  <1>2. OptionsInv /\ [Next]_vars => OptionsInv'
    <2> SUFFICES ASSUME OptionsInv, [Next]_vars PROVE OptionsInv'
      OBVIOUS
    <2>1. CASE UNCHANGED startup
      BY <2>1 DEF startup, OptionsInv, StartupTypeOK, OptionsRead
    <2>2. CASE Start
      BY <2>2, OptionsStep
    <2>3. CASE Connect \/ Leave \/ ws_get_handshake \/ TryAgain
      <3>1. UNCHANGED startup
        BY <2>3 DEF Connect, Leave, ws_get_handshake, TryAgain, Receive, ReadFails
      <3> QED
        BY <2>1, <3>1
    <2> QED
      BY <2>1, <2>2, <2>3 DEF Next, vars
  <1> QED
    BY <1>1, <1>2, PTL DEF Spec

\* The server runs with the options of its command line, but for the three that ws_init
\* puts back, for any number of options.
THEOREM OptionsStayInForce == Spec => []OptionsInForce
  <1>1. OptionsInv => OptionsInForce
    BY DEF OptionsInv, OptionsInForce
  <1> QED
    BY <1>1, OptionsAlways, PTL

-----------------------------------------------------------------------------
(* The buffer and the answers *)

\* Before the answer the buffer is what has come of the request, without a blank line.
HandshakeInv ==
    /\ TypeOK
    /\ OptionsInv
    /\ OpenWithChild
    /\ status = "none" => /\ request = <<>> /\ taken = 0 /\ buf = <<>>
                          /\ responses = <<>> /\ reading /\ ~launched
    /\ status # "none" => pc = "serving" /\ request \in Requests
    /\ InHandshake => /\ buf = SubSeq(request, 1, taken)
                      /\ responses = <<>> /\ ~launched
                      /\ Incomplete(CString(buf))

-----------------------------------------------------------------------------
\* A prefix of the request.
LEMMA Prefix ==
    ASSUME NEW r \in Seq(Tokens), NEW t \in 0 .. Len(r)
    PROVE  /\ SubSeq(r, 1, t) \in Seq(Tokens)
           /\ Len(SubSeq(r, 1, t)) = t
           /\ \A i \in 1 .. t : SubSeq(r, 1, t)[i] = r[i]
  <1>1. \A i \in 1 .. t : r[i] \in Tokens
    BY ElementOfSeq
  <1>2. /\ SubSeq(r, 1, t) \in Seq(Tokens)
        /\ Len(SubSeq(r, 1, t)) = IF 1 <= t THEN t - 1 + 1 ELSE 0
        /\ \A i \in 1 .. t - 1 + 1 : SubSeq(r, 1, t)[i] = r[1 + i - 1]
    BY <1>1, SubSeqProperties
  <1>3. Len(r) \in Nat
    BY LenProperties
  <1> QED
    BY <1>2, <1>3

LEMMA PrefixRange ==
    ASSUME NEW r \in Seq(Tokens), NEW t \in 0 .. Len(r)
    PROVE  Range(SubSeq(r, 1, t)) \subseteq Range(r)
  <1>1. Len(r) \in Nat /\ DOMAIN r = 1 .. Len(r)
    BY LenProperties
  <1>2. PICK s : s = SubSeq(r, 1, t)
    OBVIOUS
  <1>3. s \in Seq(Tokens) /\ Len(s) = t /\ \A i \in 1 .. t : s[i] = r[i]
    BY <1>2, Prefix
  <1>4. DOMAIN s = 1 .. t
    BY <1>3, LenProperties
  <1>5. \A i \in 1 .. t : i \in DOMAIN r
    BY <1>1
  <1> QED
    BY <1>2, <1>3, <1>4, <1>5 DEF Range

\* recv() appends to the buffer what follows in the request.
LEMMA GotIsPrefix ==
    ASSUME request \in Seq(Tokens), taken \in 0 .. Len(request), buf = SubSeq(request, 1, taken),
           NEW n \in Nat, n <= Len(request) - taken
    PROVE  Got(n) = SubSeq(request, 1, taken + n)
  <1>1. Len(request) \in Nat
    BY LenProperties
  <1>2. SubSeq(request, 1, taken) \o SubSeq(request, taken + 1, taken + n) = SubSeq(request, 1, taken + n)
    BY <1>1, ConcatAdjacentSubSeq
  <1> QED
    BY <1>2 DEF Got

\* No string, no blank line.
LEMMA NothingIncomplete == Incomplete(CString(<<>>))
  <1>1. Len(<<>>) = 0
    OBVIOUS
  <1>2. CString(<<>>) = <<>>
    BY <1>1 DEF CString
  <1> QED
    BY <1>1, <1>2 DEF Incomplete, Places

\* One answer, and two.
LEMMA OneOf ==
    ASSUME NEW a
    PROVE  /\ Len(<<a>>) = 1 /\ <<>> \o <<a>> = <<a>>
           /\ SubSeq(<<a>>, 1, 0) = <<>> /\ SubSeq(<<a>>, 1, 1) = <<a>>
  <1>1. <<a>> \in Seq({a}) /\ Len(<<a>>) = 1
    OBVIOUS
  <1>2. SubSeq(<<a>>, 1, 0) = <<>>
    BY SubSeqEmpty
  <1>3. SubSeq(<<a>>, 1, Len(<<a>>)) = <<a>>
    <2> DEFINE s == <<a>>
    <2>1. s \in Seq({a})
      BY <1>1
    <2> HIDE DEF s
    <2>2. SubSeq(s, 1, Len(s)) = s
      BY <2>1, SubSeqFull
    <2> QED BY <2>2 DEF s
  <1>4. SubSeq(<<a>>, 1, 1) = <<a>>
    BY <1>1, <1>3
  <1> QED
    BY <1>1, <1>2, <1>4

LEMMA TwoOf ==
    ASSUME NEW a, NEW b
    PROVE  /\ <<a>> \o <<b>> = <<a, b>> /\ Len(<<a, b>>) = 2
           /\ SubSeq(<<a, b>>, 1, 0) = <<>> /\ SubSeq(<<a, b>>, 1, 1) = <<a>>
           /\ SubSeq(<<a, b>>, 1, 2) = <<a, b>>
  <1>1. <<a, b>> \in Seq({a, b}) /\ Len(<<a, b>>) = 2
    OBVIOUS
  <1>6. <<a>> \o <<b>> = <<a, b>>
    <2> DEFINE t == <<a>> \o <<b>>
    <2>1. Len(t) = 2 /\ t[1] = a /\ t[2] = b /\ t \in Seq({a, b})
      OBVIOUS
    <2> HIDE DEF t
    <2>2. t = <<a, b>>
      BY <2>1
    <2> QED BY <2>2 DEF t
  <1>2. SubSeq(<<a, b>>, 1, 0) = <<>>
    BY SubSeqEmpty
  <1>3. SubSeq(<<a, b>>, 1, Len(<<a, b>>)) = <<a, b>>
    <2> DEFINE s == <<a, b>>
    <2>1. s \in Seq({a, b})
      BY <1>1
    <2> HIDE DEF s
    <2>2. SubSeq(s, 1, Len(s)) = s
      BY <2>1, SubSeqFull
    <2> QED BY <2>2 DEF s
  <1>4. SubSeq(<<a, b>>, 1, 1) = <<a>>
    <2> DEFINE s == <<a, b>>
               t == SubSeq(s, 1, 1)
    <2>1. \A i \in 1 .. 1 : s[i] \in {a, b}
      OBVIOUS
    <2>2. s[1] = a
      OBVIOUS
    <2> HIDE DEF s
    <2>3. t \in Seq({a, b}) /\ Len(t) = 1 /\ t[1] = a
      <3>1. t \in Seq({a, b}) /\ Len(t) = (IF 1 <= 1 THEN 1 - 1 + 1 ELSE 0)
            /\ \A i \in 1 .. 1 - 1 + 1 : t[i] = s[1 + i - 1]
        BY <2>1, SubSeqProperties
      <3> QED BY <3>1, <2>2
    <2> HIDE DEF t
    <2>4. t = <<a>>
      BY <2>3
    <2> QED BY <2>4 DEF s, t
  <1>5. SubSeq(<<a, b>>, 1, 2) = <<a, b>>
    BY <1>1, <1>3
  <1> QED
    BY <1>1, <1>2, <1>4, <1>5, <1>6

\* What of them goes out.
LEMMA OneAnswer ==
    ASSUME responses = <<>>, NEW a, Respond(<<a>>), gone \in BOOLEAN
    PROVE  /\ responses' = <<>> \/ responses' = <<a>>
           /\ responses' = <<>> => gone'
           /\ gone' \in BOOLEAN
  <1>1. PICK k \in 0 .. 1 : responses' = <<>> \o SubSeq(<<a>>, 1, k)
    BY OneOf DEF Respond
  <1>2. gone' = (gone \/ Len(responses') < 1)
    BY OneOf DEF Respond
  <1>3. k = 0 \/ k = 1
    OBVIOUS
  <1>4. responses' = <<>> \/ responses' = <<a>>
    BY <1>1, <1>3, OneOf
  <1>5. Len(responses') = IF responses' = <<>> THEN 0 ELSE 1
    <2>1. Len(<<>>) = 0 /\ Len(<<a>>) = 1 /\ <<a>> # <<>>
      OBVIOUS
    <2> QED BY <1>4, <2>1, Zenon
  <1>6. gone' \in BOOLEAN
    BY <1>2
  <1>7. responses' = <<>> => gone'
    <2>1. responses' = <<>> => Len(responses') < 1
      BY <1>5
    <2> QED BY <1>2, <2>1, Zenon
  <1> QED
    BY <1>4, <1>6, <1>7

LEMMA TwoAnswers ==
    ASSUME responses = <<>>, NEW a, NEW b, Respond(<<a, b>>), gone \in BOOLEAN
    PROVE  /\ responses' \in {<<>>, <<a>>, <<a, b>>}
           /\ gone' \in BOOLEAN
  <1>1. PICK k \in 0 .. 2 : responses' = <<>> \o SubSeq(<<a, b>>, 1, k)
    BY TwoOf DEF Respond
  <1>2. gone' \in BOOLEAN
    BY DEF Respond
  <1>3. k = 0 \/ k = 1 \/ k = 2
    OBVIOUS
  <1>4. <<>> \o <<a>> = <<a>> /\ <<>> \o <<a, b>> = <<a, b>> /\ <<>> \o <<>> = <<>>
    OBVIOUS
  <1>5. SubSeq(<<a, b>>, 1, k) \in {<<>>, <<a>>, <<a, b>>}
    BY <1>3, TwoOf
  <1> QED
    BY <1>1, <1>2, <1>4, <1>5

\* What holds when the handshake is over.
Over == /\ OpenWithChild /\ ~InHandshake
        /\ status \in {"OK", "CLOSE"}
        /\ gone \in BOOLEAN /\ reading \in BOOLEAN /\ launched \in BOOLEAN
        /\ Len(responses) <= 2

\* What holds before it.
Waiting == /\ InHandshake /\ responses = <<>> /\ ~launched
           /\ gone \in BOOLEAN /\ reading \in BOOLEAN /\ launched \in BOOLEAN

\* ws_respond and the close: the client is no longer in its handshake, and nothing is launched.
LEMMA Refused ==
    ASSUME Waiting, NEW code, Refuse(code)
    PROVE  Over' /\ (responses' = <<>> \/ responses' = <<HTTP(code)>>)
  <1>1. /\ responses' = <<>> \/ responses' = <<HTTP(code)>>
        /\ gone' \in BOOLEAN
    BY OneAnswer DEF Waiting, Refuse
  <1>2. status' = "CLOSE" /\ reading' /\ ~launched' /\ reading' \in BOOLEAN /\ launched' \in BOOLEAN
    BY DEF Refuse, Waiting, InHandshake
  <1>3. Len(responses') = 0 \/ Len(responses') = 1
    <2>1. Len(<<>>) = 0 /\ Len(<<HTTP(code)>>) = 1
      OBVIOUS
    <2> QED
      BY <1>1, <2>1, Zenon
  <1>4. Len(responses') <= 2 /\ Len(responses') # 2
    BY <1>3
  <1>5. OpenWithChild'
    BY <1>2, <1>4 DEF OpenWithChild
  <1>6. ~InHandshake'
    BY <1>2 DEF InHandshake
  <1> QED
    BY <1>1, <1>2, <1>4, <1>5, <1>6 DEF Over

\* The 101 and onopen: the client is open with its child, or it is being closed without one.
LEMMA Opened ==
    ASSUME Waiting, config' = config, NEW headers, Open(headers)
    PROVE  /\ Over'
           /\ \/ responses' = <<>>
              \/ responses' = <<Switching(headers)>>
              \/ \E code : responses' = <<Switching(headers), HTTP(code)>>
  <1>1. PICK pid :
        /\ pid = "not called" => config["echomode"] = "given"
        /\ \/ /\ pid \in {"not called", "pid"}
              /\ Respond(<<Switching(headers)>>)
              /\ launched' = (pid = "pid")
              /\ reading' = FALSE
              /\ status' = "OK"
           \/ /\ pid \in {"0", "-1"}
              /\ Respond(<<Switching(headers), HTTP(IF pid = "0" THEN 400 ELSE 505)>>)
              /\ status' = "CLOSE"
              /\ UNCHANGED <<reading, launched>>
    <2>1. PICK pid \in IF config["echomode"] = "given" THEN {"not called"} ELSE onopen(headers["path"]) :
             \/ /\ pid \in {"not called", "pid"}
                /\ Respond(<<Switching(headers)>>)
                /\ launched' = (pid = "pid")
                /\ reading' = FALSE
                /\ status' = "OK"
             \/ /\ pid \in {"0", "-1"}
                /\ Respond(<<Switching(headers), HTTP(IF pid = "0" THEN 400 ELSE 505)>>)
                /\ status' = "CLOSE"
                /\ UNCHANGED <<reading, launched>>
      BY DEF Open
    <2>2. pid = "not called" => config["echomode"] = "given"
      BY DEF onopen
    <2> QED
      BY <2>1, <2>2
  <1>2. CASE /\ pid \in {"not called", "pid"}
             /\ Respond(<<Switching(headers)>>)
             /\ launched' = (pid = "pid")
             /\ reading' = FALSE
             /\ status' = "OK"
    <2>1. /\ responses' = <<>> \/ responses' = <<Switching(headers)>>
          /\ responses' = <<>> => gone'
          /\ gone' \in BOOLEAN
      BY <1>2, OneAnswer DEF Waiting
    <2>2. /\ ~reading' /\ reading' \in BOOLEAN /\ launched' \in BOOLEAN /\ status' = "OK"
          /\ launched' \/ pid = "not called"
      BY <1>2
    <2>3. Len(responses') = 0 \/ Len(responses') = 1
      <3>1. Len(<<>>) = 0 /\ Len(<<Switching(headers)>>) = 1
        OBVIOUS
      <3> QED
        BY <2>1, <3>1, Zenon
    <2>4. Len(responses') <= 2 /\ Len(responses') # 2
      <3>1. PICK n : n = Len(responses')
        OBVIOUS
      <3>2. n = 0 \/ n = 1
        BY <2>3, <3>1
      <3>3. n <= 2 /\ n # 2
        BY <3>2
      <3> QED
        BY <3>1, <3>3
    <2>5. responses' = <<Switching(headers)>> => Answered(101)'
      <3>1. 1 \in DOMAIN <<Switching(headers)>> /\ <<Switching(headers)>>[1].code = 101
        BY DEF Switching
      <3> QED
        BY <3>1, Zenon DEF Answered
    <2>6. pid = "not called" => config["echomode"] = "given"
      BY <1>1
    <2>7. OpenWithChild'
      BY <2>1, <2>2, <2>4, <2>5, <2>6 DEF OpenWithChild
    <2>8. ~InHandshake'
      BY <2>2 DEF InHandshake
    <2> QED
      BY <2>1, <2>2, <2>4, <2>7, <2>8 DEF Over
  <1>3. CASE /\ pid \in {"0", "-1"}
             /\ Respond(<<Switching(headers), HTTP(IF pid = "0" THEN 400 ELSE 505)>>)
             /\ status' = "CLOSE"
             /\ UNCHANGED <<reading, launched>>
    <2>1. PICK code : code = IF pid = "0" THEN 400 ELSE 505
      OBVIOUS
    <2>2. /\ responses' \in {<<>>, <<Switching(headers)>>, <<Switching(headers), HTTP(code)>>}
          /\ gone' \in BOOLEAN
      BY <1>3, <2>1, TwoAnswers DEF Waiting
    <2>3. status' = "CLOSE" /\ reading' /\ ~launched' /\ reading' \in BOOLEAN /\ launched' \in BOOLEAN
      BY <1>3 DEF Waiting, InHandshake
    <2>4. Len(responses') <= 2 /\ (Len(responses') = 2 => responses'[1].code = 101)
      <3>1. /\ Len(<<>>) = 0 /\ Len(<<Switching(headers)>>) = 1
            /\ Len(<<Switching(headers), HTTP(code)>>) = 2
        OBVIOUS
      <3>2. <<Switching(headers), HTTP(code)>>[1].code = 101
        BY DEF Switching
      <3>3. \/ Len(responses') = 0 \/ Len(responses') = 1
            \/ Len(responses') = 2 /\ responses'[1].code = 101
        BY <2>2, <3>1, <3>2, Zenon
      <3>4. PICK n : n = Len(responses')
        OBVIOUS
      <3>5. n = 0 \/ n = 1 \/ n = 2
        BY <3>3, <3>4
      <3>6. n <= 2
        BY <3>5
      <3>7. 0 # 2 /\ 1 # 2
        OBVIOUS
      <3>8. n = 2 => responses'[1].code = 101
        BY <3>3, <3>4, <3>7, Zenon
      <3> QED
        BY <3>4, <3>6, <3>8
    <2>5. OpenWithChild'
      BY <2>3, <2>4 DEF OpenWithChild
    <2>6. ~InHandshake'
      BY <2>3 DEF InHandshake
    <2> QED
      BY <2>2, <2>3, <2>4, <2>5, <2>6 DEF Over
  <1> QED
    BY <1>1, <1>2, <1>3

-----------------------------------------------------------------------------
(* The invariant *)

LEMMA HandshakeInit == Init => HandshakeInv
  <1> SUFFICES ASSUME Init PROVE HandshakeInv
    OBVIOUS
  <1>1. OptionsInv /\ StartupTypeOK
    BY OptionsInit DEF Init, OptionsInv
  <1>2. /\ request = <<>> /\ taken = 0 /\ gone = FALSE /\ buf = <<>> /\ reading = TRUE
        /\ status = "none" /\ responses = <<>> /\ launched = FALSE
    BY DEF Init
  <1>3. Len(<<>>) = 0 /\ <<>> \in Seq(Tokens) /\ Range(<<>>) \subseteq Range(<<>>)
    BY EmptySeq
  <1>4. TypeOK
    <2>1. 0 <= MaxHead
      BY HandshakeAssumption
    <2>2. /\ request \in Seq(Tokens)
          /\ Len(request) = 0 /\ Len(buf) = 0 /\ Len(responses) = 0
      BY <1>2, <1>3, Zenon
    <2>4. taken \in 0 .. Len(request) /\ Len(buf) <= MaxHead /\ Len(responses) <= 2
      BY <1>2, <2>1, <2>2
    <2>3. Range(buf) \subseteq Range(request)
      BY <1>2
    <2> QED
      BY <1>1, <1>2, <2>2, <2>3, <2>4 DEF TypeOK
  <1>5. OpenWithChild
    <2>1. Len(responses) # 2
      BY <1>2, <1>3
    <2> QED
      BY <1>2, <2>1 DEF OpenWithChild
  <1> QED
    BY <1>1, <1>2, <1>4, <1>5 DEF HandshakeInv, InHandshake

(* One lemma per action. *)

LEMMA StartKeeps ==
    ASSUME HandshakeInv, Start, UNCHANGED client
    PROVE  HandshakeInv'
  <1>1. OptionsInv' /\ StartupTypeOK'
    BY OptionsStep DEF HandshakeInv, OptionsInv
  <1>2. pc # "serving"
    BY DEF Start, Defaults, read_option_args, parse_long_opt, LogFails, Help, wd_daemon,
           setup_signals, ws_init, ws_start, Read
  <1>3. /\ status = "none" /\ reading /\ ~launched /\ responses = <<>>
        /\ request = <<>> /\ taken = 0 /\ buf = <<>>
    BY <1>2 DEF HandshakeInv
  <1>4. /\ request' = request /\ taken' = taken /\ gone' = gone /\ buf' = buf
        /\ reading' = reading /\ status' = status /\ responses' = responses
        /\ launched' = launched
    BY DEF client
  <1>5. TypeOK'
    BY <1>1, <1>4 DEF HandshakeInv, TypeOK
  <1>6. OpenWithChild'
    <2>1. Len(responses') # 2
      <3>1. Len(<<>>) # 2
        OBVIOUS
      <3> QED
        BY <1>3, <1>4, <3>1, Zenon
    <2> QED
      BY <1>3, <1>4, <2>1 DEF OpenWithChild
  <1> QED
    BY <1>1, <1>3, <1>4, <1>5, <1>6 DEF HandshakeInv, InHandshake

LEMMA ConnectKeeps ==
    ASSUME HandshakeInv, Connect
    PROVE  HandshakeInv'
  <1>1. /\ pc = "serving" /\ status = "none" /\ request' \in Requests /\ status' = "OK"
        /\ taken' = taken /\ gone' = gone /\ buf' = buf
        /\ reading' = reading /\ responses' = responses /\ launched' = launched
        /\ UNCHANGED startup
    BY DEF Connect
  <1>2. /\ reading /\ ~launched /\ responses = <<>> /\ taken = 0 /\ buf = <<>>
    BY <1>1 DEF HandshakeInv
  <1>3. OptionsInv' /\ StartupTypeOK'
    BY <1>1 DEF HandshakeInv, OptionsInv, StartupTypeOK, OptionsRead, startup
  <1>4. request' \in Seq(Tokens)
    BY <1>1, HandshakeAssumption
  <1>5. TypeOK'
    <2>1. Len(request') \in Nat
      BY <1>4, LenProperties
    <2>2. taken' \in 0 .. Len(request')
      BY <1>1, <1>2, <2>1
    <2>3. Range(buf') = {}
      BY <1>1, <1>2 DEF Range
    <2> QED
      BY <1>1, <1>3, <1>4, <2>2, <2>3 DEF HandshakeInv, TypeOK
  <1>6. OpenWithChild'
    <2>1. Len(responses') # 2
      <3>1. Len(<<>>) # 2
        OBVIOUS
      <3> QED
        BY <1>1, <1>2, <3>1, Zenon
    <2> QED
      BY <1>1, <1>2, <2>1 DEF OpenWithChild
  <1>7. buf' = SubSeq(request', 1, taken')
    <2>1. SubSeq(request', 1, 0) = <<>>
      BY SubSeqEmpty
    <2> QED
      BY <1>1, <1>2, <2>1
  <1>8. Incomplete(CString(buf'))
    BY <1>1, <1>2, NothingIncomplete
  <1>9. pc' = "serving"
    BY <1>1 DEF startup
  <1> QED
    BY <1>1, <1>2, <1>3, <1>5, <1>6, <1>7, <1>8, <1>9 DEF HandshakeInv

\* What a step of the client or of the handshake leaves as it is.
LEMMA SameServer ==
    ASSUME HandshakeInv, UNCHANGED startup
    PROVE  OptionsInv' /\ StartupTypeOK' /\ pc' = pc /\ config' = config
  BY DEF HandshakeInv, OptionsInv, StartupTypeOK, OptionsRead, startup

LEMMA LeaveKeeps ==
    ASSUME HandshakeInv, Leave
    PROVE  HandshakeInv'
  <1>1. /\ status \in {"OK", "READING"} /\ gone' = TRUE
        /\ request' = request /\ taken' = taken /\ buf' = buf /\ status' = status
        /\ reading' = reading /\ responses' = responses /\ launched' = launched
        /\ UNCHANGED startup
    BY DEF Leave
  <1>2. OptionsInv' /\ StartupTypeOK' /\ pc' = pc /\ config' = config
    BY <1>1, SameServer
  <1>3. TypeOK'
    BY <1>1, <1>2 DEF HandshakeInv, TypeOK
  <1>4. OpenWithChild'
    BY <1>1, <1>2 DEF HandshakeInv, OpenWithChild
  <1> QED
    BY <1>1, <1>2, <1>3, <1>4 DEF HandshakeInv, InHandshake

LEMMA TryAgainKeeps ==
    ASSUME HandshakeInv, TryAgain
    PROVE  HandshakeInv'
  <1>1. /\ InHandshake /\ status' = "READING" /\ UNCHANGED startup
        /\ request' = request /\ taken' = taken /\ buf' = buf /\ gone' = gone
        /\ reading' = reading /\ responses' = responses /\ launched' = launched
    BY DEF TryAgain
  <1>2. OptionsInv' /\ StartupTypeOK' /\ pc' = pc /\ config' = config
    BY <1>1, SameServer
  <1>3. TypeOK'
    BY <1>1, <1>2 DEF HandshakeInv, TypeOK
  <1>4. reading /\ ~launched /\ responses = <<>> /\ status # "none"
    BY <1>1 DEF HandshakeInv, InHandshake
  <1>5. OpenWithChild'
    <2>1. Len(responses') # 2
      <3>1. Len(<<>>) # 2
        OBVIOUS
      <3> QED
        BY <1>1, <1>4, <3>1, Zenon
    <2> QED
      BY <1>1, <1>4, <2>1 DEF OpenWithChild
  <1> QED
    BY <1>1, <1>2, <1>3, <1>4, <1>5 DEF HandshakeInv

\* The type of what an answer does not set, and the invariant after it.
LEMMA OverKeeps ==
    ASSUME HandshakeInv, InHandshake, UNCHANGED <<startup, request>>, Over',
           taken' \in 0 .. Len(request), Len(buf') <= MaxHead, Range(buf') \subseteq Range(request)
    PROVE  HandshakeInv'
  <1>1. OptionsInv' /\ StartupTypeOK' /\ pc' = pc /\ config' = config /\ request' = request
    BY SameServer
  <1>2. /\ OpenWithChild' /\ ~InHandshake' /\ status' \in {"OK", "CLOSE"} /\ Len(responses') <= 2
        /\ gone' \in BOOLEAN /\ reading' \in BOOLEAN /\ launched' \in BOOLEAN
    BY DEF Over
  <1>3. TypeOK'
    BY <1>1, <1>2 DEF HandshakeInv, TypeOK
  <1>4. status # "none"
    BY DEF InHandshake
  <1> QED
    BY <1>1, <1>2, <1>3, <1>4 DEF HandshakeInv

LEMMA ReadFailsKeeps ==
    ASSUME HandshakeInv, ReadFails
    PROVE  HandshakeInv'
  <1>1. /\ InHandshake /\ Refuse(400) /\ taken' = taken /\ buf' = buf
        /\ UNCHANGED <<startup, request>>
    BY DEF ReadFails
  <1>2. Waiting
    BY <1>1 DEF HandshakeInv, TypeOK, Waiting
  <1>3. Over'
    BY <1>1, <1>2, Refused
  <1>4. taken' \in 0 .. Len(request) /\ Len(buf') <= MaxHead /\ Range(buf') \subseteq Range(request)
    BY <1>1 DEF HandshakeInv, TypeOK
  <1> QED
    BY <1>1, <1>3, <1>4, OverKeeps

LEMMA ReceiveKeeps ==
    ASSUME HandshakeInv, NEW n \in 1 .. MaxHead, Receive(n)
    PROVE  HandshakeInv'
  <1>1. /\ InHandshake /\ n <= Len(request) - taken /\ n <= Room
        /\ buf' = Got(n) /\ taken' = taken + n /\ UNCHANGED <<startup, request>>
        /\ Answer(CString(Got(n)))
    BY DEF Receive
  <1>2. /\ request \in Seq(Tokens) /\ taken \in 0 .. Len(request)
        /\ buf = SubSeq(request, 1, taken) /\ status # "none"
    BY <1>1 DEF HandshakeInv, TypeOK, InHandshake
  <1>3. Waiting
    BY <1>1 DEF HandshakeInv, TypeOK, Waiting
  <1>4. Len(request) \in Nat /\ n \in Nat /\ MaxHead \in Nat
    BY <1>2, LenProperties, HandshakeAssumption
  <1>5. Got(n) = SubSeq(request, 1, taken + n)
    BY <1>1, <1>2, <1>4, GotIsPrefix
  <1>6. taken + n \in 0 .. Len(request)
    BY <1>1, <1>2, <1>4
  <1>7. Len(buf') <= MaxHead
    <2>1. Len(buf) = taken
      BY <1>2, Prefix
    <2>2. Len(buf') = taken + n
      BY <1>1, <1>2, <1>5, <1>6, Prefix
    <2>3. n <= MaxHead - taken
      BY <1>1, <2>1 DEF Room
    <2> QED
      BY <1>2, <1>4, <2>2, <2>3
  <1>8. Range(buf') \subseteq Range(request)
    <2>1. Range(SubSeq(request, 1, taken + n)) \subseteq Range(request)
      BY <1>2, <1>6, PrefixRange
    <2> QED
      BY <1>1, <1>5, <2>1
  <1>9. taken' \in 0 .. Len(request)
    BY <1>1, <1>6
  <1>10. CASE Incomplete(CString(Got(n))) /\ More
    <2>1. /\ status' = "READING" /\ gone' = gone /\ reading' = reading
          /\ responses' = responses /\ launched' = launched
      BY <1>10 DEF More
    <2>2. OptionsInv' /\ StartupTypeOK' /\ pc' = pc /\ config' = config /\ request' = request
      BY <1>1, SameServer
    <2>3. TypeOK'
      BY <1>7, <1>8, <1>9, <2>1, <2>2 DEF HandshakeInv, TypeOK
    <2>4. reading /\ ~launched /\ responses = <<>>
      BY <1>3 DEF Waiting, InHandshake
    <2>5. Len(responses') # 2
      <3>1. Len(<<>>) # 2
        OBVIOUS
      <3> QED
        BY <2>1, <2>4, <3>1, Zenon
    <2>6. OpenWithChild'
      BY <2>1, <2>4, <2>5 DEF OpenWithChild
    <2>7. buf' = SubSeq(request', 1, taken') /\ Incomplete(CString(buf'))
      BY <1>1, <1>5, <1>10, <2>2
    <2> QED
      BY <1>2, <2>1, <2>2, <2>3, <2>4, <2>6, <2>7 DEF HandshakeInv
  <1>11. CASE Refuse(400)
    BY <1>1, <1>3, <1>7, <1>8, <1>9, <1>11, Refused, OverKeeps
  <1>12. CASE \E headers : Open(headers)
    <2>1. config' = config
      BY <1>1 DEF startup
    <2> QED
      BY <1>1, <1>3, <1>7, <1>8, <1>9, <1>12, <2>1, Opened, OverKeeps
  <1> QED
    BY <1>1, <1>10, <1>11, <1>12 DEF Answer

LEMMA HandshakeAlways == Spec => []HandshakeInv
  <1>1. HandshakeInv /\ [Next]_vars => HandshakeInv'
    <2> SUFFICES ASSUME HandshakeInv, [Next]_vars PROVE HandshakeInv'
      OBVIOUS
    <2>1. CASE UNCHANGED vars
      <3>1. /\ request' = request /\ taken' = taken /\ gone' = gone /\ buf' = buf
            /\ reading' = reading /\ status' = status /\ responses' = responses
            /\ launched' = launched /\ UNCHANGED startup
        BY <2>1 DEF vars, client
      <3>2. OptionsInv' /\ StartupTypeOK' /\ pc' = pc /\ config' = config
        BY <3>1, SameServer
      <3>3. TypeOK' /\ OpenWithChild'
        BY <3>1, <3>2 DEF HandshakeInv, TypeOK, OpenWithChild, Answered
      <3> QED
        BY <3>1, <3>2, <3>3 DEF HandshakeInv, InHandshake
    <2> QED
      BY <2>1, StartKeeps, ConnectKeeps, LeaveKeeps, TryAgainKeeps, ReadFailsKeeps, ReceiveKeeps
         DEF Next, ws_get_handshake
  <1> QED
    BY <1>1, HandshakeInit, PTL DEF Spec

\* The types hold for any requests and any size of the buffer: ws_get_handshake never has more
\* in headers->buf than it holds, nor anything but what the client has sent.
THEOREM HandshakeTypeCorrect == Spec => []TypeOK
  BY HandshakeAlways, PTL DEF HandshakeInv

\* A page is open when its child has been launched and not otherwise; nothing is answered
\* before the 101, nor after the refusal of its page, for any requests.
THEOREM LaunchedWhenOpen == Spec => []OpenWithChild
  BY HandshakeAlways, PTL DEF HandshakeInv

-----------------------------------------------------------------------------
(* The string in the buffer, and the blank line in it *)

\* The string in the buffer is the request up to a place where a NUL follows, or as far as it
\* has come.
LEMMA StringIsPrefix ==
    ASSUME NEW r \in Seq(Tokens), NEW t \in 0 .. Len(r)
    PROVE  \E l \in 0 .. t : /\ CString(SubSeq(r, 1, t)) = SubSeq(r, 1, l)
                             /\ \A i \in 1 .. l : r[i] # NUL
                             /\ l < t => r[l + 1] = NUL
  <1> DEFINE p == SubSeq(r, 1, t)
             nuls == {i \in 1 .. Len(p) : p[i] = NUL}
  <1>1. Len(r) \in Nat
    BY LenProperties
  <1>2. /\ Len(p) = t
        /\ \A i \in 1 .. t : p[i] = r[i]
    BY Prefix
  <1>3. nuls = {i \in 1 .. t : r[i] = NUL}
    BY <1>2
  <1>4. CString(p) = IF nuls # {} THEN SubSeq(p, 1, Min(nuls) - 1) ELSE p
    BY Zenon DEF CString
  <1>5. CASE nuls = {}
    <2>1. CString(p) = SubSeq(r, 1, t)
      BY <1>4, <1>5
    <2>2. \A i \in 1 .. t : r[i] # NUL
      BY <1>3, <1>5
    <2>3. t \in 0 .. t
      BY <1>1
    <2> QED
      BY <2>1, <2>2, <2>3
  <1>6. CASE nuls # {}
    <2>1. nuls \in SUBSET Nat
      BY <1>1, <1>3
    <2>2. \E x \in nuls : \A y \in nuls : x <= y
      BY <1>6, <2>1, Smallest
    <2>3. PICK m : m = Min(nuls)
      OBVIOUS
    <2>4. m \in nuls /\ \A y \in nuls : m <= y
      BY <2>2, <2>3 DEF Min
    <2>5. m \in 1 .. t /\ r[m] = NUL /\ m - 1 \in 0 .. t /\ m - 1 < t /\ m - 1 + 1 = m
      BY <1>1, <1>3, <2>4
    <2>6. \A i \in 1 .. m - 1 : r[i] # NUL
      BY <1>1, <1>3, <2>4, <2>5
    <2>7. SubSeq(p, 1, m - 1) = SubSeq(r, 1, m - 1)
      <3>1. CASE m = 1
        <4>1. SubSeq(p, 1, 0) = <<>> /\ SubSeq(r, 1, 0) = <<>>
          BY SubSeqEmpty
        <4> QED
          BY <3>1, <4>1
      <3>2. CASE m # 1
        <4>1. m - 1 \in 1 .. t - 1 + 1 /\ 1 \in 1 .. t - 1 + 1 /\ t \in 1 .. Len(r)
              /\ 1 \in 1 .. Len(r) /\ 1 + 1 - 1 = 1 /\ 1 + (m - 1) - 1 = m - 1
          BY <1>1, <2>5, <3>2
        <4>2. SubSeq(SubSeq(r, 1, t), 1, m - 1) = SubSeq(r, 1 + 1 - 1, 1 + (m - 1) - 1)
          BY <4>1, SubSeqOfSubSeq
        <4> QED
          BY <4>1, <4>2
      <3> QED
        BY <3>1, <3>2
    <2>8. CString(p) = SubSeq(r, 1, m - 1)
      BY <1>4, <1>6, <2>3, <2>7
    <2> QED
      BY <2>5, <2>6, <2>8
  <1> QED
    BY <1>5, <1>6

LEMMA Controls ==
    /\ CR \in Tokens /\ LF \in Tokens /\ NUL \in Tokens
    /\ CR # LF /\ CR # NUL /\ LF # NUL
    /\ CR.kind = "CR" /\ LF.kind = "LF"
  BY DEF CR, LF, NUL, Token, Tokens

\* The tokens of a pattern stand one behind the other where strstr() finds it.
LEMMA AtPattern ==
    ASSUME NEW s \in Seq(Tokens), NEW p \in Seq(Tokens), NEW i \in Nat \ {0}
    PROVE  At(s, p, i) <=> /\ i + Len(p) - 1 <= Len(s)
                           /\ \A k \in 1 .. Len(p) : s[i + k - 1] = p[k]
  <1>1. Len(s) \in Nat /\ Len(p) \in Nat
    BY LenProperties
  <1> SUFFICES ASSUME i + Len(p) - 1 <= Len(s)
               PROVE  SubSeq(s, i, i + Len(p) - 1) = p
                         <=> \A k \in 1 .. Len(p) : s[i + k - 1] = p[k]
    BY DEF At
  <1> DEFINE q == SubSeq(s, i, i + Len(p) - 1)
  <1>2. \A k \in i .. i + Len(p) - 1 : k \in 1 .. Len(s)
    BY <1>1
  <1>3. \A k \in i .. i + Len(p) - 1 : s[k] \in Tokens
    BY <1>2, ElementOfSeq
  <1>4. i \in Int /\ i + Len(p) - 1 \in Int
    BY <1>1
  <1>5. /\ q \in Seq(Tokens)
        /\ Len(q) = IF i <= i + Len(p) - 1 THEN i + Len(p) - 1 - i + 1 ELSE 0
        /\ \A k \in 1 .. i + Len(p) - 1 - i + 1 : q[k] = s[i + k - 1]
    BY <1>3, <1>4, SubSeqProperties
  <1>6. i + Len(p) - 1 - i + 1 = Len(p) /\ Len(q) = Len(p)
    BY <1>1, <1>5
  <1>7. \A k \in 1 .. Len(p) : q[k] = s[i + k - 1]
    BY <1>5, <1>6
  <1> HIDE DEF q
  <1>8. (\A k \in 1 .. Len(p) : s[i + k - 1] = p[k]) => q = p
    <2> SUFFICES ASSUME \A k \in 1 .. Len(p) : s[i + k - 1] = p[k] PROVE q = p
      OBVIOUS
    <2>1. \A k \in 1 .. Len(q) : q[k] = p[k]
      BY <1>6, <1>7
    <2> QED
      BY <1>5, <1>6, <2>1, SeqEqual
  <1>9. q = p => \A k \in 1 .. Len(p) : s[i + k - 1] = p[k]
    BY <1>7
  <1> QED
    BY <1>8, <1>9 DEF q

LEMMA AtCrLf ==
    ASSUME NEW s \in Seq(Tokens), NEW i \in Nat \ {0}
    PROVE  At(s, CrLf, i) <=> i + 1 <= Len(s) /\ s[i] = CR /\ s[i + 1] = LF
  <1> DEFINE p == CrLf
  <1>1. p \in Seq(Tokens) /\ Len(p) = 2 /\ p[1] = CR /\ p[2] = LF
    BY Controls DEF CrLf
  <1> HIDE DEF p
  <1>2. At(s, p, i) <=> /\ i + Len(p) - 1 <= Len(s)
                        /\ \A k \in 1 .. Len(p) : s[i + k - 1] = p[k]
    BY <1>1, AtPattern
  <1>3. 1 .. 2 = {1, 2} /\ i + 1 - 1 = i /\ i + 2 - 1 = i + 1
    OBVIOUS
  <1>4. At(s, p, i) <=> i + 1 <= Len(s) /\ s[i] = CR /\ s[i + 1] = LF
    BY <1>1, <1>2, <1>3
  <1> QED
    BY <1>4 DEF p

LEMMA BlankIs == /\ Blank \in Seq(Tokens) /\ Len(Blank) = 4
                 /\ Blank[1] = CR /\ Blank[2] = LF /\ Blank[3] = CR /\ Blank[4] = LF
  <1>1. CrLf \in Seq(Tokens) /\ Len(CrLf) = 2 /\ CrLf[1] = CR /\ CrLf[2] = LF
    BY Controls DEF CrLf
  <1>2. /\ CrLf \o CrLf \in Seq(Tokens)
        /\ Len(CrLf \o CrLf) = Len(CrLf) + Len(CrLf)
        /\ \A i \in 1 .. Len(CrLf) + Len(CrLf) :
              (CrLf \o CrLf)[i] = IF i <= Len(CrLf) THEN CrLf[i] ELSE CrLf[i - Len(CrLf)]
    BY <1>1, ConcatProperties
  <1> DEFINE b == CrLf \o CrLf
             c == CrLf
  <1>3. Len(b) = 4 /\ \A i \in 1 .. 4 : b[i] = IF i <= 2 THEN c[i] ELSE c[i - 2]
    BY <1>1, <1>2
  <1>4. c[1] = CR /\ c[2] = LF
    BY <1>1
  <1> HIDE DEF b, c
  <1>5. b[1] = c[1] /\ b[2] = c[2] /\ b[3] = c[1] /\ b[4] = c[2]
    BY <1>3
  <1> QED
    BY <1>2, <1>3, <1>4, <1>5 DEF Blank, b

LEMMA AtBlank ==
    ASSUME NEW s \in Seq(Tokens), NEW i \in Nat \ {0}
    PROVE  At(s, Blank, i) <=> /\ i + 3 <= Len(s) /\ s[i] = CR /\ s[i + 1] = LF
                               /\ s[i + 2] = CR /\ s[i + 3] = LF
  <1>1. At(s, Blank, i) <=> /\ i + Len(Blank) - 1 <= Len(s)
                            /\ \A k \in 1 .. Len(Blank) : s[i + k - 1] = Blank[k]
    BY BlankIs, AtPattern
  <1>2. 1 .. 4 = {1, 2, 3, 4} /\ i + 1 - 1 = i /\ i + 2 - 1 = i + 1
        /\ i + 3 - 1 = i + 2 /\ i + 4 - 1 = i + 3
    OBVIOUS
  <1>3. i + Len(Blank) - 1 = i + 3
    BY BlankIs
  <1>4. (\A k \in 1 .. Len(Blank) : s[i + k - 1] = Blank[k])
        <=> s[i] = CR /\ s[i + 1] = LF /\ s[i + 2] = CR /\ s[i + 3] = LF
    <2>1. (\A k \in 1 .. Len(Blank) : s[i + k - 1] = Blank[k])
          <=> \A k \in {1, 2, 3, 4} : s[i + k - 1] = Blank[k]
      BY <1>2, BlankIs
    <2>2. (\A k \in {1, 2, 3, 4} : s[i + k - 1] = Blank[k])
          <=> /\ s[i + 1 - 1] = Blank[1] /\ s[i + 2 - 1] = Blank[2]
              /\ s[i + 3 - 1] = Blank[3] /\ s[i + 4 - 1] = Blank[4]
      BY Zenon
    <2> QED
      BY <1>2, <2>1, <2>2, BlankIs
  <1> QED
    BY <1>1, <1>3, <1>4

\* The places of a blank line.
LEMMA BlankPlaces ==
    ASSUME NEW s \in Seq(Tokens), NEW i
    PROVE  i \in Places(s, Blank) <=> /\ i \in Nat \ {0} /\ i + 3 <= Len(s)
                                      /\ s[i] = CR /\ s[i + 1] = LF
                                      /\ s[i + 2] = CR /\ s[i + 3] = LF
  <1>1. Len(s) \in Nat
    BY LenProperties
  <1>2. i \in Nat \ {0} /\ i + 3 <= Len(s) => i \in 1 .. Len(s)
    BY <1>1
  <1>3. i \in 1 .. Len(s) => i \in Nat \ {0}
    OBVIOUS
  <1> QED
    BY <1>2, <1>3, AtBlank DEF Places

LEMMA CrLfPlaces ==
    ASSUME NEW s \in Seq(Tokens), NEW i
    PROVE  i \in Places(s, CrLf) <=> /\ i \in Nat \ {0} /\ i + 1 <= Len(s)
                                     /\ s[i] = CR /\ s[i + 1] = LF
  <1>1. Len(s) \in Nat
    BY LenProperties
  <1>2. i \in Nat \ {0} /\ i + 1 <= Len(s) => i \in 1 .. Len(s)
    BY <1>1
  <1>3. i \in 1 .. Len(s) => i \in Nat \ {0}
    OBVIOUS
  <1> QED
    BY <1>2, <1>3, AtCrLf DEF Places

\* The first blank line before which there is no NUL, if there is one.
LEMMA HeadEndIs ==
    ASSUME NEW r \in Requests
    PROVE  /\ HeadEnd[r] \in 1 .. Len(r) + 1
           /\ HeadEnd[r] # Len(r) + 1 => HeadEnd[r] \in Places(r, Blank)
                                         /\ \A j \in 1 .. HeadEnd[r] + 3 : r[j] # NUL
           /\ \A i \in Places(r, Blank) : (\A j \in 1 .. i : r[j] # NUL) => HeadEnd[r] <= i
  <1> DEFINE ends == {Len(r) + 1} \cup {i \in Places(r, Blank) : \A j \in 1 .. i : r[j] # NUL}
             e == Min(ends)
  <1>1. r \in Seq(Tokens) /\ Len(r) \in Nat
    BY HandshakeAssumption, LenProperties
  <1>2. HeadEnd[r] = e
    BY DEF HeadEnd
  <1>3. ends \in SUBSET Nat /\ Len(r) + 1 \in ends
    BY <1>1 DEF Places
  <1>4. \E x \in ends : \A y \in ends : x <= y
    BY <1>3, Smallest
  <1> HIDE DEF ends
  <1>5. e \in ends /\ \A y \in ends : e <= y
    BY <1>4 DEF Min
  <1> HIDE DEF e
  <1>6. \A i \in Places(r, Blank) : i \in 1 .. Len(r)
    BY DEF Places
  <1>7. e \in 1 .. Len(r) + 1
    BY <1>1, <1>5, <1>6 DEF ends
  <1>8. e # Len(r) + 1 => e \in Places(r, Blank) /\ \A j \in 1 .. e : r[j] # NUL
    BY <1>5 DEF ends
  <1>9. ASSUME e # Len(r) + 1, NEW j \in 1 .. e + 3
        PROVE  r[j] # NUL
    <2>1. r[e] = CR /\ r[e + 1] = LF /\ r[e + 2] = CR /\ r[e + 3] = LF
      BY <1>1, <1>8, <1>9, BlankPlaces
    <2>2. j \in 1 .. e \/ j = e + 1 \/ j = e + 2 \/ j = e + 3
      BY <1>7
    <2> QED
      BY <1>8, <1>9, <2>1, <2>2, Controls
  <1>10. ASSUME NEW i \in Places(r, Blank), \A j \in 1 .. i : r[j] # NUL
         PROVE  e <= i
    BY <1>5, <1>10 DEF ends
  <1> QED
    BY <1>2, <1>7, <1>8, <1>9, <1>10

\* When the blank line has come, and whether anything behind it is in the string.
LEMMA BlankHasCome ==
    ASSUME NEW r \in Requests, NEW t \in 0 .. Len(r), NEW l \in 0 .. t,
           \A i \in 1 .. l : r[i] # NUL, l < t => r[l + 1] = NUL
    PROVE  LET s == SubSeq(r, 1, l)
               e == HeadEnd[r]
           IN  /\ Incomplete(s) <=> ~(e + 3 <= t)
               /\ ~Incomplete(s) => e \in Places(s, Blank) /\ \A i \in Places(s, Blank) : e <= i
               /\ ~Incomplete(s) => (l = e + 3 <=> (t > e + 3 => r[e + 4] = NUL))
  <1> DEFINE s == SubSeq(r, 1, l)
             e == HeadEnd[r]
  <1>1. r \in Seq(Tokens) /\ Len(r) \in Nat
    BY HandshakeAssumption, LenProperties
  <1>2. l \in 0 .. Len(r) /\ l \in Nat /\ t \in Nat /\ l <= t /\ t <= Len(r)
    BY <1>1
  <1>3. s \in Seq(Tokens) /\ Len(s) = l /\ \A i \in 1 .. l : s[i] = r[i]
    BY <1>1, <1>2, Prefix
  <1> HIDE DEF s
  <1>4. /\ e \in 1 .. Len(r) + 1
        /\ e # Len(r) + 1 => e \in Places(r, Blank) /\ \A j \in 1 .. e + 3 : r[j] # NUL
        /\ \A i \in Places(r, Blank) : (\A j \in 1 .. i : r[j] # NUL) => e <= i
    BY HeadEndIs
  <1> HIDE DEF e
  <1>5. ASSUME NEW i
        PROVE  i \in Places(s, Blank) <=> i \in Places(r, Blank) /\ i + 3 <= l
    <2>1. i \in Nat \ {0} /\ i + 3 <= l =>
             /\ i \in 1 .. l /\ i + 1 \in 1 .. l /\ i + 2 \in 1 .. l /\ i + 3 \in 1 .. l
             /\ i + 3 <= Len(r)
      BY <1>2
    <2>2. i \in Nat \ {0} /\ i + 3 <= l =>
             /\ s[i] = r[i] /\ s[i + 1] = r[i + 1] /\ s[i + 2] = r[i + 2] /\ s[i + 3] = r[i + 3]
             /\ i + 3 <= Len(r)
      BY <1>3, <2>1
    <2> QED
      BY <1>1, <1>3, <2>2, BlankPlaces
  <1>6. e + 3 <= t => e + 3 <= l
    <2> SUFFICES ASSUME e + 3 <= t, l < e + 3 PROVE FALSE
      BY <1>2, <1>4
    <2>1. e # Len(r) + 1 /\ l < t /\ l + 1 \in 1 .. e + 3
      BY <1>2, <1>4
    <2> QED
      BY <1>4, <2>1
  <1>7. e + 3 <= t => e \in Places(s, Blank)
    <2> SUFFICES ASSUME e + 3 <= t PROVE e \in Places(s, Blank)
      OBVIOUS
    <2>1. e # Len(r) + 1
      BY <1>2, <1>4
    <2> QED
      BY <1>4, <1>5, <1>6, <2>1
  <1>8. ASSUME NEW i \in Places(s, Blank)
        PROVE  e <= i /\ e + 3 <= t
    <2>1. i \in Places(r, Blank) /\ i + 3 <= l /\ i \in Nat \ {0}
      BY <1>1, <1>5, BlankPlaces
    <2>2. \A j \in 1 .. i : j \in 1 .. l
      BY <1>2, <2>1
    <2>3. e <= i
      BY <1>4, <2>1, <2>2
    <2> QED
      BY <1>2, <1>4, <2>1, <2>3
  <1>9. Incomplete(s) <=> ~(e + 3 <= t)
    BY <1>7, <1>8 DEF Incomplete
  <1>10. ASSUME e + 3 <= t
         PROVE  l = e + 3 <=> (t > e + 3 => r[e + 4] = NUL)
    <2>1. e + 3 <= l
      BY <1>6, <1>10
    <2>2. l = e + 3 => (t > e + 3 => r[e + 4] = NUL)
      <3> SUFFICES ASSUME l = e + 3, t > e + 3 PROVE r[e + 4] = NUL
        OBVIOUS
      <3>1. l < t /\ l + 1 = e + 4
        BY <1>2, <1>4
      <3> QED
        BY <3>1
    <2>3. l # e + 3 => t > e + 3 /\ r[e + 4] # NUL
      <3> SUFFICES ASSUME l # e + 3 PROVE t > e + 3 /\ r[e + 4] # NUL
        OBVIOUS
      <3>1. e + 4 \in 1 .. l /\ t > e + 3
        BY <1>2, <1>4, <2>1
      <3> QED
        BY <3>1
    <2> QED
      BY <2>2, <2>3
  <1> QED
    BY <1>7, <1>8, <1>9, <1>10 DEF s, e

-----------------------------------------------------------------------------
(* The lines of a string *)

\* The line that begins at i ends before j.
LineEnd(s, i, j) == /\ j \in i .. Len(s) + 1
                    /\ j > Len(s) \/ At(s, CrLf, j)
                    /\ \A k \in i .. j - 1 : ~(k > Len(s) \/ At(s, CrLf, k))

LEMMA LineEnds ==
    ASSUME NEW s \in Seq(Tokens), NEW i \in 1 .. Len(s) + 1
    PROVE  \E j \in i .. Len(s) + 1 : LineEnd(s, i, j)
  <1> DEFINE ends == {j \in i .. Len(s) + 1 : j > Len(s) \/ At(s, CrLf, j)}
  <1>1. Len(s) \in Nat /\ i \in Nat
    BY LenProperties
  <1>2. ends \in SUBSET Nat
    BY <1>1
  <1>3. Len(s) + 1 \in ends
    BY <1>1
  <1> HIDE DEF ends
  <1>4. PICK j \in ends : \A k \in ends : j <= k
    BY <1>2, <1>3, Smallest
  <1>5. j \in i .. Len(s) + 1 /\ (j > Len(s) \/ At(s, CrLf, j))
    BY <1>4 DEF ends
  <1>6. ASSUME NEW k \in i .. j - 1
        PROVE  ~(k > Len(s) \/ At(s, CrLf, k))
    <2>1. k \in i .. Len(s) + 1 /\ ~(j <= k)
      BY <1>1, <1>5
    <2> QED
      BY <1>4, <2>1 DEF ends
  <1> QED
    BY <1>5, <1>6 DEF LineEnd

LEMMA LineIs ==
    ASSUME NEW s \in Seq(Tokens), NEW i \in Nat \ {0}, NEW j, LineEnd(s, i, j)
    PROVE  /\ LineAt(s, i) = SubSeq(s, i, j - 1)
           /\ LineAt(s, i) \in Seq(Tokens)
           /\ Len(LineAt(s, i)) = j - i
  <1>1. Len(s) \in Nat /\ i \in Nat /\ i # 0
    BY LenProperties
  <1>2. j \in i .. Len(s) + 1 /\ j \in Nat /\ i <= j /\ j <= Len(s) + 1
    BY <1>1 DEF LineEnd
  <1> DEFINE first(k) == (k > Len(s) \/ At(s, CrLf, k))
                         /\ \A m \in i .. k - 1 : ~(m > Len(s) \/ At(s, CrLf, m))
             end == CHOOSE k \in i .. Len(s) + 1 : first(k)
  <1>3. LineAt(s, i) = SubSeq(s, i, end - 1)
    BY DEF LineAt
  <1>4. first(j)
    BY DEF LineEnd
  <1>5. end \in i .. Len(s) + 1 /\ first(end)
    BY <1>2, <1>4
  <1> HIDE DEF end
  <1>6. end \in Nat /\ ~(end < j) /\ ~(j < end)
    <2>1. end \in Nat
      BY <1>1, <1>5
    <2>2. end < j => end \in i .. j - 1
      BY <1>2, <1>5, <2>1
    <2>3. j < end => j \in i .. end - 1
      BY <1>2, <1>5, <2>1
    <2> QED
      BY <1>4, <1>5, <2>1, <2>2, <2>3
  <1>7. end = j
    BY <1>2, <1>6
  <1>8. \A k \in i .. j - 1 : k \in 1 .. Len(s)
    BY <1>1, <1>2
  <1>9. \A k \in i .. j - 1 : s[k] \in Tokens
    BY <1>8, ElementOfSeq
  <1>10. i \in Int /\ j - 1 \in Int
    BY <1>1, <1>2
  <1>11. /\ SubSeq(s, i, j - 1) \in Seq(Tokens)
         /\ Len(SubSeq(s, i, j - 1)) = IF i <= j - 1 THEN j - 1 - i + 1 ELSE 0
    BY <1>9, <1>10, SubSeqProperties
  <1>12. Len(SubSeq(s, i, j - 1)) = j - i
    BY <1>2, <1>11
  <1> QED
    BY <1>3, <1>7, <1>11, <1>12

\* Up to the blank line, a line ends at its CR LF, and in the request where it does in the string.
LEMMA HeadLine ==
    ASSUME NEW s \in Seq(Tokens), NEW e \in Places(s, Blank), NEW i \in 1 .. e
    PROVE  \E j \in i .. e : /\ LineEnd(s, i, j) /\ j \in Places(s, CrLf)
                             /\ \A k \in i .. j - 1 : k \notin Places(s, CrLf)
  <1>1. Len(s) \in Nat /\ e \in Nat \ {0} /\ e + 3 <= Len(s) /\ s[e] = CR /\ s[e + 1] = LF
    BY BlankPlaces, LenProperties
  <1>2. i \in 1 .. Len(s) + 1 /\ i \in Nat
    BY <1>1
  <1>3. PICK j \in i .. Len(s) + 1 : LineEnd(s, i, j)
    BY <1>2, LineEnds
  <1>4. At(s, CrLf, e) /\ e + 1 <= Len(s)
    BY <1>1, AtCrLf
  <1>5. j <= e
    <2> SUFFICES ASSUME ~(j <= e) PROVE FALSE
      OBVIOUS
    <2>1. e \in i .. j - 1
      BY <1>1, <1>2
    <2> QED
      BY <1>3, <1>4, <2>1 DEF LineEnd
  <1>6. j \in Nat \ {0} /\ j \in i .. e /\ ~(j > Len(s))
    BY <1>1, <1>2, <1>5
  <1>7. j \in Places(s, CrLf)
    BY <1>3, <1>6, AtCrLf, CrLfPlaces DEF LineEnd
  <1>8. ASSUME NEW k \in i .. j - 1
        PROVE  k \notin Places(s, CrLf)
    BY <1>3, <1>8 DEF LineEnd, Places
  <1> QED
    BY <1>3, <1>6, <1>7, <1>8

LEMMA SameSubSeq ==
    ASSUME NEW s \in Seq(Tokens), NEW r \in Seq(Tokens), NEW i \in Nat, NEW j \in Nat, i <= j,
           \A k \in i .. j - 1 : s[k] \in Tokens /\ r[k] \in Tokens /\ s[k] = r[k]
    PROVE  SubSeq(s, i, j - 1) = SubSeq(r, i, j - 1)
  <1> DEFINE a == SubSeq(s, i, j - 1)
             b == SubSeq(r, i, j - 1)
  <1>1. i \in Int /\ j - 1 \in Int
    OBVIOUS
  <1>2. /\ a \in Seq(Tokens) /\ Len(a) = (IF i <= j - 1 THEN j - 1 - i + 1 ELSE 0)
        /\ \A k \in 1 .. j - 1 - i + 1 : a[k] = s[i + k - 1]
    BY <1>1, SubSeqProperties
  <1>3. /\ b \in Seq(Tokens) /\ Len(b) = (IF i <= j - 1 THEN j - 1 - i + 1 ELSE 0)
        /\ \A k \in 1 .. j - 1 - i + 1 : b[k] = r[i + k - 1]
    BY <1>1, SubSeqProperties
  <1> HIDE DEF a, b
  <1>4. Len(a) = j - i /\ Len(b) = j - i /\ j - 1 - i + 1 = j - i
    BY <1>2, <1>3
  <1>5. \A k \in 1 .. j - i : i + k - 1 \in i .. j - 1
    OBVIOUS
  <1>6. \A k \in 1 .. Len(a) : a[k] = b[k]
    BY <1>2, <1>3, <1>4, <1>5
  <1>7. a = b
    BY <1>2, <1>3, <1>4, <1>6, SeqEqual
  <1> QED
    BY <1>7 DEF a, b

LEMMA SameLine ==
    ASSUME NEW r \in Seq(Tokens), NEW s \in Seq(Tokens), Len(s) <= Len(r),
           \A k \in 1 .. Len(s) : s[k] = r[k],
           NEW e \in Places(s, Blank), NEW i \in 1 .. e
    PROVE  LineAt(s, i) = LineAt(r, i)
  <1> DEFINE l == Len(s)
  <1>1. Len(r) \in Nat /\ l \in Nat /\ l <= Len(r)
    BY LenProperties
  <1>2. Len(s) = l /\ \A k \in 1 .. l : s[k] = r[k]
    OBVIOUS
  <1> HIDE DEF l
  <1>3. e \in Nat \ {0} /\ e + 3 <= l
    BY <1>2, BlankPlaces
  <1>4. PICK j \in i .. e : /\ LineEnd(s, i, j) /\ j \in Places(s, CrLf)
                            /\ \A k \in i .. j - 1 : k \notin Places(s, CrLf)
    BY <1>2, HeadLine
  <1>5. i \in Nat \ {0} /\ j \in Nat \ {0} /\ i <= j /\ j <= e
    BY <1>3
  <1>6. ASSUME NEW k \in 1 .. e
        PROVE  At(r, CrLf, k) <=> k \in Places(s, CrLf)
    <2>1. k \in Nat \ {0} /\ k \in 1 .. l /\ k + 1 \in 1 .. l /\ k + 1 <= Len(r)
      BY <1>1, <1>3
    <2>2. At(r, CrLf, k) <=> k + 1 <= Len(r) /\ r[k] = CR /\ r[k + 1] = LF
      BY <2>1, AtCrLf
    <2>3. k \in Places(s, CrLf) <=> k \in Nat \ {0} /\ k + 1 <= Len(s) /\ s[k] = CR /\ s[k + 1] = LF
      BY <1>2, CrLfPlaces
    <2>4. s[k] = r[k] /\ s[k + 1] = r[k + 1] /\ k + 1 <= Len(s)
      BY <1>2, <2>1
    <2> QED
      BY <2>1, <2>2, <2>3, <2>4
  <1>7. LineEnd(r, i, j)
    <2>1. j \in i .. Len(r) + 1 /\ j \in 1 .. e
      BY <1>1, <1>3, <1>5
    <2>2. \A k \in i .. j - 1 : k \in 1 .. e /\ ~(k > Len(r))
      BY <1>1, <1>3, <1>5
    <2> QED
      BY <1>4, <1>6, <2>1, <2>2 DEF LineEnd
  <1>8. LineAt(s, i) = SubSeq(s, i, j - 1) /\ LineAt(r, i) = SubSeq(r, i, j - 1)
    <2>1. LineAt(s, i) = SubSeq(s, i, j - 1)
      BY <1>2, <1>4, <1>5, LineIs
    <2>2. LineAt(r, i) = SubSeq(r, i, j - 1)
      BY <1>5, <1>7, LineIs
    <2> QED
      BY <2>1, <2>2
  <1>9. SubSeq(s, i, j - 1) = SubSeq(r, i, j - 1)
    <2>1. \A k \in i .. j - 1 : k \in 1 .. l /\ k \in 1 .. Len(r)
      BY <1>1, <1>3, <1>5
    <2>2. \A k \in i .. j - 1 : s[k] \in Tokens /\ r[k] \in Tokens /\ s[k] = r[k]
      BY <1>2, <2>1, ElementOfSeq
    <2>3. i \in Nat /\ j \in Nat 
      BY <1>5
    <2> QED
      BY <1>5, <2>2, <2>3, SameSubSeq
  <1> QED
    BY <1>8, <1>9

StartsBefore(s, i) == {k \in Starts(s) : k < i}

LEMMA StartIs ==
    ASSUME NEW s \in Seq(Tokens), NEW i
    PROVE  i \in Starts(s) <=> /\ i \in Nat \ {0}
                               /\ i = 1 \/ i - 2 \in Places(s, CrLf)
  <1>1. \A k \in Places(s, CrLf) : k \in Nat \ {0} /\ k + 2 - 2 = k /\ k + 2 \in Nat \ {0}
    <2>1. \A k \in Places(s, CrLf) : k \in Nat \ {0}
      BY CrLfPlaces
    <2> QED
      BY <2>1
  <1>2. i \in Nat \ {0} => i - 2 + 2 = i
    OBVIOUS
  <1>3. 1 \in Nat \ {0}
    OBVIOUS
  <1> QED
    BY <1>1, <1>2, <1>3 DEF Starts

\* The line behind the one that begins at i: no other begins between them.
LEMMA NextStart ==
    ASSUME NEW s \in Seq(Tokens), NEW i \in Starts(s), NEW j \in Places(s, CrLf), i <= j,
           \A k \in i .. j - 1 : k \notin Places(s, CrLf)
    PROVE  /\ j + 2 \in Starts(s)
           /\ StartsBefore(s, j + 2) = StartsBefore(s, i) \cup {i}
           /\ \A k \in StartsBefore(s, i) : k <= i
  <1>1. i \in Nat \ {0} /\ (i = 1 \/ i - 2 \in Places(s, CrLf))
    BY StartIs
  <1>2. j \in Nat \ {0}
    BY CrLfPlaces
  <1>3. j + 2 \in Starts(s)
    BY DEF Starts
  <1>4. i < j + 2 /\ \A k \in Nat : k < i => k < j + 2
    BY <1>1, <1>2
  <1>5. ASSUME NEW k \in Starts(s), k < j + 2, k # i
        PROVE  k < i
    <2> SUFFICES ASSUME ~(k < i) PROVE FALSE
      OBVIOUS
    <2>1. k \in Nat \ {0} /\ (k = 1 \/ k - 2 \in Places(s, CrLf))
      BY StartIs
    <2>2. k > i /\ k # 1
      BY <1>1, <1>5, <2>1
    <2>3. k - 2 \in Places(s, CrLf) /\ k - 2 \in Nat \ {0}
      BY <2>1, <2>2, CrLfPlaces
    <2>4. CASE k - 2 < i
      <3>1. k - 2 = i - 1
        BY <1>1, <2>1, <2>2, <2>4
      <3>2. i # 1
        <4>1. PICK m : m = k - 2
          OBVIOUS
        <4>2. m \in Nat \ {0} /\ m = i - 1
          BY <2>3, <3>1, <4>1
        <4> QED
          BY <1>1, <4>2
      <3>3. i - 2 \in Places(s, CrLf)
        BY <1>1, <3>2
      <3>4. s[i - 2 + 1] = LF
        <4>1. PICK m : m = i - 2
          OBVIOUS
        <4>2. m \in Places(s, CrLf)
          BY <3>3, <4>1
        <4>3. s[m + 1] = LF
          BY <4>2, CrLfPlaces
        <4> QED
          BY <4>1, <4>3
      <3>5. s[i - 1] = CR
        <4>1. PICK m : m = i - 1
          OBVIOUS
        <4>2. m \in Places(s, CrLf)
          BY <2>3, <3>1, <4>1
        <4>3. s[m] = CR
          BY <4>2, CrLfPlaces
        <4> QED
          BY <4>1, <4>3
      <3>6. i - 2 + 1 = i - 1
        BY <1>1
      <3> QED
        BY <3>4, <3>5, <3>6, Controls
    <2>5. CASE ~(k - 2 < i)
      <3>1. k - 2 \in i .. j - 1
        BY <1>1, <1>2, <1>5, <2>1, <2>5
      <3> QED
        BY <2>3, <3>1
    <2> QED
      BY <2>4, <2>5
  <1>6. \A k \in Starts(s) : k \in Nat
    BY StartIs
  <1>7. StartsBefore(s, j + 2) = StartsBefore(s, i) \cup {i}
    BY <1>4, <1>5, <1>6 DEF StartsBefore
  <1>8. \A k \in StartsBefore(s, i) : k <= i
    BY <1>1, <1>6 DEF StartsBefore
  <1> QED
    BY <1>3, <1>7, <1>8

\* The lines of the head begin in the request where they do in the string.
LEMMA SameStarts ==
    ASSUME NEW r \in Seq(Tokens), NEW s \in Seq(Tokens), Len(s) <= Len(r),
           \A k \in 1 .. Len(s) : s[k] = r[k],
           NEW e \in Places(s, Blank)
    PROVE  {k \in Starts(r) : k <= e} = StartsBefore(s, e + 2)
  <1>1. e \in Nat \ {0} /\ e + 3 <= Len(s) /\ s[e] = CR /\ Len(s) \in Nat /\ Len(r) \in Nat
    BY BlankPlaces, LenProperties
  <1>2. ASSUME NEW k \in Nat \ {0}, k <= e + 1
        PROVE  k \in Starts(r) <=> k \in Starts(s)
    <2>1. k - 2 \in Nat \ {0} => k - 2 \in 1 .. Len(s) /\ k - 2 + 1 \in 1 .. Len(s)
                                 /\ k - 2 + 1 <= Len(r) /\ k - 2 + 1 <= Len(s)
      BY <1>1, <1>2
    <2>2. k - 2 \in Nat \ {0} => s[k - 2] = r[k - 2] /\ s[k - 2 + 1] = r[k - 2 + 1]
      BY <2>1
    <2>3. PICK m : m = k - 2
      OBVIOUS
    <2>4. m \in Places(r, CrLf) <=> m \in Nat \ {0} /\ m + 1 <= Len(r) /\ r[m] = CR /\ r[m + 1] = LF
      BY CrLfPlaces
    <2>5. m \in Places(s, CrLf) <=> m \in Nat \ {0} /\ m + 1 <= Len(s) /\ s[m] = CR /\ s[m + 1] = LF
      BY CrLfPlaces
    <2>6. m \in Places(r, CrLf) <=> m \in Places(s, CrLf)
      BY <2>1, <2>2, <2>3, <2>4, <2>5
    <2> QED
      BY <2>3, <2>6, StartIs
  <1>3. e + 1 \notin Starts(s)
    <2> SUFFICES ASSUME e + 1 \in Starts(s) PROVE FALSE
      OBVIOUS
    <2>1. PICK m : m = e + 1
      OBVIOUS
    <2>2. m \in Starts(s) /\ m # 1
      BY <1>1, <2>1
    <2>4. PICK n : n = m - 2
      OBVIOUS
    <2>5. n \in Places(s, CrLf)
      BY <2>2, <2>4, StartIs
    <2>6. s[n + 1] = LF
      BY <2>5, CrLfPlaces
    <2>7. n + 1 = e
      BY <1>1, <2>1, <2>4
    <2>3. s[e] = LF
      BY <2>6, <2>7
    <2> QED
      BY <1>1, <2>3, Controls
  <1>4. \A k : (k \in Starts(r) => k \in Nat \ {0}) /\ (k \in Starts(s) => k \in Nat \ {0})
    BY StartIs
  <1>5. \A k \in Nat : (k <= e => k <= e + 1 /\ k < e + 2)
                       /\ (k < e + 2 => k <= e \/ k = e + 1) /\ (k < e + 2 => k <= e + 1)
    BY <1>1
  <1>6. \A k : k \in Starts(r) /\ k <= e <=> k \in Starts(s) /\ k < e + 2
    BY <1>2, <1>3, <1>4, <1>5
  <1> QED
    BY <1>6 DEF StartsBefore

-----------------------------------------------------------------------------
(* The parser: its loop, and what the headers tell of the lines it has read *)

\* One turn of the parser's loop: the line, what it sets, and the place behind it.
SetBy(s, at) == ws_set_header_key_value(at.headers, ws_set_header_fields(LineAt(s, at.line)))
Behind(s, i) == i + Len(LineAt(s, i))
IsLast(s, i) == Behind(s, i) > Len(s) \/ SubSeq(s, Behind(s, i), Len(s)) = Blank
Turns(s) == [line : 1 .. Len(s) + 1, headers : HeaderMaps]
Turn(s, f, at) == IF IsLast(s, at.line) THEN SetBy(s, at)
                  ELSE f[[line |-> Behind(s, at.line) + 2, headers |-> SetBy(s, at)]]
Parser(s) == CHOOSE f : f = [at \in Turns(s) |-> Turn(s, f, at)]

LEMMA ParserIs ==
    ASSUME NEW s
    PROVE  parse_headers(s) = Parser(s)[[line |-> 1, headers |-> NoHeaders]]
  BY DEF parse_headers, Parser, Turn, SetBy, IsLast, Behind, Turns

LEMMA TokenKinds ==
    ASSUME NEW t \in Tokens
    PROVE  /\ t.kind = "GET" => (IF t.version THEN t.path ELSE "unknown") \in Paths
           /\ t.kind = "field" => t.name \in Names /\ t.value \in Values
  <1>1. CASE t \in {CR, LF, NUL}
    <2>1. CR.kind = "CR" /\ LF.kind = "LF" /\ NUL.kind = "NUL"
      BY DEF CR, LF, NUL, Token
    <2>2. t.kind = "CR" \/ t.kind = "LF" \/ t.kind = "NUL"
      BY <1>1, <2>1
    <2> QED
      BY <2>2
  <1>2. CASE t \in Junk
    <2>1. PICK kind \in {"mentions GET", "no colon", "no name", "space in name"} : t = Token(kind)
      BY <1>2 DEF Junk
    <2>2. t.kind = kind
      BY <2>1 DEF Token
    <2> QED
      BY <2>2
  <1>3. CASE t = OldGET
    <2>1. t.kind = "GET" /\ t.version = FALSE
      BY <1>3 DEF OldGET
    <2> QED
      BY <2>1 DEF Paths
  <1>4. CASE t \in {GET(path) : path \in Paths}
    <2>1. PICK path \in Paths : t = GET(path)
      BY <1>4
    <2>2. t.kind = "GET" /\ t.version = TRUE /\ t.path = path
      BY <2>1 DEF GET
    <2> QED
      BY <2>2
  <1>5. CASE t \in {Field(name, value) : name \in Names, value \in Values}
    <2>1. PICK name \in Names, value \in Values : t = Field(name, value)
      BY <1>5
    <2>2. t.kind = "field" /\ t.name = name /\ t.value = value
      BY <2>1 DEF Field
    <2> QED
      BY <2>2
  <1> QED
    BY <1>1, <1>2, <1>3, <1>4, <1>5 DEF Tokens

\* What a line is to the parser: a request line, a field, or bad.
LEMMA FieldSet ==
    ASSUME NEW line \in Seq(Tokens)
    PROVE  LET set == ws_set_header_fields(line)
               fine == line # <<>> /\ WellFormed(line)
           IN  /\ ~fine => set = Bad
               /\ fine => \/ /\ Head(line).kind = "GET"
                             /\ \E path \in Paths : set = <<"path", path>>
                          \/ /\ Head(line).kind = "field" /\ Head(line).name \in Names
                             /\ Head(line).value \in Values
                             /\ set = <<Head(line).name, Head(line).value>>
  <1>1. CASE line = <<>>
    BY <1>1 DEF ws_set_header_fields
  <1>2. CASE line # <<>>
    <2> DEFINE t == line[1]
    <2>1. t \in Tokens /\ Head(line) = t /\ 1 \in DOMAIN line
      <3>1. Len(line) \in Nat \ {0} /\ DOMAIN line = 1 .. Len(line)
        BY <1>2, EmptySeq, LenProperties
      <3>2. 1 \in 1 .. Len(line)
        BY <3>1
      <3> QED
        BY <1>2, <3>1, <3>2, ElementOfSeq
    <2> HIDE DEF t
    <2>2. CASE t \in {CR, LF}
      <3>1. t.kind # "GET" /\ t.kind # "field"
        BY <2>2, Controls
      <3>2. ws_set_header_fields(line) = Bad
        BY <1>2, <2>2, Zenon DEF ws_set_header_fields, t
      <3> QED
        BY <2>1, <3>1, <3>2 DEF WellFormed
    <2>3. CASE t \notin {CR, LF} /\ HasGET(line)
      <3>1. ws_set_header_fields(line) = ws_parse_request(line)
        BY <1>2, <2>3, Zenon DEF ws_set_header_fields, t
      <3> DEFINE versioned == \E i \in DOMAIN line : line[i].kind = "GET" /\ line[i].version
      <3>2. ws_parse_request(line) = IF t.kind = "GET" /\ versioned
                                     THEN <<"path", IF t.version THEN t.path ELSE "unknown">>
                                     ELSE Bad
        BY DEF ws_parse_request, t
      <3>3. WellFormed(line) <=> t.kind = "GET" /\ versioned
        BY <2>1, <2>3 DEF WellFormed
      <3>4. t.kind = "GET" => (IF t.version THEN t.path ELSE "unknown") \in Paths
        BY <2>1, TokenKinds
      <3> HIDE DEF versioned
      <3> QED
        BY <1>2, <2>1, <3>1, <3>2, <3>3, <3>4
    <2>4. CASE t \notin {CR, LF} /\ ~HasGET(line)
      <3>1. t.kind # "GET"
        BY <2>1, <2>4 DEF HasGET, t
      <3>2. ws_set_header_fields(line) = IF t.kind = "field" THEN <<t.name, t.value>> ELSE Bad
        BY <1>2, <2>4, Zenon DEF ws_set_header_fields, t
      <3>3. WellFormed(line) <=> t.kind = "field"
        BY <2>1, <2>4, <3>1 DEF WellFormed
      <3>4. t.kind = "field" => t.name \in Names /\ t.value \in Values
        BY <2>1, TokenKinds
      <3> QED
        BY <1>2, <2>1, <3>2, <3>3, <3>4
    <2> QED
      BY <2>2, <2>3, <2>4
  <1> QED
    BY <1>1, <1>2

LEMMA SetByIs ==
    ASSUME NEW s \in Seq(Tokens), NEW at \in Turns(s)
    PROVE  LET line == LineAt(s, at.line)
               fine == line # <<>> /\ WellFormed(line)
           IN  /\ SetBy(s, at) \in HeaderMaps
               /\ ~fine => SetBy(s, at) = [at.headers EXCEPT !["bad"] = "set"]
               /\ fine => \/ /\ Head(line).kind = "GET"
                             /\ \E path \in Paths : SetBy(s, at) = [at.headers EXCEPT !["path"] = path]
                          \/ /\ Head(line).kind = "field" /\ Head(line).name \in Names
                             /\ Head(line).value \in Values
                             /\ SetBy(s, at) = [at.headers EXCEPT ![Head(line).name] = Head(line).value]
  <1> DEFINE line == LineAt(s, at.line)
             set == ws_set_header_fields(line)
             fine == line # <<>> /\ WellFormed(line)
             h == at.headers
  <1>1. at.line \in 1 .. Len(s) + 1 /\ h \in HeaderMaps
    BY DEF Turns
  <1>2. line \in Seq(Tokens)
    <2>1. PICK i : i = at.line
      OBVIOUS
    <2>2. i \in 1 .. Len(s) + 1 /\ i \in Nat \ {0}
      BY <1>1, <2>1, LenProperties
    <2> QED
      BY <2>1, <2>2, LineEnds, LineIs
  <1>3. SetBy(s, at) = [h EXCEPT ![set[1]] = set[2]]
    BY DEF SetBy, ws_set_header_key_value
  <1> HIDE DEF line, h
  <1>4. /\ ~fine => set = Bad
        /\ fine => \/ /\ Head(line).kind = "GET"
                      /\ \E path \in Paths : set = <<"path", path>>
                   \/ /\ Head(line).kind = "field" /\ Head(line).name \in Names
                      /\ Head(line).value \in Values
                      /\ set = <<Head(line).name, Head(line).value>>
    BY <1>2, FieldSet
  <1> HIDE DEF set, fine
  <1>5. CASE ~fine
    <2>1. set[1] = "bad" /\ set[2] = "set"
      BY <1>4, <1>5 DEF Bad
    <2>2. [h EXCEPT !["bad"] = "set"] \in HeaderMaps
      BY <1>1 DEF HeaderMaps
    <2> QED
      BY <1>3, <1>5, <2>1, <2>2 DEF line, h, fine
  <1>6. CASE fine /\ Head(line).kind = "GET" /\ \E path \in Paths : set = <<"path", path>>
    <2>1. PICK path \in Paths : set = <<"path", path>>
      BY <1>6
    <2>2. set[1] = "path" /\ set[2] = path
      BY <2>1
    <2>3. [h EXCEPT !["path"] = path] \in HeaderMaps
      BY <1>1 DEF HeaderMaps, Headers
    <2> QED
      BY <1>3, <1>6, <2>2, <2>3 DEF line, h, fine
  <1>7. CASE /\ fine /\ Head(line).kind = "field" /\ Head(line).name \in Names
             /\ Head(line).value \in Values
             /\ set = <<Head(line).name, Head(line).value>>
    <2>1. PICK n, v : n = Head(line).name /\ v = Head(line).value
      OBVIOUS
    <2>2. set[1] = n /\ set[2] = v /\ n \in Names /\ v \in Values
      BY <1>7, <2>1
    <2>3. [h EXCEPT ![n] = v] \in HeaderMaps
      BY <1>1, <2>2 DEF HeaderMaps, Headers, Names
    <2> QED
      BY <1>3, <1>7, <2>1, <2>2, <2>3 DEF line, h, fine
  <1> QED
    BY <1>4, <1>5, <1>6, <1>7

NextTurn(s, at) == [line |-> Behind(s, at.line) + 2, headers |-> SetBy(s, at)]

\* The loop goes on behind the CR LF, inside the string.
LEMMA GoesOn ==
    ASSUME NEW s \in Seq(Tokens), NEW at \in Turns(s), ~IsLast(s, at.line)
    PROVE  NextTurn(s, at) \in Turns(s) /\ NextTurn(s, at).line > at.line
  <1> DEFINE i == at.line
  <1>1. i \in 1 .. Len(s) + 1 /\ Len(s) \in Nat
    BY LenProperties DEF Turns
  <1> HIDE DEF i
  <1>2. i \in Nat \ {0}
    BY <1>1
  <1>3. PICK j \in i .. Len(s) + 1 : LineEnd(s, i, j)
    BY <1>1, LineEnds
  <1>4. Len(LineAt(s, i)) = j - i
    BY <1>2, <1>3, LineIs
  <1>5. Behind(s, i) = j
    <2>1. PICK n : n = Len(LineAt(s, i))
      OBVIOUS
    <2>2. i + n = j
      BY <1>1, <1>4, <2>1
    <2> QED
      BY <2>1, <2>2 DEF Behind
  <1>6. ~(j > Len(s))
    BY <1>5 DEF IsLast, i
  <1>7. At(s, CrLf, j) /\ j \in Nat \ {0}
    BY <1>1, <1>2, <1>3, <1>6 DEF LineEnd
  <1>8. j + 1 <= Len(s)
    BY <1>7, AtCrLf
  <1>9. j + 2 \in 1 .. Len(s) + 1 /\ j + 2 > i
    BY <1>1, <1>2, <1>3, <1>7, <1>8
  <1>10. SetBy(s, at) \in HeaderMaps
    BY SetByIs
  <1> QED
    BY <1>5, <1>9, <1>10 DEF NextTurn, Turns, i

\* The parser is what its loop says: the turns that are left are fewer each time.
LEMMA ParserDef ==
    ASSUME NEW s \in Seq(Tokens)
    PROVE  \A at \in Turns(s) : Parser(s)[at] = IF IsLast(s, at.line) THEN SetBy(s, at)
                                                ELSE Parser(s)[NextTurn(s, at)]
  <1> DEFINE Solves(f, b) == \A at \in Turns(s) : at.line + b > Len(s) + 1 => f[at] = Turn(s, f, at)
             T == {b \in Nat : \E f : Solves(f, b)}
  <1>1. Len(s) \in Nat /\ \A at \in Turns(s) : at.line \in 1 .. Len(s) + 1
    BY LenProperties DEF Turns
  <1>2. 0 \in T
    <2>1. \A at \in Turns(s) : ~(at.line + 0 > Len(s) + 1)
      BY <1>1
    <2>2. Solves(s, 0)
      BY <2>1
    <2> QED
      BY <2>2
  <1>3. ASSUME NEW b \in Nat, b \in T
        PROVE  b + 1 \in T
    <2>1. PICK f : Solves(f, b)
      BY <1>3
    <2> DEFINE g == [at \in Turns(s) |-> Turn(s, f, at)]
    <2>2. ASSUME NEW at \in Turns(s), at.line + (b + 1) > Len(s) + 1
          PROVE  g[at] = Turn(s, g, at)
      <3>1. g[at] = Turn(s, f, at)
        OBVIOUS
      <3>2. CASE IsLast(s, at.line)
        BY <3>1, <3>2 DEF Turn
      <3>3. CASE ~IsLast(s, at.line)
        <4>1. NextTurn(s, at) \in Turns(s) /\ NextTurn(s, at).line > at.line
          BY <3>3, GoesOn
        <4>2. PICK x : x = NextTurn(s, at)
          OBVIOUS
        <4>3. x \in Turns(s) /\ x.line + b > Len(s) + 1
          <5>1. PICK m, n : m = at.line /\ n = x.line
            OBVIOUS
          <5>2. m \in Nat /\ n \in Nat /\ n > m /\ m + (b + 1) > Len(s) + 1
            BY <1>1, <2>2, <4>1, <4>2, <5>1
          <5>3. n + b > Len(s) + 1
            BY <1>1, <5>2
          <5> QED
            BY <4>1, <4>2, <5>1, <5>3
        <4>4. g[x] = Turn(s, f, x) /\ f[x] = Turn(s, f, x)
          BY <2>1, <4>3
        <4>5. Turn(s, f, at) = f[x] /\ Turn(s, g, at) = g[x]
          BY <3>3, <4>2 DEF Turn, NextTurn
        <4> QED
          BY <3>1, <4>4, <4>5
      <3> QED
        BY <3>2, <3>3
    <2>3. Solves(g, b + 1)
      BY <2>2
    <2> HIDE DEF g, Solves
    <2>4. \E h : Solves(h, b + 1)
      BY <2>3
    <2> QED
      BY <2>4
  <1> HIDE DEF T
  <1>4. \A n \in Nat : n \in T
    BY <1>2, <1>3, Upwards
  <1>5. PICK f : Solves(f, Len(s) + 1)
    <2>1. PICK n : n = Len(s) + 1
      OBVIOUS
    <2>2. n \in Nat
      BY <1>1, <2>1
    <2>3. n \in T
      BY <1>4, <2>2
    <2>4. \E f : Solves(f, n)
      BY <2>3, Zenon DEF T
    <2> QED
      BY <2>1, <2>4, Zenon
  <1> DEFINE F == [at \in Turns(s) |-> f[at]]
  <1>6. F = [at \in Turns(s) |-> Turn(s, F, at)]
    <2>1. ASSUME NEW at \in Turns(s)
          PROVE  f[at] = Turn(s, F, at)
      <3>1. at.line + (Len(s) + 1) > Len(s) + 1
        <4>1. PICK m : m = at.line
          OBVIOUS
        <4>2. m \in 1 .. Len(s) + 1
          BY <1>1, <4>1
        <4> QED
          BY <1>1, <4>1, <4>2
      <3>2. f[at] = Turn(s, f, at)
        BY <1>5, <3>1
      <3>3. CASE IsLast(s, at.line)
        BY <3>2, <3>3 DEF Turn
      <3>4. CASE ~IsLast(s, at.line)
        <4>1. NextTurn(s, at) \in Turns(s)
          BY <3>4, GoesOn
        <4>2. F[NextTurn(s, at)] = f[NextTurn(s, at)]
          BY <4>1
        <4>3. Turn(s, f, at) = f[NextTurn(s, at)] /\ Turn(s, F, at) = F[NextTurn(s, at)]
          BY <3>4 DEF Turn, NextTurn
        <4> QED
          BY <3>2, <4>2, <4>3
      <3> QED
        BY <3>3, <3>4
    <2> QED
      BY <2>1
  <1> HIDE DEF F
  <1>7. Parser(s) = [at \in Turns(s) |-> Turn(s, Parser(s), at)]
    BY <1>6 DEF Parser
  <1> DEFINE P == Parser(s)
  <1>8. P = [at \in Turns(s) |-> Turn(s, P, at)]
    BY <1>7
  <1> HIDE DEF P
  <1>9. \A at \in Turns(s) : P[at] = Turn(s, P, at)
    BY <1>8
  <1>10. \A at \in Turns(s) : P[at] = IF IsLast(s, at.line) THEN SetBy(s, at) ELSE P[NextTurn(s, at)]
    BY <1>9 DEF Turn, NextTurn
  <1> QED
    BY <1>10 DEF P

FineAt(s, k) == LineAt(s, k) # <<>> /\ WellFormed(LineAt(s, k))

LEMMA SetByBad ==
    ASSUME NEW s \in Seq(Tokens), NEW at \in Turns(s)
    PROVE  SetBy(s, at)["bad"] = IF FineAt(s, at.line) THEN at.headers["bad"] ELSE "set"
  <1> DEFINE line == LineAt(s, at.line)
             h == at.headers
  <1>1. /\ ~FineAt(s, at.line) => SetBy(s, at) = [h EXCEPT !["bad"] = "set"]
        /\ FineAt(s, at.line) =>
              \/ \E path \in Paths : SetBy(s, at) = [h EXCEPT !["path"] = path]
              \/ \E n \in Names, v \in Values : SetBy(s, at) = [h EXCEPT ![n] = v]
    BY SetByIs DEF FineAt
  <1>2. h \in HeaderMaps
    BY DEF Turns
  <1> HIDE DEF h
  <1>3. "bad" \in DOMAIN h
    BY <1>2 DEF HeaderMaps
  <1>4. \A path : [h EXCEPT !["path"] = path]["bad"] = h["bad"]
    BY <1>3
  <1>5. \A n \in Names, v \in Values : [h EXCEPT ![n] = v]["bad"] = h["bad"]
    <2>1. \A n \in Names : n # "bad"
      BY DEF Names, Headers
    <2> QED
      BY <1>3, <2>1
  <1>6. [h EXCEPT !["bad"] = "set"]["bad"] = "set"
    BY <1>3
  <1>7. CASE FineAt(s, at.line)
    <2>1. CASE \E path \in Paths : SetBy(s, at) = [h EXCEPT !["path"] = path]
      <3>1. SetBy(s, at)["bad"] = h["bad"]
        BY <1>4, <2>1
      <3> QED
        BY <1>7, <3>1 DEF h
    <2>2. CASE \E n \in Names, v \in Values : SetBy(s, at) = [h EXCEPT ![n] = v]
      <3>1. SetBy(s, at)["bad"] = h["bad"]
        BY <1>5, <2>2
      <3> QED
        BY <1>7, <3>1 DEF h
    <2> QED
      BY <1>1, <1>7, <2>1, <2>2
  <1>8. CASE ~FineAt(s, at.line)
    BY <1>1, <1>6, <1>8
  <1> QED
    BY <1>7, <1>8

\* The parser that has given up does not come back.
LEMMA BadStays ==
    ASSUME NEW s \in Seq(Tokens), NEW at \in Turns(s), at.headers["bad"] = "set"
    PROVE  Parser(s)[at]["bad"] = "set"
  <1> DEFINE Stays(x) == x.headers["bad"] = "set" => Parser(s)[x]["bad"] = "set"
             T == {i \in Nat : \A x \in Turns(s) : x.line = i => Stays(x)}
  <1>1. Len(s) + 1 \in Nat /\ \A x \in Turns(s) : x.line \in 1 .. Len(s) + 1
    BY LenProperties DEF Turns
  <1>2. ASSUME NEW i \in 1 .. Len(s) + 1, \A j \in i + 1 .. Len(s) + 1 : j \in T
        PROVE  i \in T
    <2>1. ASSUME NEW x \in Turns(s), x.line = i, x.headers["bad"] = "set"
          PROVE  Parser(s)[x]["bad"] = "set"
      <3>1. SetBy(s, x)["bad"] = "set"
        BY <2>1, SetByBad
      <3>2. CASE IsLast(s, x.line)
        BY <3>1, <3>2, ParserDef
      <3>3. CASE ~IsLast(s, x.line)
        <4>1. PICK y : y = NextTurn(s, x)
          OBVIOUS
        <4>2. y \in Turns(s) /\ y.line > i /\ y.headers["bad"] = "set"
          BY <2>1, <3>1, <3>3, <4>1, GoesOn DEF NextTurn
        <4>3. PICK n : n = y.line
          OBVIOUS
        <4>4. n \in i + 1 .. Len(s) + 1
          BY <1>1, <4>2, <4>3
        <4>5. n \in T
          BY <1>2, <4>4
        <4>6. Parser(s)[y]["bad"] = "set"
          BY <4>2, <4>3, <4>5
        <4> QED
          BY <3>3, <4>1, <4>6, ParserDef
      <3> QED
        BY <3>2, <3>3
    <2> QED
      BY <2>1
  <1> HIDE DEF T
  <1>3. PICK n : n = Len(s) + 1
    OBVIOUS
  <1>4. n \in Nat /\ \A i \in 1 .. n : (\A j \in i + 1 .. n : j \in T) => i \in T
    BY <1>1, <1>2, <1>3
  <1>5. \A i \in 1 .. n : i \in T
    BY <1>4, Downwards
  <1>6. at.line \in T
    BY <1>1, <1>3, <1>5
  <1> QED
    BY <1>6 DEF T

\* What the headers tell of the lines before i: that they are fine, and if they are, whether one
\* is a request line, and the value that the last field of a name has.
ToldName(s, i, name, value) ==
    \/ value = "NULL" /\ \A k \in StartsBefore(s, i) : ~Says(s, k, name)
    \/ \E k \in StartsBefore(s, i) :
          /\ Says(s, k, name) /\ value = Head(LineAt(s, k)).value /\ value \in Values
          /\ \A m \in StartsBefore(s, i) : Says(s, m, name) => m <= k

Told(s, i, h) ==
    /\ h["bad"] \in {"NULL", "set"}
    /\ h["bad"] = "NULL" <=> \A k \in StartsBefore(s, i) : FineAt(s, k)
    /\ h["bad"] = "NULL" =>
          /\ h["path"] # "NULL" <=> \E k \in StartsBefore(s, i) : Head(LineAt(s, k)).kind = "GET"
          /\ \A name \in Names : ToldName(s, i, name, h[name])

LEMMA ToldFirst ==
    ASSUME NEW s \in Seq(Tokens)
    PROVE  1 \in Starts(s) /\ Told(s, 1, NoHeaders)
  <1>1. 1 \in Starts(s)
    BY DEF Starts
  <1>2. StartsBefore(s, 1) = {}
    <2>1. \A k \in Starts(s) : ~(k < 1)
      BY StartIs
    <2> QED
      BY <2>1 DEF StartsBefore
  <1>3. /\ NoHeaders["bad"] = "NULL" /\ NoHeaders["path"] = "NULL"
        /\ \A name \in Names : NoHeaders[name] = "NULL"
    BY DEF NoHeaders, Names, Headers
  <1> QED
    BY <1>1, <1>2, <1>3, Zenon DEF Told, ToldName

LEMMA ToldNext ==
    ASSUME NEW s \in Seq(Tokens), NEW at \in Turns(s), at.line \in Starts(s),
           NEW j \in Places(s, CrLf), at.line <= j,
           \A k \in at.line .. j - 1 : k \notin Places(s, CrLf),
           Told(s, at.line, at.headers)
    PROVE  Told(s, j + 2, SetBy(s, at))
  <1> DEFINE i == at.line
             h == at.headers
             g == SetBy(s, at)
             B == StartsBefore(s, i)
             line == LineAt(s, i)
  <1>1. StartsBefore(s, j + 2) = B \cup {i} /\ \A k \in B : k <= i
    BY NextStart
  <1>2. i \in Nat /\ i <= i
    <2>1. i \in Nat
      BY StartIs
    <2> QED
      BY <2>1
  <1>3. h \in HeaderMaps /\ DOMAIN h = Headers \cup {"other", "bad"}
    BY DEF Turns, HeaderMaps
  <1>4. g["bad"] = IF FineAt(s, i) THEN h["bad"] ELSE "set"
    BY SetByBad
  <1>5. /\ h["bad"] \in {"NULL", "set"}
        /\ h["bad"] = "NULL" <=> \A k \in B : FineAt(s, k)
        /\ h["bad"] = "NULL" =>
              /\ h["path"] # "NULL" <=> \E k \in B : Head(LineAt(s, k)).kind = "GET"
              /\ \A name \in Names : ToldName(s, i, name, h[name])
    BY DEF Told
  <1>6. FineAt(s, i) =>
           \/ Head(line).kind = "GET" /\ \E path \in Paths : g = [h EXCEPT !["path"] = path]
           \/ /\ Head(line).kind = "field" /\ Head(line).name \in Names
              /\ Head(line).value \in Values
              /\ g = [h EXCEPT ![Head(line).name] = Head(line).value]
    BY SetByIs DEF FineAt
  <1> HIDE DEF i, h, g, B, line
  <1>7. g["bad"] \in {"NULL", "set"} /\ (g["bad"] = "NULL" <=> \A k \in B \cup {i} : FineAt(s, k))
    BY <1>4, <1>5
  <1>8. ASSUME g["bad"] = "NULL"
        PROVE  /\ g["path"] # "NULL" <=> \E k \in B \cup {i} : Head(LineAt(s, k)).kind = "GET"
               /\ \A name \in Names : ToldName(s, j + 2, name, g[name])
    <2>1. FineAt(s, i) /\ h["bad"] = "NULL"
      BY <1>5, <1>7, <1>8
    <2>2. /\ h["path"] # "NULL" <=> \E k \in B : Head(LineAt(s, k)).kind = "GET"
          /\ \A name \in Names : ToldName(s, i, name, h[name])
      BY <1>5, <2>1
    <2>3. \A name \in Names : name # "path" /\ name \in DOMAIN h
      BY <1>3 DEF Names, Headers
    <2>4. "path" \in DOMAIN h
      BY <1>3 DEF Headers
    <2>5. ASSUME NEW name \in Names, ~Says(s, i, name), g[name] = h[name]
          PROVE  ToldName(s, j + 2, name, g[name])
      <3>1. ToldName(s, i, name, h[name])
        BY <2>2
      <3> QED
        BY <1>1, <2>5, <3>1, Zenon DEF ToldName, B
    <2>6. CASE Head(line).kind = "GET" /\ \E path \in Paths : g = [h EXCEPT !["path"] = path]
      <3>1. PICK path \in Paths : g = [h EXCEPT !["path"] = path]
        BY <2>6
      <3>2. g["path"] # "NULL"
        BY <2>4, <3>1 DEF Paths
      <3>3. \A name \in Names : g[name] = h[name] /\ ~Says(s, i, name)
        BY <2>3, <2>6, <3>1 DEF Says, line
      <3>4. \E k \in B \cup {i} : Head(LineAt(s, k)).kind = "GET"
        BY <2>6 DEF line
      <3> QED
        BY <2>5, <3>2, <3>3, <3>4
    <2>7. CASE /\ Head(line).kind = "field" /\ Head(line).name \in Names
               /\ Head(line).value \in Values
               /\ g = [h EXCEPT ![Head(line).name] = Head(line).value]
      <3>1. PICK n, v : n = Head(line).name /\ v = Head(line).value
        OBVIOUS
      <3>2. n \in Names /\ v \in Values /\ g = [h EXCEPT ![n] = v]
        BY <2>7, <3>1
      <3>3. g["path"] = h["path"]
        BY <2>3, <2>4, <3>2
      <3>4. Head(line).kind # "GET"
        BY <2>7
      <3>5. (\E k \in B \cup {i} : Head(LineAt(s, k)).kind = "GET")
               <=> \E k \in B : Head(LineAt(s, k)).kind = "GET"
        BY <3>4 DEF line
      <3>6. ASSUME NEW name \in Names, name # n
            PROVE  ToldName(s, j + 2, name, g[name])
        <4>1. g[name] = h[name]
          BY <2>3, <3>2, <3>6
        <4>2. ~Says(s, i, name)
          BY <3>1, <3>6 DEF Says, line
        <4> QED
          BY <2>5, <4>1, <4>2
      <3>7. ToldName(s, j + 2, n, g[n])
        <4>1. g[n] = v
          BY <2>3, <3>2
        <4>2. Says(s, i, n) /\ v = Head(LineAt(s, i)).value
          BY <2>7, <3>1 DEF Says, line
        <4>3. i \in B \cup {i} /\ \A m \in B \cup {i} : m <= i
          BY <1>1, <1>2
        <4> QED
          BY <1>1, <3>2, <4>1, <4>2, <4>3, Zenon DEF ToldName
      <3> QED
        BY <2>2, <3>3, <3>5, <3>6, <3>7
    <2> QED
      BY <1>6, <2>1, <2>6, <2>7
  <1> QED
    BY <1>1, <1>7, <1>8 DEF Told, B, g

\* What the parser makes of a string with a blank line at e: what its head tells, or, if anything
\* follows the blank line, that it is bad.
Outcome(s, e, h) == \/ Len(s) = e + 3 /\ Told(s, e + 2, h)
                    \/ Len(s) # e + 3 /\ h["bad"] = "set"

\* The turn for the line that ends before j.
LEMMA TurnAt ==
    ASSUME NEW s \in Seq(Tokens), NEW at \in Turns(s), NEW j \in Places(s, CrLf),
           LineEnd(s, at.line, j)
    PROVE  /\ Behind(s, at.line) = j
           /\ IsLast(s, at.line) <=> SubSeq(s, j, Len(s)) = Blank
           /\ NextTurn(s, at) = [line |-> j + 2, headers |-> SetBy(s, at)]
  <1>1. PICK i : i = at.line
    OBVIOUS
  <1>2. i \in 1 .. Len(s) + 1 /\ Len(s) \in Nat
    BY <1>1, LenProperties DEF Turns
  <1>3. i \in Nat \ {0} /\ LineEnd(s, i, j)
    BY <1>1, <1>2
  <1>4. Len(LineAt(s, i)) = j - i
    BY <1>3, LineIs
  <1>5. j \in Nat /\ ~(j > Len(s))
    <2>1. j \in Nat \ {0} /\ j + 1 <= Len(s)
      BY CrLfPlaces
    <2> QED
      BY <1>2, <2>1
  <1>6. Behind(s, i) = j
    <2>1. PICK n : n = Len(LineAt(s, i))
      OBVIOUS
    <2>2. i + n = j
      BY <1>3, <1>4, <1>5, <2>1
    <2> QED
      BY <2>1, <2>2 DEF Behind
  <1> QED
    BY <1>1, <1>5, <1>6 DEF IsLast, NextTurn

\* The string ends with the blank line of its head and with no other.
LEMMA BlankEnds ==
    ASSUME NEW s \in Seq(Tokens), NEW e \in Places(s, Blank),
           \A i \in Places(s, Blank) : e <= i, NEW j \in 1 .. e
    PROVE  SubSeq(s, j, Len(s)) = Blank <=> j = e /\ Len(s) = e + 3
  <1>1. Len(s) \in Nat /\ e \in Nat \ {0} /\ e + 3 <= Len(s)
    BY BlankPlaces, LenProperties
  <1>2. j \in Nat \ {0} /\ j <= e /\ j \in Int /\ Len(s) \in Int
    BY <1>1
  <1>3. \A k \in j .. Len(s) : k \in 1 .. Len(s)
    BY <1>1, <1>2
  <1>4. \A k \in j .. Len(s) : s[k] \in Tokens
    BY <1>3, ElementOfSeq
  <1>5. Len(SubSeq(s, j, Len(s))) = IF j <= Len(s) THEN Len(s) - j + 1 ELSE 0
    BY <1>2, <1>4, SubSeqProperties
  <1>6. Len(SubSeq(s, j, Len(s))) = Len(s) - j + 1
    BY <1>1, <1>2, <1>5
  <1>7. At(s, Blank, j) <=> j + 3 <= Len(s) /\ SubSeq(s, j, j + 3) = Blank
    <2>1. j + Len(Blank) - 1 = j + 3
      BY <1>2, BlankIs
    <2> QED
      BY <2>1 DEF At
  <1>8. ASSUME SubSeq(s, j, Len(s)) = Blank
        PROVE  j = e /\ Len(s) = e + 3
    <2>1. Len(s) - j + 1 = 4
      BY <1>6, <1>8, BlankIs
    <2>2. Len(s) = j + 3
      BY <1>1, <1>2, <2>1
    <2> QED
      BY <1>1, <1>2, <2>2
  <1>9. ASSUME j = e, Len(s) = e + 3
        PROVE  SubSeq(s, j, Len(s)) = Blank
    <2>1. At(s, Blank, e)
      BY DEF Places
    <2> QED
      BY <1>7, <1>9, <2>1
  <1> QED
    BY <1>8, <1>9

LEMMA ParsedFrom ==
    ASSUME NEW s \in Seq(Tokens), NEW e \in Places(s, Blank),
           \A i \in Places(s, Blank) : e <= i
    PROVE  \A at \in Turns(s) :
              at.line \in Starts(s) /\ at.line <= e /\ Told(s, at.line, at.headers)
                 => Outcome(s, e, Parser(s)[at])
  <1> DEFINE Parsed(x) == x.line \in Starts(s) /\ Told(s, x.line, x.headers)
                             => Outcome(s, e, Parser(s)[x])
             T == {i \in Nat : \A x \in Turns(s) : x.line = i => Parsed(x)}
  <1>1. /\ Len(s) \in Nat /\ e \in Nat \ {0} /\ e + 3 <= Len(s) /\ s[e] = CR /\ s[e + 1] = LF
        /\ s[e + 2] = CR /\ s[e + 3] = LF
    BY BlankPlaces, LenProperties
  <1>2. ASSUME NEW i \in 1 .. e, \A j \in i + 1 .. e : j \in T
        PROVE  i \in T
    <2>1. ASSUME NEW x \in Turns(s), x.line = i, i \in Starts(s), Told(s, i, x.headers)
          PROVE  Outcome(s, e, Parser(s)[x])
      <3>1. PICK j \in i .. e : /\ LineEnd(s, i, j) /\ j \in Places(s, CrLf)
                                /\ \A k \in i .. j - 1 : k \notin Places(s, CrLf)
        BY HeadLine
      <3>2. j \in Nat \ {0} /\ i <= j /\ j \in 1 .. e /\ s[j + 1] = LF
        BY <1>1, <3>1, CrLfPlaces
      <3>3. Told(s, j + 2, SetBy(s, x)) /\ j + 2 \in Starts(s)
        BY <2>1, <3>1, <3>2, ToldNext, NextStart
      <3>4. /\ IsLast(s, i) <=> SubSeq(s, j, Len(s)) = Blank
            /\ NextTurn(s, x) = [line |-> j + 2, headers |-> SetBy(s, x)]
        BY <2>1, <3>1, TurnAt
      <3>5. SubSeq(s, j, Len(s)) = Blank <=> j = e /\ Len(s) = e + 3
        BY <3>2, BlankEnds
      <3>6. Parser(s)[x] = IF j = e /\ Len(s) = e + 3 THEN SetBy(s, x) ELSE Parser(s)[NextTurn(s, x)]
        BY <2>1, <3>4, <3>5, ParserDef
      <3>7. CASE j = e /\ Len(s) = e + 3
        BY <3>3, <3>6, <3>7 DEF Outcome
      <3>8. CASE ~(j = e /\ Len(s) = e + 3)
        <4>1. PICK y : y = NextTurn(s, x)
          OBVIOUS
        <4>2. y \in Turns(s)
          BY <2>1, <3>4, <3>5, <3>8, <4>1, GoesOn
        <4>3. y.line = j + 2 /\ y.headers = SetBy(s, x)
          BY <3>4, <4>1
        <4>4. Parser(s)[x] = Parser(s)[y]
          BY <3>6, <3>8, <4>1
        <4>5. CASE j # e
          <5>1. j + 1 # e
            BY <1>1, <3>2, Controls
          <5>2. j + 2 \in i + 1 .. e
            BY <1>1, <3>2, <4>5, <5>1
          <5>3. PICK n : n = j + 2
            OBVIOUS
          <5>4. n \in T
            BY <1>2, <5>2, <5>3
          <5>5. Parsed(y)
            BY <4>2, <4>3, <5>3, <5>4
          <5> QED
            BY <3>3, <4>3, <4>4, <5>5
        <4>6. CASE j = e
          <5>1. PICK n : n = e + 2
            OBVIOUS
          <5>2. y.line = n /\ n \in Nat \ {0} /\ n + 1 <= Len(s) /\ s[n] = CR /\ s[n + 1] = LF
            <6>1. n + 1 = e + 3 /\ n \in Nat \ {0}
              BY <1>1, <5>1
            <6>2. s[n] = CR
              BY <1>1, <5>1
            <6>3. s[n + 1] = LF
              BY <1>1, <6>1
            <6> QED
              BY <1>1, <4>3, <4>6, <5>1, <6>1, <6>2, <6>3
          <5>3. At(s, CrLf, n)
            BY <5>2, AtCrLf
          <5>4. LineEnd(s, n, n)
            <6>1. n \in n .. Len(s) + 1 /\ n .. n - 1 = {}
              BY <1>1, <5>2
            <6> QED
              BY <5>3, <6>1 DEF LineEnd
          <5>5. LineAt(s, n) = <<>>
            <6>1. LineAt(s, n) = SubSeq(s, n, n - 1)
              BY <5>2, <5>4, LineIs
            <6>2. n \in Int /\ n - 1 \in Int /\ n - 1 < n
              BY <5>2
            <6> QED
              BY <6>1, <6>2, SubSeqEmpty
          <5>6. SetBy(s, y)["bad"] = "set"
            BY <4>2, <5>2, <5>5, SetByBad DEF FineAt
          <5>7. Parser(s)[y]["bad"] = "set"
            <6>1. CASE IsLast(s, y.line)
              BY <4>2, <5>6, <6>1, ParserDef
            <6>2. CASE ~IsLast(s, y.line)
              <7>1. PICK z : z = NextTurn(s, y)
                OBVIOUS
              <7>2. z \in Turns(s) /\ z.headers["bad"] = "set"
                BY <4>2, <5>6, <6>2, <7>1, GoesOn DEF NextTurn
              <7>3. Parser(s)[z]["bad"] = "set"
                BY <7>2, BadStays
              <7> QED
                BY <4>2, <6>2, <7>1, <7>3, ParserDef
            <6> QED
              BY <6>1, <6>2
          <5> QED
            BY <3>8, <4>4, <4>6, <5>7 DEF Outcome
        <4> QED
          BY <4>5, <4>6
      <3> QED
        BY <3>7, <3>8
    <2>2. i \in Nat
      BY <1>1
    <2> QED
      BY <2>1, <2>2
  <1> HIDE DEF T
  <1>3. \A i \in 1 .. e : i \in T
    BY <1>1, <1>2, Downwards
  <1>4. ASSUME NEW at \in Turns(s), at.line \in Starts(s), at.line <= e,
               Told(s, at.line, at.headers)
        PROVE  Outcome(s, e, Parser(s)[at])
    <2>1. at.line \in Nat \ {0}
      BY <1>4, StartIs
    <2>2. PICK n : n = at.line
      OBVIOUS
    <2>3. n \in 1 .. e
      BY <1>1, <1>4, <2>1, <2>2
    <2>4. n \in T
      BY <1>3, <2>3
    <2>5. \A x \in Turns(s) : x.line = n => Parsed(x)
      BY <2>4, Zenon DEF T
    <2> QED
      BY <1>4, <2>2, <2>5
  <1> QED
    BY <1>4

LEMMA ParsedHead ==
    ASSUME NEW s \in Seq(Tokens), NEW e \in Places(s, Blank),
           \A i \in Places(s, Blank) : e <= i
    PROVE  Outcome(s, e, parse_headers(s))
  <1>1. PICK at : at = [line |-> 1, headers |-> NoHeaders]
    OBVIOUS
  <1>2. e \in Nat \ {0} /\ Len(s) \in Nat
    BY BlankPlaces, LenProperties
  <1>3. NoHeaders \in HeaderMaps
    BY DEF NoHeaders, HeaderMaps
  <1>4. 1 \in 1 .. Len(s) + 1 /\ 1 <= e
    BY <1>2
  <1>5. at \in Turns(s) /\ at.line = 1 /\ at.headers = NoHeaders
    BY <1>1, <1>3, <1>4 DEF Turns
  <1>6. Outcome(s, e, Parser(s)[at])
    BY <1>4, <1>5, ToldFirst, ParsedFrom
  <1> QED
    BY <1>1, <1>6, ParserIs

-----------------------------------------------------------------------------
(* The verdict *)

Come(r, t) == LET end == HeadEnd[r] + 3
              IN  t >= end /\ (t > end => r[end + 1] = NUL)
Required == {"path", "Host", "Connection", "Key", "Version"}
Accepts(h) == h["bad"] = "NULL" /\ \A f \in Required : h[f] # "NULL"

\* The lines of the head are the same in the string and in the request.
LEMMA SameHead ==
    ASSUME NEW r \in Requests, NEW s \in Seq(Tokens), Len(s) <= Len(r),
           \A k \in 1 .. Len(s) : s[k] = r[k],
           NEW e, e = HeadEnd[r], e \in Places(s, Blank)
    PROVE  /\ StartsBefore(s, e + 2) = HeadStarts(r)
           /\ \A k \in HeadStarts(r) : LineAt(s, k) = LineAt(r, k)
           /\ \A k \in HeadStarts(r) : k \in Nat
  <1>1. r \in Seq(Tokens)
    BY HandshakeAssumption
  <1>2. e \in Nat \ {0}
    BY BlankPlaces
  <1>3. HeadStarts(r) = {k \in Starts(r) : k <= e}
    BY DEF HeadStarts
  <1>4. \A k \in HeadStarts(r) : k \in Nat \ {0} /\ k <= e
    BY <1>1, <1>3, StartIs
  <1>5. \A k \in HeadStarts(r) : k \in 1 .. e
    BY <1>2, <1>4
  <1> QED
    BY <1>1, <1>3, <1>4, <1>5, SameStarts, SameLine

\* What the head tells of itself is what it is worth.
LEMMA WorthOfHead ==
    ASSUME NEW r \in Requests, NEW s \in Seq(Tokens), Len(s) <= Len(r),
           \A k \in 1 .. Len(s) : s[k] = r[k], Len(s) <= MaxHead,
           NEW e, e = HeadEnd[r], e \in Places(s, Blank),
           NEW h, Told(s, e + 2, h)
    PROVE  /\ Accepts(h) <=> r \in Acceptable
           /\ Accepts(h) => h["Key"] = Key[r]
  <1> DEFINE B == HeadStarts(r)
  <1>1. r \in Seq(Tokens) /\ MaxHead \in Nat
    BY HandshakeAssumption
  <1>2. e \in Nat \ {0} /\ e + 3 <= Len(s) /\ s[e] = CR /\ s[e + 1] = LF /\ Len(s) \in Nat
    BY BlankPlaces, LenProperties
  <1>3. /\ StartsBefore(s, e + 2) = B
        /\ \A k \in B : LineAt(s, k) = LineAt(r, k)
        /\ \A k \in B : k \in Nat
    BY SameHead
  <1>4. r \in Acceptable <=> /\ e \in 2 .. MaxHead - 3
                             /\ \A k \in B : FineAt(r, k)
                             /\ \E k \in B : Head(LineAt(r, k)).kind = "GET"
                             /\ \A name \in Required \ {"path"} : \E k \in B : Says(r, k, name)
    <2>1. Required \ {"path"} = {"Host", "Connection", "Key", "Version"}
      BY DEF Required
    <2> QED
      BY <2>1 DEF Acceptable, FineAt
  <1>5. e <= MaxHead - 3
    BY <1>1, <1>2
  <1>6. (\A k \in B : FineAt(r, k)) => e # 1
    <2> SUFFICES ASSUME e = 1 PROVE ~FineAt(r, 1) /\ 1 \in B
      OBVIOUS
    <2>1. At(s, CrLf, 1)
      <3>1. 1 + 1 <= Len(s) /\ s[1] = CR /\ s[1 + 1] = LF
        BY <1>2
      <3> QED
        BY <3>1, AtCrLf
    <2>2. LineEnd(s, 1, 1)
      BY <1>2, <2>1 DEF LineEnd
    <2>3. LineAt(s, 1) = SubSeq(s, 1, 1 - 1)
      BY <2>2, LineIs
    <2>4. LineAt(s, 1) = <<>>
      BY <2>3, SubSeqEmpty
    <2>5. 1 \in B
      BY DEF HeadStarts, Starts
    <2> QED
      BY <1>3, <2>4, <2>5 DEF FineAt
  <1>7. \A k \in B : /\ FineAt(s, k) <=> FineAt(r, k)
                     /\ \A name : Says(s, k, name) <=> Says(r, k, name)
    BY <1>3 DEF FineAt, Says
  <1>8. /\ h["bad"] \in {"NULL", "set"}
        /\ h["bad"] = "NULL" <=> \A k \in B : FineAt(r, k)
        /\ h["bad"] = "NULL" =>
              /\ h["path"] # "NULL" <=> \E k \in B : Head(LineAt(r, k)).kind = "GET"
              /\ \A name \in Names : ToldName(s, e + 2, name, h[name])
    BY <1>3, <1>7 DEF Told
  <1>9. ASSUME NEW name \in Names, ToldName(s, e + 2, name, h[name])
        PROVE  h[name] # "NULL" <=> \E k \in B : Says(r, k, name)
    <2>1. \A v \in Values : v # "NULL"
      BY DEF Values
    <2> QED
      BY <1>3, <1>7, <1>9, <2>1 DEF ToldName
  <1>10. Required \ {"path"} \subseteq Names
    BY DEF Required, Names, Headers
  <1>11. Accepts(h) <=> r \in Acceptable
    <2>1. Accepts(h) <=> /\ h["bad"] = "NULL" /\ h["path"] # "NULL"
                         /\ \A name \in Required \ {"path"} : h[name] # "NULL"
      BY DEF Accepts, Required
    <2>2. e \in 2 .. MaxHead - 3 <=> e # 1
      BY <1>1, <1>2, <1>5
    <2> QED
      BY <1>4, <1>6, <1>8, <1>9, <1>10, <2>1, <2>2
  <1>12. ASSUME Accepts(h)
         PROVE  h["Key"] = Key[r]
    <2>1. "Key" \in Names
      BY DEF Names, Headers
    <2>2. h["bad"] = "NULL" /\ h["Key"] # "NULL"
      BY <1>12 DEF Accepts, Required
    <2>3. ToldName(s, e + 2, "Key", h["Key"])
      BY <1>8, <2>1, <2>2
    <2>4. PICK k \in B : /\ Says(r, k, "Key") /\ h["Key"] = Head(LineAt(r, k)).value
                         /\ \A m \in B : Says(r, m, "Key") => m <= k
      BY <1>3, <1>7, <2>2, <2>3 DEF ToldName
    <2> DEFINE places == {i \in B : Says(r, i, "Key")}
    <2>5. k \in places /\ \A m \in places : m <= k
      BY <2>4
    <2>6. \A m \in places : m \in Nat
      BY <1>3
    <2>7. Key[r] = IF places = {} THEN "NULL" ELSE Head(LineAt(r, Max(places))).value
      BY <1>11, <1>12 DEF Key, LastValue
    <2> HIDE DEF places
    <2>8. Max(places) = k
      <3>1. k \in places /\ \A m \in places : k >= m
        BY <2>5, <2>6
      <3>2. PICK x : x = Max(places)
        OBVIOUS
      <3>3. x \in places /\ \A m \in places : x >= m
        BY <3>1, <3>2 DEF Max
      <3>4. x \in Nat /\ k \in Nat /\ x >= k /\ k >= x
        BY <2>6, <3>1, <3>3
      <3> QED
        BY <3>2, <3>4
    <2> QED
      BY <2>4, <2>5, <2>7, <2>8
  <1> QED
    BY <1>11, <1>12

\* The string in the buffer after t tokens of the request.
LEMMA Verdict ==
    ASSUME NEW r \in Requests, NEW t \in 0 .. Len(r), t <= MaxHead,
           NEW s, s = CString(SubSeq(r, 1, t))
    PROVE  /\ Come(r, t) => ~Incomplete(s)
           /\ ~Incomplete(s) =>
                 /\ Accepts(parse_headers(s)) <=> r \in Acceptable /\ Come(r, t)
                 /\ Accepts(parse_headers(s)) => parse_headers(s)["Key"] = Key[r]
  <1>1. r \in Seq(Tokens) /\ Len(r) \in Nat /\ MaxHead \in Nat
    BY HandshakeAssumption, LenProperties
  <1>2. PICK l \in 0 .. t : /\ CString(SubSeq(r, 1, t)) = SubSeq(r, 1, l)
                            /\ \A i \in 1 .. l : r[i] # NUL
                            /\ l < t => r[l + 1] = NUL
    BY <1>1, StringIsPrefix
  <1>3. PICK e : e = HeadEnd[r]
    OBVIOUS
  <1>4. e \in Nat
    BY <1>1, <1>3, HeadEndIs
  <1>5. /\ Incomplete(SubSeq(r, 1, l)) <=> ~(e + 3 <= t)
        /\ ~Incomplete(SubSeq(r, 1, l)) =>
              /\ e \in Places(SubSeq(r, 1, l), Blank)
              /\ \A i \in Places(SubSeq(r, 1, l), Blank) : e <= i
        /\ ~Incomplete(SubSeq(r, 1, l)) => (l = e + 3 <=> (t > e + 3 => r[e + 4] = NUL))
    BY <1>2, <1>3, BlankHasCome
  <1>6. l \in 0 .. Len(r) /\ l \in Nat /\ t \in Nat /\ l <= t
    BY <1>1
  <1>7. /\ SubSeq(r, 1, l) \in Seq(Tokens) /\ Len(SubSeq(r, 1, l)) = l
        /\ \A i \in 1 .. l : SubSeq(r, 1, l)[i] = r[i]
    BY <1>1, <1>6, Prefix
  <1>8. /\ Incomplete(s) <=> ~(e + 3 <= t)
        /\ ~Incomplete(s) => e \in Places(s, Blank) /\ \A i \in Places(s, Blank) : e <= i
        /\ ~Incomplete(s) => (l = e + 3 <=> (t > e + 3 => r[e + 4] = NUL))
        /\ s \in Seq(Tokens) /\ Len(s) = l /\ \A i \in 1 .. l : s[i] = r[i]
    BY <1>2, <1>5, <1>7
  <1>9. Come(r, t) <=> t >= e + 3 /\ (t > e + 3 => r[e + 4] = NUL)
    <2>1. e + 3 + 1 = e + 4
      BY <1>4
    <2> QED
      BY <1>3, <2>1 DEF Come
  <1>10. t >= e + 3 <=> e + 3 <= t
    BY <1>4, <1>6
  <1>11. Come(r, t) => ~Incomplete(s)
    BY <1>8, <1>9, <1>10
  <1>12. ASSUME ~Incomplete(s)
         PROVE  /\ Accepts(parse_headers(s)) <=> r \in Acceptable /\ Come(r, t)
                /\ Accepts(parse_headers(s)) => parse_headers(s)["Key"] = Key[r]
    <2>1. PICK h : h = parse_headers(s)
      OBVIOUS
    <2>2. Outcome(s, e, h)
      BY <1>8, <1>12, <2>1, ParsedHead
    <2>3. Come(r, t) <=> Len(s) = e + 3
      BY <1>8, <1>9, <1>10, <1>12
    <2>4. CASE Len(s) = e + 3 /\ Told(s, e + 2, h)
      <3>1. Len(s) <= Len(r) /\ Len(s) <= MaxHead /\ \A i \in 1 .. Len(s) : s[i] = r[i]
        BY <1>1, <1>6, <1>8
      <3>2. e \in Places(s, Blank) /\ s \in Seq(Tokens)
        BY <1>8, <1>12
      <3>3. /\ Accepts(h) <=> r \in Acceptable
            /\ Accepts(h) => h["Key"] = Key[r]
        BY <1>3, <2>4, <3>1, <3>2, WorthOfHead
      <3> QED
        BY <2>1, <2>3, <2>4, <3>3
    <2>5. CASE Len(s) # e + 3 /\ h["bad"] = "set"
      <3>1. ~Accepts(h)
        BY <2>5 DEF Accepts
      <3> QED
        BY <2>1, <2>3, <2>5, <3>1
    <2> QED
      BY <2>2, <2>4, <2>5 DEF Outcome
  <1> QED
    BY <1>11, <1>12

\* What has been answered decides what has to hold.
LEMMA NothingAnswered == responses = <<>> => VerdictOfRequest
  <1> SUFFICES ASSUME responses = <<>> PROVE VerdictOfRequest
    OBVIOUS
  <1>1. DOMAIN responses = {}
    OBVIOUS
  <1>2. \A code : ~Answered(code)
    BY <1>1 DEF Answered
  <1> QED
    BY <1>2 DEF VerdictOfRequest

Undeserved == request \notin Acceptable \/ ~HeadHasCome

LEMMA RefusalAnswered == responses = <<HTTP(400)>> /\ Undeserved => VerdictOfRequest
  <1> SUFFICES ASSUME responses = <<HTTP(400)>>, Undeserved PROVE VerdictOfRequest
    OBVIOUS
  <1>1. DOMAIN responses = {1} /\ responses[1].code = 400
    BY DEF HTTP
  <1>2. 101 # 400
    OBVIOUS
  <1>3. ~Answered(101)
    BY <1>1, <1>2 DEF Answered
  <1> QED
    BY <1>3 DEF VerdictOfRequest, Undeserved

Deserved == /\ request \in Acceptable /\ HeadHasCome
            /\ 1 \in DOMAIN responses /\ responses[1].code = 101
            /\ responses[1].accept = Key[request]

LEMMA OpeningAnswered == Deserved => VerdictOfRequest
  <1> SUFFICES ASSUME Deserved PROVE VerdictOfRequest
    OBVIOUS
  <1>1. Answered(101)
    BY DEF Deserved, Answered
  <1> QED
    BY <1>1 DEF Deserved, VerdictOfRequest

LEMMA ComeIs == HeadHasCome <=> Come(request, taken)
  BY DEF HeadHasCome, Come

LEMMA ReadFailsDeserves ==
    ASSUME HandshakeInv, ReadFails
    PROVE  VerdictOfRequest'
  <1>1. /\ InHandshake /\ Refuse(400) /\ taken' = taken /\ request' = request
    BY DEF ReadFails
  <1>2. Waiting
    BY <1>1 DEF HandshakeInv, TypeOK, Waiting
  <1>3. responses' = <<>> \/ responses' = <<HTTP(400)>>
    BY <1>1, <1>2, Refused
  <1>4. /\ request \in Requests /\ request \in Seq(Tokens) /\ taken \in 0 .. Len(request)
        /\ buf = SubSeq(request, 1, taken) /\ Len(buf) <= MaxHead /\ Incomplete(CString(buf))
    BY <1>1 DEF HandshakeInv, TypeOK, InHandshake
  <1>5. taken <= MaxHead
    BY <1>4, Prefix
  <1>6. ~Come(request, taken)
    BY <1>4, <1>5, Verdict
  <1>7. (responses = <<HTTP(400)>> /\ Undeserved => VerdictOfRequest)'
    BY RefusalAnswered, PTL
  <1>8. (responses = <<>> => VerdictOfRequest)'
    BY NothingAnswered, PTL
  <1>9. (HeadHasCome <=> Come(request, taken))'
    BY ComeIs, PTL
  <1>10. Undeserved'
    BY <1>1, <1>6, <1>9 DEF Undeserved
  <1> QED
    BY <1>3, <1>7, <1>8, <1>10

LEMMA ReceiveDeserves ==
    ASSUME HandshakeInv, NEW n \in 1 .. MaxHead, Receive(n)
    PROVE  VerdictOfRequest'
  <1>1. /\ InHandshake /\ n <= Len(request) - taken /\ n <= Room
        /\ buf' = Got(n) /\ taken' = taken + n /\ request' = request /\ config' = config
        /\ Answer(CString(Got(n)))
    BY DEF Receive, startup
  <1>2. /\ request \in Requests /\ request \in Seq(Tokens) /\ taken \in 0 .. Len(request)
        /\ buf = SubSeq(request, 1, taken) /\ pc = "serving"
    BY <1>1 DEF HandshakeInv, TypeOK, InHandshake
  <1>3. Waiting
    BY <1>1 DEF HandshakeInv, TypeOK, Waiting
  <1>4. config["origin"] = "NULL"
    BY <1>2 DEF HandshakeInv, OptionsInv
  <1>5. Len(request) \in Nat /\ n \in Nat /\ MaxHead \in Nat
    BY <1>2, LenProperties, HandshakeAssumption
  <1>6. PICK t : t = taken + n
    OBVIOUS
  <1>7. t \in 0 .. Len(request)
    BY <1>1, <1>2, <1>5, <1>6
  <1>8. t <= MaxHead
    <2>1. Len(buf) = taken
      BY <1>2, Prefix
    <2>2. n <= MaxHead - taken
      BY <1>1, <2>1 DEF Room
    <2> QED
      BY <1>2, <1>5, <1>6, <2>2
  <1>9. Got(n) = SubSeq(request, 1, t)
    BY <1>1, <1>2, <1>5, <1>6, GotIsPrefix
  <1>10. PICK s : s = CString(Got(n))
    OBVIOUS
  <1>11. /\ Come(request, t) => ~Incomplete(s)
         /\ ~Incomplete(s) =>
               /\ Accepts(parse_headers(s)) <=> request \in Acceptable /\ Come(request, t)
               /\ Accepts(parse_headers(s)) => parse_headers(s)["Key"] = Key[request]
    BY <1>2, <1>7, <1>8, <1>9, <1>10, Verdict
  <1>12. (HeadHasCome <=> Come(request, taken))'
    BY ComeIs, PTL
  <1>13. HeadHasCome' <=> Come(request, t)
    BY <1>1, <1>6, <1>12
  <1>14. (responses = <<>> => VerdictOfRequest)'
    BY NothingAnswered, PTL
  <1>15. (responses = <<HTTP(400)>> /\ Undeserved => VerdictOfRequest)'
    BY RefusalAnswered, PTL
  <1>16. (Deserved => VerdictOfRequest)'
    BY OpeningAnswered, PTL
  <1>17. ASSUME Refuse(400), request \notin Acceptable \/ ~Come(request, t)
         PROVE  VerdictOfRequest'
    <2>1. responses' = <<>> \/ responses' = <<HTTP(400)>>
      BY <1>3, <1>17, Refused
    <2>2. Undeserved'
      BY <1>1, <1>13, <1>17 DEF Undeserved
    <2> QED
      BY <1>14, <1>15, <2>1, <2>2
  <1>18. CASE Incomplete(s) /\ More
    <2>1. responses' = <<>>
      BY <1>3, <1>18 DEF More, Waiting
    <2> QED
      BY <1>14, <2>1
  <1>19. CASE Incomplete(s) /\ Refuse(400)
    BY <1>11, <1>17, <1>19
  <1>20. CASE /\ ~Incomplete(s)
              /\ \E headers \in {parse_headers(s)} :
                    IF headers["bad"] = "NULL" /\ ws_verify_req_headers(headers)
                    THEN Open(headers) ELSE Refuse(400)
    <2>1. PICK h : h = parse_headers(s)
      OBVIOUS
    <2>2. h["bad"] = "NULL" /\ ws_verify_req_headers(h) <=> Accepts(h)
      BY <1>4 DEF ws_verify_req_headers, Accepts, Required
    <2>3. /\ Accepts(h) <=> request \in Acceptable /\ Come(request, t)
          /\ Accepts(h) => h["Key"] = Key[request]
      BY <1>11, <1>20, <2>1
    <2>4. CASE Accepts(h) /\ Open(h)
      <3>1. \/ responses' = <<>>
            \/ responses' = <<Switching(h)>>
            \/ \E code : responses' = <<Switching(h), HTTP(code)>>
        BY <1>1, <1>3, <2>4, Opened
      <3>2. ASSUME responses' # <<>>
            PROVE  Deserved'
        <4>1. Switching(h).code = 101 /\ Switching(h).accept = h["Key"]
          BY DEF Switching
        <4>2. 1 \in DOMAIN responses' /\ responses'[1] = Switching(h)
          <5>1. CASE responses' = <<Switching(h)>>
            BY <5>1
          <5>2. CASE \E code : responses' = <<Switching(h), HTTP(code)>>
            BY <5>2
          <5> QED
            BY <3>1, <3>2, <5>1, <5>2
        <4> QED
          BY <1>1, <1>13, <2>3, <2>4, <4>1, <4>2 DEF Deserved
      <3> QED
        BY <1>14, <1>16, <3>2
    <2>5. CASE ~Accepts(h) /\ Refuse(400)
      BY <1>17, <2>3, <2>5
    <2> QED
      BY <1>20, <2>1, <2>2, <2>4, <2>5
  <1> QED
    BY <1>1, <1>10, <1>18, <1>19, <1>20 DEF Answer

\* However recv() cuts the request and whatever it holds, the server gives it the verdict that
\* the whole of it deserves: the parser, the search for the blank line and the size of the buffer
\* agree with what the request says of itself.
THEOREM VerdictIsDeserved == Spec => []VerdictOfRequest
  <1>1. Init => VerdictOfRequest
    BY NothingAnswered DEF Init
  <1>2. HandshakeInv /\ VerdictOfRequest /\ [Next]_vars => VerdictOfRequest'
    <2> SUFFICES ASSUME HandshakeInv, VerdictOfRequest, [Next]_vars PROVE VerdictOfRequest'
      OBVIOUS
    <2>1. (responses = <<>> => VerdictOfRequest)'
      BY NothingAnswered, PTL
    <2>2. CASE UNCHANGED client \/ Leave
      <3>1. responses' = responses /\ request' = request /\ taken' = taken
        BY <2>2 DEF client, Leave
      <3> QED
        BY <3>1 DEF VerdictOfRequest, Answered, HeadHasCome
    <2>3. CASE Connect \/ TryAgain
      <3>1. responses' = responses /\ (status = "none" \/ InHandshake)
        BY <2>3 DEF Connect, TryAgain
      <3>2. responses = <<>>
        BY <3>1 DEF HandshakeInv
      <3> QED
        BY <2>1, <3>1, <3>2
    <2>4. CASE ws_get_handshake
      BY <2>4, ReceiveDeserves, ReadFailsDeserves DEF ws_get_handshake
    <2> QED
      BY <2>2, <2>3, <2>4 DEF Next, vars
  <1> QED
    BY <1>1, <1>2, HandshakeAlways, PTL DEF Spec
=============================================================================
