-------------------------- MODULE ConnectionProofs --------------------------
(***************************************************************************)
(* Theorems about one connection, for all frames, thresholds and bounds.   *)
(* First, what every function of the send path and every read handler      *)
(* preserves, whatever send(), recv() and realloc() answer: the types, the *)
(* shape of the queue, and the byte stream.  Then the inductive invariant, *)
(* which says where every byte the server undertook to send is: taken by   *)
(* the kernel, or in the rest; and the rest is the queue while the         *)
(* connection is up.  Last, what the handlers leave of the status.         *)
(***************************************************************************)
EXTENDS Connection, SequenceTheorems, TLAPS

\* What is given to ws_respond: a frame, or NULL.
Buffers == Frames \cup {<<>>}

\* What ws_set_status is given.
SetBits == {"ERR", "CLOSE", "READING"}

\* A queue that is being sent passes the threshold by less than a frame, and it is
\* throttled then, so that nothing more is appended.
Bounded(c) == /\ \E f \in Frames : Len(c.queued) < Thld + Len(f)
              /\ "THROTTLING" \in c.status \/ Len(c.queued) < Thld

\* No bytes without a queue, no throttling without one, and the bound.
ClientInv(c) == /\ c \in WSClient
                /\ ~c.sockqueue => c.queued = <<>>
                /\ "THROTTLING" \in c.status => c.sockqueue
                /\ "SENDING" \in c.status => Bounded(c)

ResultType == [client : WSClient, log : Seq(Bytes), sent : Seq(Bytes), lost : BOOLEAN]

\* Concatenation, kept folded so that equations between streams stay small.
Cat(s, t) == s \o t

\* The bytes that were queued and the bytes undertaken since are the bytes sent
\* followed by a rest; the rest is what is queued now, unless the socket is gone,
\* and nothing is sent on a socket that is gone.
Faithful(c, r) ==
    /\ c.sock = "gone" => r.sent = <<>> /\ r.client.sock = "gone"
    /\ ~r.lost => \E rest \in Seq(Bytes) :
                     /\ Cat(c.queued, r.log) = Cat(r.sent, rest)
                     /\ r.client.sock = "up" => rest = r.client.queued

Good(c, r) == /\ r \in ResultType
              /\ ClientInv(r.client)
              /\ Faithful(c, r)

-----------------------------------------------------------------------------
\* The algebra of Cat.
LEMMA CatType ==
    ASSUME NEW s \in Seq(Bytes), NEW t \in Seq(Bytes)
    PROVE  /\ Cat(s, t) \in Seq(Bytes)
           /\ Len(Cat(s, t)) = Len(s) + Len(t)
BY ConcatProperties DEF Cat

LEMMA CatEmpty ==
    ASSUME NEW s \in Seq(Bytes)
    PROVE  <<>> \in Seq(Bytes) /\ Cat(s, <<>>) = s /\ Cat(<<>>, s) = s
BY ConcatEmptySeq, EmptySeq DEF Cat

LEMMA CatAssociative ==
    ASSUME NEW s \in Seq(Bytes), NEW t \in Seq(Bytes), NEW u \in Seq(Bytes)
    PROVE  Cat(Cat(s, t), u) = Cat(s, Cat(t, u))
BY ConcatAssociative, SMT DEF Cat

\* A sequence is any of its beginnings followed by the rest.
LEMMA Split ==
    ASSUME NEW s \in Seq(Bytes), NEW n \in 0 .. Len(s)
    PROVE  /\ SubSeq(s, 1, n) \in Seq(Bytes)
           /\ SubSeq(s, n + 1, Len(s)) \in Seq(Bytes)
           /\ Cat(SubSeq(s, 1, n), SubSeq(s, n + 1, Len(s))) = s
           /\ n < Len(s) => SubSeq(s, n + 1, Len(s)) # <<>>
           /\ n = Len(s) => SubSeq(s, n + 1, Len(s)) = <<>> /\ SubSeq(s, 1, n) = s
           /\ n = 0 => SubSeq(s, 1, n) = <<>> /\ SubSeq(s, n + 1, Len(s)) = s
<1>1. Len(s) \in Nat /\ \A i \in 1 .. Len(s) : s[i] \in Bytes
  BY LenProperties, ElementOfSeq
<1>2. /\ SubSeq(s, 1, n) \in Seq(Bytes)
      /\ SubSeq(s, n + 1, Len(s)) \in Seq(Bytes)
      /\ n < Len(s) => Len(SubSeq(s, n + 1, Len(s))) = Len(s) - n
  <2>1. \A i \in 1 .. n : s[i] \in Bytes
    BY <1>1
  <2>2. \A i \in n + 1 .. Len(s) : s[i] \in Bytes
    BY <1>1
  <2>3. SubSeq(s, 1, n) \in Seq(Bytes)
    BY <1>1, <2>1, SubSeqProperties
  <2>4. /\ SubSeq(s, n + 1, Len(s)) \in Seq(Bytes)
        /\ Len(SubSeq(s, n + 1, Len(s))) = IF n + 1 <= Len(s) THEN Len(s) - (n + 1) + 1 ELSE 0
    <3>1. n + 1 \in Int /\ Len(s) \in Int
      BY <1>1
    <3> QED BY <2>2, <3>1, SubSeqProperties
  <2> QED BY <1>1, <2>3, <2>4
<1>3. Cat(SubSeq(s, 1, n), SubSeq(s, n + 1, Len(s))) = SubSeq(s, 1, Len(s))
  <2>1. /\ 1 \in 1 .. Len(s) + 1
        /\ n \in 1 - 1 .. Len(s)
        /\ Len(s) \in n .. Len(s)
    BY <1>1
  <2> QED BY <2>1, ConcatAdjacentSubSeq DEF Cat
<1>4. SubSeq(s, 1, Len(s)) = s
  BY SubSeqFull
<1>5. n < Len(s) => SubSeq(s, n + 1, Len(s)) # <<>>
  <2>1. SUFFICES ASSUME n < Len(s), SubSeq(s, n + 1, Len(s)) = <<>>
                 PROVE  FALSE
    OBVIOUS
  <2>2. Len(SubSeq(s, n + 1, Len(s))) = 0
    BY <2>1, EmptySeq
  <2>3. Len(SubSeq(s, n + 1, Len(s))) = Len(s) - n
    BY <1>2, <2>1
  <2>4. Len(s) - n # 0
    BY <1>1, <2>1
  <2> QED BY <2>2, <2>3, <2>4
<1>6. n = Len(s) => SubSeq(s, n + 1, Len(s)) = <<>>
  BY <1>1, SubSeqEmpty
<1>7. n = 0 => SubSeq(s, 1, n) = <<>>
  BY SubSeqEmpty
<1>8. n = 0 => SubSeq(s, n + 1, Len(s)) = s
  <2>1. n = 0 => n + 1 = 1
    OBVIOUS
  <2> QED BY <1>4, <2>1
<1>9. n = Len(s) => SubSeq(s, 1, n) = s
  BY <1>4
<1> QED BY <1>2, <1>3, <1>4, <1>5, <1>6, <1>7, <1>8, <1>9

\* Buffers are shorter than the threshold.
LEMMA BufferType ==
    ASSUME NEW buf \in Buffers
    PROVE  /\ buf \in Seq(Bytes) /\ Len(buf) \in Nat
           /\ Len(buf) < Thld /\ Thld \in Nat
           /\ buf # <<>> => buf \in Frames
<1>1. Frames # {} /\ \A f \in Frames : f \in Seq(Bytes) /\ Len(f) \in Nat /\ Len(f) < Thld
  BY FramesAssumption, ThldAssumption, LenProperties DEF Frames
<1>2. Thld \in Nat
  BY ThldAssumption
<1>3. PICK f \in Frames : TRUE
  BY <1>1
<1>4. /\ Len(<<>>) = 0 /\ <<>> \in Seq(Bytes)
  BY EmptySeq
<1>5. 0 < Thld
  BY <1>1, <1>2, <1>3
<1>6. CASE buf = <<>>
  BY <1>2, <1>4, <1>5, <1>6
<1>7. CASE buf \in Frames
  BY <1>1, <1>2, <1>7
<1> QED BY <1>6, <1>7 DEF Buffers

\* What is not longer than the threshold is bounded.
LEMMA ShortBounded ==
    ASSUME NEW c, NEW s \in Seq(Bytes), c.queued = s, Len(s) < Thld
    PROVE  Bounded(c)
<1>1. PICK f \in Frames : Len(f) \in Nat
  BY FramesAssumption, LenProperties DEF Frames
<1>2. Len(s) \in Nat /\ Thld \in Nat
  BY ThldAssumption, LenProperties
<1> QED BY <1>1, <1>2 DEF Bounded

LEMMA EmptyBounded == ASSUME NEW c, c.queued = <<>> PROVE Bounded(c)
<1>1. <<>> \in Seq(Bytes) /\ Len(<<>>) = 0 /\ <<>> \in Buffers
  BY EmptySeq DEF Buffers
<1>2. Len(<<>>) < Thld
  BY <1>1, BufferType
<1> QED BY <1>1, <1>2, ShortBounded

\* ws_clear_queue leaves a well-formed client without a queue.
LEMMA ClearQueue ==
    ASSUME NEW c, ClientInv(c)
    PROVE  LET d == ws_clear_queue(c)
           IN  /\ ClientInv(d)
               /\ ~d.sockqueue
               /\ d.queued = <<>>
               /\ d.sock = c.sock
               /\ d.eof = c.eof
               /\ d.stage = c.stage
<1> DEFINE d == ws_clear_queue(c)
<1>1. /\ d \in WSClient /\ ~d.sockqueue /\ d.queued = <<>>
      /\ d.sock = c.sock /\ d.eof = c.eof /\ d.stage = c.stage
      /\ "THROTTLING" \notin d.status
  BY EmptySeq DEF ws_clear_queue, ClientInv, WSClient, StatusBits
<1>2. Bounded(d)
  BY <1>1, EmptyBounded
<1> QED BY <1>1, <1>2 DEF ClientInv

\* A status without THROTTLING and SENDING, a stage and the end of the input may be set on any
\* client.
LEMMA SetFields ==
    ASSUME NEW c, ClientInv(c), NEW status \in SUBSET SetBits
    PROVE  LET d == ws_set_status(c, status)
           IN  ClientInv(d) /\ d.queued = c.queued /\ d.sock = c.sock
BY DEF ws_set_status, ClientInv, WSClient, StatusBits, SetBits

LEMMA SetStage ==
    ASSUME NEW c, ClientInv(c), NEW stage \in Stages
    PROVE  LET d == [c EXCEPT !.stage = stage]
           IN  ClientInv(d) /\ d.queued = c.queued /\ d.sock = c.sock
BY DEF ClientInv, WSClient, Bounded

LEMMA SetEnd ==
    ASSUME NEW c, ClientInv(c)
    PROVE  LET d == [c EXCEPT !.eof = TRUE]
           IN  ClientInv(d) /\ d.queued = c.queued /\ d.sock = c.sock
BY DEF ClientInv, WSClient, Bounded

\* Being good depends on the queue and the socket of the client before, only.
LEMMA SameBefore ==
    ASSUME NEW c, NEW d, NEW r, c.queued = d.queued, c.sock = d.sock, Good(d, r)
    PROVE  Good(c, r)
BY DEF Good, Faithful

\* A result in which nothing was sent is good.
LEMMA QuietGood ==
    ASSUME NEW c, NEW d, ClientInv(c), ClientInv(d), c.queued = d.queued, c.sock = d.sock,
           NEW r \in Quietly(d)
    PROVE  Good(c, r)
<1>1. r = [client |-> d, log |-> <<>>, sent |-> <<>>, lost |-> FALSE]
  BY DEF Quietly, Result
<1>2. r \in ResultType /\ c.queued \in Seq(Bytes) /\ <<>> \in Seq(Bytes)
  BY <1>1, EmptySeq DEF ResultType, ClientInv, WSClient
<1>3. Cat(c.queued, <<>>) = Cat(<<>>, c.queued)
  BY <1>2, CatEmpty
<1> QED BY <1>1, <1>2, <1>3 DEF Good, Faithful

\* Setting the status of the client of a good result leaves it good.
LEMMA ThenSetStatusGood ==
    ASSUME NEW c, NEW R, \A r \in R : Good(c, r),
           NEW status \in SUBSET SetBits,
           NEW q \in ThenSetStatus(R, status)
    PROVE  Good(c, q)
<1>1. PICK r \in R : q = [r EXCEPT !.client = ws_set_status(r.client, status)]
  BY DEF ThenSetStatus
<1>2. Good(c, r)
  OBVIOUS
<1>3. r \in ResultType /\ ClientInv(r.client)
  BY <1>2 DEF Good
<1>4. /\ q.client = ws_set_status(r.client, status)
      /\ q.log = r.log /\ q.sent = r.sent /\ q.lost = r.lost
      /\ q = [client |-> q.client, log |-> q.log, sent |-> q.sent, lost |-> q.lost]
  BY <1>1, <1>3 DEF ResultType
<1>5. ClientInv(q.client) /\ q.client.queued = r.client.queued /\ q.client.sock = r.client.sock
  BY <1>3, <1>4, SetFields
<1>6. q \in ResultType
  BY <1>3, <1>4, <1>5 DEF ResultType, ClientInv
<1> QED BY <1>2, <1>4, <1>5, <1>6 DEF Good, Faithful

-----------------------------------------------------------------------------
\* A send() that fails leaves the queue alone, and only EAGAIN the socket.
LEMMA FailedSend ==
    ASSUME NEW c, ClientInv(c), NEW e
    PROVE  LET d == Failed(c, e)
           IN  /\ ClientInv(d)
               /\ d.queued = c.queued
               /\ d.sockqueue = c.sockqueue
               /\ c.sock = "gone" => d.sock = "gone"
               /\ e # "EAGAIN" => d.sock = "gone"
               /\ e = "EAGAIN" => d = c
BY DEF Failed, ClientInv, WSClient, Bounded

\* ws_queue_sockbuf queues what was not sent.
LEMMA QueueSockbuf ==
    ASSUME NEW c, ClientInv(c), NEW buf \in Buffers, NEW n \in 0 .. Len(buf)
    PROVE  LET d == ws_queue_sockbuf(c, buf, n)
           IN  /\ ClientInv(d)
               /\ d.queued = SubSeq(buf, n + 1, Len(buf))
               /\ d.sock = c.sock
<1> DEFINE d == ws_queue_sockbuf(c, buf, n)
           rest == SubSeq(buf, n + 1, Len(buf))
<1>1. buf \in Seq(Bytes) /\ Len(buf) < Thld /\ Len(buf) \in Nat /\ Thld \in Nat
  BY BufferType
<1>2. rest \in Seq(Bytes) /\ Len(rest) < Thld
  <2>1. rest \in Seq(Bytes) /\ SubSeq(buf, 1, n) \in Seq(Bytes) /\ Cat(SubSeq(buf, 1, n), rest) = buf
    BY <1>1, Split
  <2>2. Len(rest) \in Nat /\ Len(SubSeq(buf, 1, n)) \in Nat
    BY <2>1, LenProperties
  <2>3. Len(buf) = Len(SubSeq(buf, 1, n)) + Len(rest)
    <3> HIDE DEF rest
    <3> QED BY <2>1, CatType
  <2> HIDE DEF rest
  <2> QED BY <1>1, <2>1, <2>2, <2>3
<1>3. /\ d \in WSClient /\ d.queued = rest /\ d.sockqueue /\ d.sock = c.sock
  BY <1>2 DEF ws_queue_sockbuf, ClientInv, WSClient, StatusBits
<1> HIDE DEF d, rest
<1>4. Bounded(d)
  BY <1>2, <1>3, ShortBounded
<1> QED BY <1>3, <1>4 DEF ClientInv, d, rest

\* How a result with nothing sent is shown to be good.
LEMMA NothingSent ==
    ASSUME NEW c, ClientInv(c), NEW d, ClientInv(d),
           c.sock = "gone" => d.sock = "gone",
           NEW added \in Seq(Bytes),
           d.sock = "up" => d.queued = Cat(c.queued, added),
           NEW r, r = [client |-> d, log |-> added, sent |-> <<>>, lost |-> FALSE]
    PROVE  Good(c, r)
<1>1. c.queued \in Seq(Bytes) /\ <<>> \in Seq(Bytes)
  BY EmptySeq DEF ClientInv, WSClient
<1>2. /\ Cat(c.queued, added) \in Seq(Bytes)
      /\ Cat(<<>>, Cat(c.queued, added)) = Cat(c.queued, added)
  BY <1>1, CatType, CatEmpty
<1>3. r \in ResultType
  BY <1>1 DEF ResultType, ClientInv
<1> QED BY <1>1, <1>2, <1>3 DEF Good, Faithful

\* The bytes a send() may take.
LEMMA SendCountRange ==
    ASSUME NEW c, NEW buf \in Seq(Bytes), NEW n \in SendCounts(c, buf)
    PROVE  /\ c.sock # "gone"
           /\ n \in 0 .. Len(buf)
           /\ n = 0 => buf = <<>>
<1>1. Len(buf) \in Nat /\ Len(<<>>) = 0
  BY EmptySeq, LenProperties
<1> QED BY <1>1 DEF SendCounts

\* ws_respond_data: a first attempt to send.
LEMMA RespondDataGood ==
    ASSUME NEW c, ClientInv(c), ~c.sockqueue, NEW buf \in Buffers,
           NEW r \in ws_respond_data(c, buf)
    PROVE  Good(c, r)
<1>0. /\ c.queued = <<>> /\ Len(buf) \in Nat /\ <<>> \in Seq(Bytes)
      /\ buf \in Seq(Bytes)
  BY BufferType, EmptySeq DEF ClientInv
<1>1. CASE \E n \in SendCounts(c, buf) :
             r = Result(IF n < Len(buf) THEN ws_queue_sockbuf(c, buf, n) ELSE c,
                        buf, SubSeq(buf, 1, n))
  <2>1. PICK n \in SendCounts(c, buf) :
             r = Result(IF n < Len(buf) THEN ws_queue_sockbuf(c, buf, n) ELSE c,
                        buf, SubSeq(buf, 1, n))
    BY <1>1
  <2>2. c.sock # "gone" /\ n \in 0 .. Len(buf)
    BY <1>0, SendCountRange
  <2> DEFINE rest == SubSeq(buf, n + 1, Len(buf))
  <2>3. /\ SubSeq(buf, 1, n) \in Seq(Bytes)
        /\ rest \in Seq(Bytes)
        /\ Cat(SubSeq(buf, 1, n), rest) = buf
        /\ n = Len(buf) => rest = <<>>
    BY <1>0, <2>2, Split
  <2>4. ClientInv(r.client) /\ r.client.queued = rest
    <3>1. CASE n < Len(buf)
      BY <2>1, <2>2, <3>1, QueueSockbuf DEF Result
    <3>2. CASE ~(n < Len(buf))
      <4>1. n = Len(buf)
        BY <1>0, <2>2, <3>2
      <4>2. r.client = c
        BY <2>1, <3>2 DEF Result
      <4> HIDE DEF rest
      <4> QED BY <1>0, <2>3, <4>1, <4>2
    <3> QED BY <3>1, <3>2
  <2>5. Cat(<<>>, buf) = buf
    BY <1>0, CatEmpty
  <2>6. /\ r.log = buf /\ r.sent = SubSeq(buf, 1, n) /\ r.lost = FALSE
        /\ r = [client |-> r.client, log |-> r.log, sent |-> r.sent, lost |-> r.lost]
    BY <2>1 DEF Result
  <2>7. r \in ResultType
    BY <1>0, <2>3, <2>4, <2>6 DEF ResultType, ClientInv
  <2> QED BY <1>0, <2>2, <2>3, <2>4, <2>5, <2>6, <2>7 DEF Good, Faithful
<1>2. CASE \E e \in SendErrors(c, buf) :
             r = IF e = "EPIPE"
                 THEN Result(ws_set_status(Failed(c, e), {"ERR", "CLOSE"}), <<>>, <<>>)
                 ELSE Result(ws_queue_sockbuf(Failed(c, e), buf, 0), buf, <<>>)
  <2>1. PICK e \in SendErrors(c, buf) :
             r = IF e = "EPIPE"
                 THEN Result(ws_set_status(Failed(c, e), {"ERR", "CLOSE"}), <<>>, <<>>)
                 ELSE Result(ws_queue_sockbuf(Failed(c, e), buf, 0), buf, <<>>)
    BY <1>2
  <2> DEFINE f == Failed(c, e)
  <2>2. /\ ClientInv(f) /\ f.queued = c.queued
        /\ c.sock = "gone" => f.sock = "gone"
        /\ e # "EAGAIN" => f.sock = "gone"
    BY FailedSend
  <2>3. CASE e = "EPIPE"
    <3> DEFINE d == ws_set_status(f, {"ERR", "CLOSE"})
    <3>1. {"ERR", "CLOSE"} \in SUBSET SetBits
      BY DEF SetBits
    <3>2. ClientInv(d) /\ d.sock = "gone"
      BY <2>2, <2>3, <3>1, SetFields
    <3>3. r = [client |-> d, log |-> <<>>, sent |-> <<>>, lost |-> FALSE]
      BY <2>1, <2>3 DEF Result
    <3> QED BY <1>0, <3>2, <3>3, NothingSent
  <2>4. CASE e # "EPIPE"
    <3> DEFINE d == ws_queue_sockbuf(f, buf, 0)
    <3>1. 0 \in 0 .. Len(buf)
      BY <1>0
    <3>2. ClientInv(d) /\ d.queued = SubSeq(buf, 0 + 1, Len(buf)) /\ d.sock = f.sock
      BY <2>2, <3>1, QueueSockbuf
    <3>3. SubSeq(buf, 0 + 1, Len(buf)) = buf /\ Cat(<<>>, buf) = buf
      BY <1>0, <3>1, Split, CatEmpty
    <3>4. r = [client |-> d, log |-> buf, sent |-> <<>>, lost |-> FALSE]
      BY <2>1, <2>4 DEF Result
    <3> QED BY <1>0, <2>2, <3>2, <3>3, <3>4, NothingSent
  <2> QED BY <2>3, <2>4
<1> QED BY <1>1, <1>2 DEF ws_respond_data

\* Chopping a queue leaves its rest queued.
LEMMA ChoppedQueue ==
    ASSUME NEW c, ClientInv(c), c.sockqueue, NEW n \in 0 .. Len(c.queued),
           n = 0 => c.queued = <<>>
    PROVE  LET d == Chopped(c, n)
           IN  /\ ClientInv(d)
               /\ d.queued = SubSeq(c.queued, n + 1, Len(c.queued))
               /\ d.sock = c.sock
<1> DEFINE rest == SubSeq(c.queued, n + 1, Len(c.queued))
<1>1. c.queued \in Seq(Bytes)
  BY DEF ClientInv, WSClient
<1>2. rest \in Seq(Bytes) /\ (n = 0 => rest = c.queued)
  BY <1>1, Split
<1>3. chop_nchars(c.queued, n) = rest
  BY <1>2 DEF chop_nchars
<1>4. CASE rest = <<>>
  BY <1>3, <1>4, ClearQueue DEF Chopped
<1>5. CASE rest # <<>>
  <2>1. Chopped(c, n) = [c EXCEPT !.queued = rest]
    BY <1>3, <1>5 DEF Chopped
  <2> DEFINE d == Chopped(c, n)
  <2>2. Len(rest) \in Nat /\ Len(c.queued) \in Nat /\ Len(rest) <= Len(c.queued)
    <3>1. SubSeq(c.queued, 1, n) \in Seq(Bytes) /\ Cat(SubSeq(c.queued, 1, n), rest) = c.queued
      BY <1>1, Split
    <3>2. /\ Len(rest) \in Nat /\ Len(c.queued) \in Nat /\ Len(SubSeq(c.queued, 1, n)) \in Nat
      BY <1>1, <1>2, <3>1, LenProperties
    <3> HIDE DEF rest
    <3>3. Len(c.queued) = Len(SubSeq(c.queued, 1, n)) + Len(rest)
      BY <1>2, <3>1, CatType
    <3> QED BY <3>2, <3>3
  <2>3. d \in WSClient /\ d.queued = rest /\ d.status = c.status /\ d.sockqueue /\ d.sock = c.sock
    BY <1>2, <2>1 DEF ClientInv, WSClient
  <2>4. \A f \in Frames : Len(f) \in Nat /\ Thld \in Nat
    BY BufferType DEF Buffers
  <2> HIDE DEF d, rest
  <2>5. Bounded(c) => Bounded(d)
    BY <2>2, <2>3, <2>4 DEF Bounded
  <2> QED BY <2>3, <2>5 DEF ClientInv, d, rest
<1> QED BY <1>4, <1>5

\* ws_respond_cache: an attempt to send the queue.
LEMMA RespondCacheGood ==
    ASSUME NEW c, ClientInv(c), c.sockqueue, NEW r \in ws_respond_cache(c)
    PROVE  Good(c, r)
<1>0. c.queued \in Seq(Bytes) /\ <<>> \in Seq(Bytes) /\ Cat(c.queued, <<>>) = c.queued
  BY CatEmpty DEF ClientInv, WSClient
<1>1. CASE \E n \in SendCounts(c, c.queued) :
             r = Result(Chopped(c, n), <<>>, SubSeq(c.queued, 1, n))
  <2>1. PICK n \in SendCounts(c, c.queued) :
             r = Result(Chopped(c, n), <<>>, SubSeq(c.queued, 1, n))
    BY <1>1
  <2>2. c.sock # "gone" /\ n \in 0 .. Len(c.queued) /\ (n = 0 => c.queued = <<>>)
    BY <1>0, SendCountRange
  <2> DEFINE rest == SubSeq(c.queued, n + 1, Len(c.queued))
  <2>3. /\ SubSeq(c.queued, 1, n) \in Seq(Bytes)
        /\ rest \in Seq(Bytes)
        /\ Cat(SubSeq(c.queued, 1, n), rest) = c.queued
    BY <1>0, <2>2, Split
  <2>4. ClientInv(Chopped(c, n)) /\ Chopped(c, n).queued = rest
    BY <2>2, ChoppedQueue
  <2>5. r = [client |-> Chopped(c, n), log |-> <<>>, sent |-> SubSeq(c.queued, 1, n),
             lost |-> FALSE]
    BY <2>1 DEF Result
  <2>6. r \in ResultType
    BY <1>0, <2>3, <2>4, <2>5 DEF ResultType, ClientInv
  <2> HIDE DEF rest
  <2> QED BY <1>0, <2>2, <2>3, <2>4, <2>5, <2>6 DEF Good, Faithful
<1>2. CASE \E e \in SendErrors(c, c.queued) :
             r = Result(CASE e = "EPIPE" -> ws_set_status(Failed(c, e), {"ERR", "CLOSE"})
                          [] e = "EAGAIN" -> c
                          [] e = "ECONNRESET" -> ws_clear_queue(Failed(c, e)), <<>>, <<>>)
  <2>1. PICK e \in SendErrors(c, c.queued) :
             r = Result(CASE e = "EPIPE" -> ws_set_status(Failed(c, e), {"ERR", "CLOSE"})
                          [] e = "EAGAIN" -> c
                          [] e = "ECONNRESET" -> ws_clear_queue(Failed(c, e)), <<>>, <<>>)
    BY <1>2
  <2> DEFINE f == Failed(c, e)
  <2>2. /\ ClientInv(f) /\ f.queued = c.queued
        /\ c.sock = "gone" => f.sock = "gone"
        /\ e # "EAGAIN" => f.sock = "gone"
    BY FailedSend
  <2>3. CASE e = "EPIPE"
    <3> DEFINE d == ws_set_status(f, {"ERR", "CLOSE"})
    <3>1. {"ERR", "CLOSE"} \in SUBSET SetBits
      BY DEF SetBits
    <3>2. ClientInv(d) /\ d.sock = "gone"
      BY <2>2, <2>3, <3>1, SetFields
    <3>3. r = [client |-> d, log |-> <<>>, sent |-> <<>>, lost |-> FALSE]
      BY <2>1, <2>3 DEF Result
    <3> QED BY <1>0, <3>2, <3>3, NothingSent
  <2>4. CASE e = "EAGAIN"
    <3>1. r = [client |-> c, log |-> <<>>, sent |-> <<>>, lost |-> FALSE]
      BY <2>1, <2>4 DEF Result
    <3> QED BY <1>0, <3>1, NothingSent
  <2>5. CASE e = "ECONNRESET"
    <3> DEFINE d == ws_clear_queue(f)
    <3>1. ClientInv(d) /\ d.sock = "gone"
      BY <2>2, <2>5, ClearQueue
    <3>2. r = [client |-> d, log |-> <<>>, sent |-> <<>>, lost |-> FALSE]
      BY <2>1, <2>5 DEF Result
    <3> QED BY <1>0, <3>1, <3>2, NothingSent
  <2> QED BY <2>3, <2>4, <2>5 DEF SendErrors
<1> QED BY <1>1, <1>2 DEF ws_respond_cache

\* ws_realloc_send_buf: the buffer is appended, or the queue is dropped.
LEMMA ReallocSendBufGood ==
    ASSUME NEW c, ClientInv(c), c.sockqueue, NEW buf \in Frames,
           "THROTTLING" \notin c.status, NEW r \in ws_realloc_send_buf(c, buf)
    PROVE  Good(c, r)
<1> DEFINE queue == c.queued \o buf
           d == [c EXCEPT !.queued = queue,
                          !.status = IF Len(queue) >= Thld THEN @ \cup {"THROTTLING"} ELSE @]
           e == ws_set_status(ws_clear_queue(c), {"ERR", "CLOSE"})
<1>1. c.queued \in Seq(Bytes) /\ <<>> \in Seq(Bytes) /\ buf \in Seq(Bytes)
  BY EmptySeq, FramesAssumption DEF ClientInv, WSClient
<1>2. queue \in Seq(Bytes) /\ queue = Cat(c.queued, buf)
  BY <1>1, CatType DEF Cat
<1>3. CASE r = Result(d, buf, <<>>)
  <2>0. /\ Len(queue) = Len(c.queued) + Len(buf) /\ Len(c.queued) \in Nat /\ Len(buf) \in Nat
        /\ Thld \in Nat
    BY <1>1, <1>2, CatType, LenProperties, ThldAssumption
  <2> HIDE DEF queue
  <2>1. /\ d \in WSClient /\ d.sockqueue /\ d.queued = queue /\ d.sock = c.sock
        /\ d.status = IF Len(queue) >= Thld THEN c.status \cup {"THROTTLING"} ELSE c.status
    BY <1>2 DEF ClientInv, WSClient, StatusBits
  <2>3. "SENDING" \in d.status => Bounded(d)
    <3>1. "SENDING" \in d.status => Len(c.queued) < Thld
      BY <2>1 DEF ClientInv, Bounded
    <3> HIDE DEF d
    <3>2. ASSUME Len(c.queued) < Thld
          PROVE  Bounded(d)
      <4>1. Len(d.queued) < Thld + Len(buf)
        BY <2>0, <2>1, <3>2
      <4>2. "THROTTLING" \in d.status \/ Len(d.queued) < Thld
        BY <2>0, <2>1
      <4> QED BY <4>1, <4>2 DEF Bounded
    <3> QED BY <3>1, <3>2
  <2>4. ClientInv(d)
    BY <2>1, <2>3 DEF ClientInv
  <2>2. r = [client |-> d, log |-> buf, sent |-> <<>>, lost |-> FALSE]
    BY <1>3 DEF Result
  <2> HIDE DEF d
  <2> QED BY <1>1, <1>2, <2>1, <2>2, <2>4, NothingSent
<1>4. CASE r = [client |-> e, log |-> <<>>, sent |-> <<>>, lost |-> TRUE]
  <2>1. {"ERR", "CLOSE"} \in SUBSET SetBits
    BY DEF SetBits
  <2>2. ClientInv(e) /\ e.sock = c.sock
    BY <2>1, ClearQueue, SetFields
  <2> HIDE DEF e
  <2>3. r \in ResultType
    BY <1>1, <1>4, <2>2 DEF ResultType, ClientInv
  <2> QED BY <1>4, <2>2, <2>3 DEF Good, Faithful
<1>5. r = Result(d, buf, <<>>) \/ r = [client |-> e, log |-> <<>>, sent |-> <<>>, lost |-> TRUE]
  BY DEF ws_realloc_send_buf
<1> QED BY <1>3, <1>4, <1>5

\* ws_respond, whatever it is given and whatever send() and realloc() do.
LEMMA RespondGood ==
    ASSUME NEW c, ClientInv(c), NEW buf \in Buffers, NEW r \in ws_respond(c, buf)
    PROVE  Good(c, r)
<1>1. CASE ~c.sockqueue
  BY <1>1, RespondDataGood DEF ws_respond
<1>2. CASE c.sockqueue /\ buf # <<>> /\ "THROTTLING" \notin c.status
  BY <1>2, BufferType, ReallocSendBufGood DEF ws_respond
<1>3. CASE c.sockqueue /\ ~(buf # <<>> /\ "THROTTLING" \notin c.status)
  BY <1>3, RespondCacheGood DEF ws_respond
<1> QED BY <1>1, <1>2, <1>3 DEF ClientInv, WSClient

\* Two responses in a row.
LEMMA RespondBothGood ==
    ASSUME NEW c, ClientInv(c), NEW buf1 \in Buffers, NEW buf2 \in Buffers,
           NEW r \in RespondBoth(c, buf1, buf2)
    PROVE  Good(c, r)
<1>0. PICK r1 \in ws_respond(c, buf1) :
        \E r2 \in ws_respond(r1.client, buf2) :
          r = [client |-> r2.client, log |-> r1.log \o r2.log,
               sent |-> r1.sent \o r2.sent, lost |-> r1.lost \/ r2.lost]
  BY DEF RespondBoth
<1>1. PICK r2 \in ws_respond(r1.client, buf2) :
          r = [client |-> r2.client, log |-> r1.log \o r2.log,
               sent |-> r1.sent \o r2.sent, lost |-> r1.lost \/ r2.lost]
  BY <1>0
<1>2. Good(c, r1)
  BY RespondGood
<1>3. Good(r1.client, r2)
  <2>1. ClientInv(r1.client)
    BY <1>2 DEF Good
  <2> QED BY <2>1, RespondGood
<1>4. /\ r1 \in ResultType /\ r2 \in ResultType
      /\ ClientInv(r2.client)
      /\ c.queued \in Seq(Bytes)
      /\ r1.client \in WSClient
  BY <1>2, <1>3 DEF Good, ClientInv, WSClient
<1>5. /\ r.client = r2.client /\ r.log = Cat(r1.log, r2.log)
      /\ r.sent = Cat(r1.sent, r2.sent) /\ r.lost = (r1.lost \/ r2.lost)
  BY <1>1 DEF Cat
<1>6. /\ r1.log \in Seq(Bytes) /\ r2.log \in Seq(Bytes)
      /\ r1.sent \in Seq(Bytes) /\ r2.sent \in Seq(Bytes)
      /\ r1.lost \in BOOLEAN /\ r2.lost \in BOOLEAN
      /\ r2.client \in WSClient
  BY <1>4 DEF ResultType
<1>7. r \in ResultType
  <2>1. r.log \in Seq(Bytes) /\ r.sent \in Seq(Bytes) /\ r.lost \in BOOLEAN
    BY <1>5, <1>6, CatType
  <2>2. r = [client |-> r.client, log |-> r.log, sent |-> r.sent, lost |-> r.lost]
    BY <1>1
  <2> QED BY <1>5, <1>6, <2>1, <2>2 DEF ResultType
<1>8. c.sock = "gone" => r.sent = <<>> /\ r.client.sock = "gone"
  <2>1. c.sock = "gone" => r1.sent = <<>> /\ r2.sent = <<>> /\ r2.client.sock = "gone"
    BY <1>2, <1>3 DEF Good, Faithful
  <2> QED BY <1>5, <2>1, CatEmpty, EmptySeq
<1>9. ASSUME ~r.lost
      PROVE  \E rest \in Seq(Bytes) : /\ Cat(c.queued, r.log) = Cat(r.sent, rest)
                                      /\ r.client.sock = "up" => rest = r.client.queued
  <2>1. ~r1.lost /\ ~r2.lost
    BY <1>5, <1>9
  <2>2. PICK rest1 \in Seq(Bytes) :
             /\ Cat(c.queued, r1.log) = Cat(r1.sent, rest1)
             /\ r1.client.sock = "up" => rest1 = r1.client.queued
    BY <1>2, <2>1 DEF Good, Faithful
  <2>3. PICK rest2 \in Seq(Bytes) :
             /\ Cat(rest1, r2.log) = Cat(r2.sent, rest2)
             /\ r2.client.sock = "up" => rest2 = r2.client.queued
    <3>1. CASE r1.client.sock = "up"
      BY <1>3, <2>1, <2>2, <3>1 DEF Good, Faithful
    <3>2. CASE r1.client.sock = "gone"
      <4>1. r2.sent = <<>> /\ r2.client.sock = "gone"
        BY <1>3, <3>2 DEF Good, Faithful
      <4>2. Cat(rest1, r2.log) \in Seq(Bytes)
        BY <1>6, CatType
      <4>3. Cat(<<>>, Cat(rest1, r2.log)) = Cat(rest1, r2.log)
        BY <4>2, CatEmpty
      <4> QED BY <4>1, <4>2, <4>3
    <3> QED BY <1>4, <3>1, <3>2 DEF WSClient
  <2>4. Cat(Cat(c.queued, r1.log), r2.log) = Cat(Cat(r1.sent, r2.sent), rest2)
    <3> DEFINE a == Cat(c.queued, r1.log)
    <3>1. a \in Seq(Bytes) /\ a = Cat(r1.sent, rest1)
      BY <1>4, <1>6, <2>2, CatType
    <3>2. Cat(rest1, r2.log) = Cat(r2.sent, rest2)
      BY <2>3
    <3> HIDE DEF a
    <3>3. Cat(a, r2.log) = Cat(Cat(r1.sent, r2.sent), rest2)
      <4>1. Cat(Cat(r1.sent, rest1), r2.log) = Cat(r1.sent, Cat(rest1, r2.log))
        BY <1>6, CatAssociative
      <4>2. Cat(r1.sent, Cat(r2.sent, rest2)) = Cat(Cat(r1.sent, r2.sent), rest2)
        BY <1>6, CatAssociative
      <4> QED BY <3>1, <3>2, <4>1, <4>2
    <3> QED BY <3>3 DEF a
  <2>5. Cat(Cat(c.queued, r1.log), r2.log) = Cat(c.queued, Cat(r1.log, r2.log))
    BY <1>4, <1>6, CatAssociative
  <2> QED BY <1>5, <2>3, <2>4, <2>5
<1> QED BY <1>4, <1>5, <1>7, <1>8, <1>9 DEF Good, Faithful

-----------------------------------------------------------------------------
\* The statuses the read handlers set.
LEMMA SetStatuses ==
    /\ {} \in SUBSET SetBits
    /\ {"READING"} \in SUBSET SetBits
    /\ {"CLOSE"} \in SUBSET SetBits
    /\ {"ERR", "CLOSE"} \in SUBSET SetBits
BY DEF SetBits

LEMMA FrameTypes ==
    /\ Switching \in Buffers /\ HttpErr \in Buffers /\ CloseFrm \in Buffers
    /\ Pong \in Buffers /\ Dirty \in Buffers
    /\ <<>> \in Buffers
BY DEF Frames, Buffers

LEMMA KeepReadingGood ==
    ASSUME NEW c, ClientInv(c), NEW r \in KeepReading(c)
    PROVE  Good(c, r)
BY SetStatuses, SetFields, QuietGood DEF KeepReading

LEMMA FailQuietlyGood ==
    ASSUME NEW c, ClientInv(c), NEW r \in FailQuietly(c)
    PROVE  Good(c, r)
BY SetStatuses, SetFields, QuietGood DEF FailQuietly

LEMMA FailWithGood ==
    ASSUME NEW c, ClientInv(c), NEW buf \in Buffers, NEW r \in FailWith(c, buf)
    PROVE  Good(c, r)
<1> DEFINE d == ws_set_status(c, {"ERR", "CLOSE"})
<1>1. ClientInv(d) /\ d.queued = c.queued /\ d.sock = c.sock
  BY SetStatuses, SetFields
<1>2. Good(d, r)
  BY <1>1, RespondGood DEF FailWith
<1> QED BY <1>1, <1>2, SameBefore

\* ws_get_handshake.
LEMMA HandshakeGood ==
    ASSUME NEW c, ClientInv(c), NEW r \in ws_get_handshake(c)
    PROVE  Good(c, r)
<1>1. CASE r \in FailWith(c, HttpErr)
  BY <1>1, FailWithGood, FrameTypes
<1>2. CASE r \in KeepReading(c)
  BY <1>2, KeepReadingGood
<1>3. CASE r \in ThenSetStatus(ws_respond(c, HttpErr), {"CLOSE"})
  <2>1. \A q \in ws_respond(c, HttpErr) : Good(c, q)
    BY RespondGood, FrameTypes
  <2> QED BY <1>3, <2>1, SetStatuses, ThenSetStatusGood
<1>4. CASE r \in ThenSetStatus(RespondBoth(c, Switching, HttpErr), {"CLOSE"})
  <2>1. \A q \in RespondBoth(c, Switching, HttpErr) : Good(c, q)
    BY RespondBothGood, FrameTypes
  <2> QED BY <1>4, <2>1, SetStatuses, ThenSetStatusGood
<1>5. CASE r \in ThenSetStatus(ws_respond([c EXCEPT !.stage = "header"], Switching), {})
  <2> DEFINE d == [c EXCEPT !.stage = "header"]
  <2>1. ClientInv(d) /\ d.queued = c.queued /\ d.sock = c.sock
    BY SetStage DEF Stages
  <2>2. \A q \in ws_respond(d, Switching) : Good(c, q)
    BY <2>1, RespondGood, SameBefore, FrameTypes
  <2> QED BY <1>5, <2>2, SetStatuses, ThenSetStatusGood
<1> QED BY <1>1, <1>2, <1>3, <1>4, <1>5 DEF ws_get_handshake

\* ws_manage_payload_opcode.
LEMMA ManagePayloadGood ==
    ASSUME NEW c, ClientInv(c), NEW r \in ws_manage_payload_opcode(c)
    PROVE  Good(c, r)
<1> DEFINE d == [c EXCEPT !.stage = "header"]
<1>1. ClientInv(d) /\ d.queued = c.queued /\ d.sock = c.sock
  BY SetStage DEF Stages
<1>2. r \in Quietly(d) \/ r \in ws_respond(d, Pong)
      \/ r \in FailWith(d, CloseFrm) \/ r \in FailQuietly(d)
  BY DEF ws_manage_payload_opcode
<1>3. CASE r \in Quietly(d)
  BY <1>1, <1>3, QuietGood
<1>4. CASE r \in ws_respond(d, Pong) \/ r \in FailWith(d, CloseFrm) \/ r \in FailQuietly(d)
  <2>1. Good(d, r)
    BY <1>1, <1>4, RespondGood, FailWithGood, FailQuietlyGood, FrameTypes
  <2> QED BY <1>1, <2>1, SameBefore
<1> QED BY <1>2, <1>3, <1>4

\* ws_get_frm_payload.
LEMMA PayloadGood ==
    ASSUME NEW c, ClientInv(c), NEW r \in ws_get_frm_payload(c)
    PROVE  Good(c, r)
<1>1. CASE r \in FailQuietly(c)
  BY <1>1, FailQuietlyGood
<1>2. CASE r \in PayloadEnds(c)
  <2> DEFINE d == [c EXCEPT !.eof = TRUE]
  <2>1. ClientInv(d) /\ d.queued = c.queued /\ d.sock = c.sock
    BY SetEnd
  <2>2. \A q \in FailWith(d, CloseFrm) : Good(c, q)
    BY <2>1, FailWithGood, SameBefore, FrameTypes
  <2> QED BY <1>2, <2>2, SetStatuses, ThenSetStatusGood DEF PayloadEnds
<1>3. CASE r \in KeepReading(c) \/ r \in FailWith(c, CloseFrm)
           \/ r \in ws_manage_payload_opcode(c)
  BY <1>3, KeepReadingGood, FailWithGood, ManagePayloadGood, FrameTypes
<1> QED BY <1>1, <1>2, <1>3 DEF ws_get_frm_payload

\* ws_get_frm_header.
LEMMA HeaderGood ==
    ASSUME NEW c, ClientInv(c), NEW r \in ws_get_frm_header(c)
    PROVE  Good(c, r)
<1> DEFINE d == [ws_set_status(c, {}) EXCEPT !.stage = "payload"]
<1>1. CASE r \in FailWith(c, CloseFrm) \/ r \in KeepReading(c) \/ r \in FailQuietly(c)
  BY <1>1, FailWithGood, KeepReadingGood, FailQuietlyGood, FrameTypes
<1>2. CASE r \in ThenSetStatus(ws_respond(c, CloseFrm), {"ERR", "CLOSE"})
  <2>1. \A q \in ws_respond(c, CloseFrm) : Good(c, q)
    BY RespondGood, FrameTypes
  <2> QED BY <1>2, <2>1, SetStatuses, ThenSetStatusGood
<1>3. CASE r \in ws_get_frm_payload(d)
  <2>1. ClientInv(d) /\ d.queued = c.queued /\ d.sock = c.sock
    <3>1. LET e == ws_set_status(c, {})
          IN  ClientInv(e) /\ e.queued = c.queued /\ e.sock = c.sock
      BY SetStatuses, SetFields
    <3> QED BY <3>1, SetStage DEF Stages
  <2>2. Good(d, r)
    BY <1>3, <2>1, PayloadGood
  <2> QED BY <2>1, <2>2, SameBefore
<1> QED BY <1>1, <1>2, <1>3 DEF ws_get_frm_header

\* read_client_data, in every stage.
THEOREM ReadClientDataGood ==
    ASSUME NEW c, ClientInv(c), NEW r \in read_client_data(c)
    PROVE  Good(c, r)
<1>1. c.stage \in Stages
  BY DEF ClientInv, WSClient
<1>2. \/ c.stage = "handshake" /\ r \in ws_get_handshake(c)
      \/ c.stage = "header" /\ r \in ws_get_frm_header(c)
      \/ c.stage = "payload" /\ r \in ws_get_frm_payload(c)
  BY <1>1 DEF read_client_data, Stages
<1> QED BY <1>2, HandshakeGood, HeaderGood, PayloadGood

\* The write handler's part on the queue.
THEOREM SendBufferedGood ==
    ASSUME NEW c, ClientInv(c), NEW r \in SendBuffered(c)
    PROVE  Good(c, r)
<1>1. PICK q \in ws_respond(c, <<>>) :
        r = [q EXCEPT !.client.status = IF q.client.sockqueue THEN @ ELSE @ \ {"SENDING"}]
  BY DEF SendBuffered
<1>2. Good(c, q)
  BY RespondGood, FrameTypes
<1>3. q \in ResultType /\ ClientInv(q.client)
  BY <1>2 DEF Good
<1> DEFINE status == IF q.client.sockqueue THEN q.client.status ELSE q.client.status \ {"SENDING"}
<1>4. /\ r.client = [q.client EXCEPT !.status = status]
      /\ r = [client |-> r.client, log |-> q.log, sent |-> q.sent, lost |-> q.lost]
  BY <1>1, <1>3 DEF ResultType
<1>5. /\ ClientInv(r.client)
      /\ r.client.queued = q.client.queued
      /\ r.client.sock = q.client.sock
  <2>1. /\ r.client \in WSClient /\ r.client.sockqueue = q.client.sockqueue
        /\ r.client.queued = q.client.queued /\ r.client.sock = q.client.sock
        /\ r.client.status = status
    BY <1>3, <1>4 DEF ClientInv, WSClient, StatusBits
  <2>2. CASE q.client.sockqueue
    <3>1. Bounded(q.client) => Bounded(r.client)
      BY <2>1, <2>2 DEF Bounded
    <3> QED BY <1>3, <2>1, <2>2, <3>1 DEF ClientInv
  <2>3. CASE ~q.client.sockqueue
    BY <1>3, <2>1, <2>3 DEF ClientInv
  <2> QED BY <2>2, <2>3
<1> HIDE DEF status
<1>7. r.log = q.log /\ r.sent = q.sent /\ r.lost = q.lost
  BY <1>4
<1>6. r \in ResultType
  <2>1. q.log \in Seq(Bytes) /\ q.sent \in Seq(Bytes) /\ q.lost \in BOOLEAN
    BY <1>3 DEF ResultType
  <2>2. r.client \in WSClient
    BY <1>5 DEF ClientInv
  <2> QED BY <1>4, <2>1, <2>2 DEF ResultType
<1> QED BY <1>2, <1>5, <1>6, <1>7 DEF Good, Faithful

-----------------------------------------------------------------------------
(* The connection *)

StreamInv ==
    ~lost => \E rest \in Seq(Bytes) :
                /\ log = Cat(wire, rest)
                /\ (open /\ client.sock = "up") => rest = client.queued

ConnectionInv == TypeOK /\ ClientInv(client) /\ StreamInv

-----------------------------------------------------------------------------
\* What recording a good result does to the history.
LEMMA RecordKeepsStream ==
    ASSUME ConnectionInv, open, NEW r, Good(client, r), Record(r)
    PROVE  /\ log' \in Seq(Bytes) /\ wire' \in Seq(Bytes) /\ lost' \in BOOLEAN
           /\ ~lost' => \E rest \in Seq(Bytes) :
                           /\ log' = Cat(wire', rest)
                           /\ r.client.sock = "up" => rest = r.client.queued
<1>1. /\ log \in Seq(Bytes) /\ wire \in Seq(Bytes) /\ lost \in BOOLEAN
      /\ client \in WSClient
  BY DEF ConnectionInv, TypeOK
<1>2. /\ r.log \in Seq(Bytes) /\ r.sent \in Seq(Bytes) /\ r.lost \in BOOLEAN
      /\ r.client \in WSClient
  BY DEF Good, ResultType
<1>3. log' = Cat(log, r.log) /\ wire' = Cat(wire, r.sent) /\ lost' = (lost \/ r.lost)
  BY DEF Record, Cat
<1>4. log' \in Seq(Bytes) /\ wire' \in Seq(Bytes) /\ lost' \in BOOLEAN
  BY <1>1, <1>2, <1>3, CatType
<1>5. ASSUME ~lost'
      PROVE  \E rest \in Seq(Bytes) : /\ log' = Cat(wire', rest)
                                      /\ r.client.sock = "up" => rest = r.client.queued
  <2>1. ~lost /\ ~r.lost
    BY <1>3, <1>5
  <2>2. PICK rest \in Seq(Bytes) :
             log = Cat(wire, rest) /\ (client.sock = "up" => rest = client.queued)
    BY <2>1 DEF ConnectionInv, StreamInv
  <2>3. PICK rest2 \in Seq(Bytes) :
             /\ Cat(rest, r.log) = Cat(r.sent, rest2)
             /\ r.client.sock = "up" => rest2 = r.client.queued
    <3>1. CASE client.sock = "up"
      BY <2>1, <2>2, <3>1 DEF Good, Faithful
    <3>2. CASE client.sock = "gone"
      <4>1. r.sent = <<>> /\ r.client.sock = "gone"
        BY <3>2 DEF Good, Faithful
      <4>2. Cat(rest, r.log) \in Seq(Bytes)
        BY <1>2, CatType
      <4>3. Cat(<<>>, Cat(rest, r.log)) = Cat(rest, r.log)
        BY <4>2, CatEmpty
      <4> QED BY <4>1, <4>2, <4>3
    <3> QED BY <1>1, <3>1, <3>2 DEF WSClient
  <2>4. Cat(log, r.log) = Cat(Cat(wire, r.sent), rest2)
    <3>1. Cat(Cat(wire, rest), r.log) = Cat(wire, Cat(rest, r.log))
      BY <1>1, <1>2, CatAssociative
    <3>2. Cat(wire, Cat(r.sent, rest2)) = Cat(Cat(wire, r.sent), rest2)
      BY <1>1, <1>2, CatAssociative
    <3> QED BY <2>2, <2>3, <3>1, <3>2
  <2> QED BY <1>3, <2>3, <2>4
<1> QED BY <1>4, <1>5

\* Recording a good result and keeping its client keeps the invariant.
LEMMA KeepClient ==
    ASSUME ConnectionInv, open, NEW r, Good(client, r), Record(r),
           client' = r.client, open' \in BOOLEAN, closing' \in BOOLEAN,
           dirty' \in BOOLEAN, others' \in BOOLEAN
    PROVE  ConnectionInv'
<1>1. /\ log' \in Seq(Bytes) /\ wire' \in Seq(Bytes) /\ lost' \in BOOLEAN
      /\ ~lost' => \E rest \in Seq(Bytes) :
                      /\ log' = Cat(wire', rest)
                      /\ r.client.sock = "up" => rest = r.client.queued
  BY RecordKeepsStream
<1>2. ClientInv(r.client) /\ r.client \in WSClient
  BY DEF Good, ClientInv
<1>3. ClientInv(client')
  BY <1>2
<1>4. ClientInv(client)'
  BY <1>3 DEF ClientInv, Bounded
<1>5. TypeOK'
  BY <1>1, <1>2 DEF TypeOK
<1>6. StreamInv'
  BY <1>1 DEF StreamInv
<1> QED BY <1>4, <1>5, <1>6 DEF ConnectionInv

\* So does closing its client, whose queue may be cleared.
LEMMA CloseClient ==
    ASSUME ConnectionInv, open, NEW r, Good(client, r), Record(r),
           handle_tcp_close(r.client), dirty' \in BOOLEAN, others' \in BOOLEAN
    PROVE  ConnectionInv'
<1>1. /\ log' \in Seq(Bytes) /\ wire' \in Seq(Bytes) /\ lost' \in BOOLEAN
      /\ ~lost' => \E rest \in Seq(Bytes) : log' = Cat(wire', rest)
  BY RecordKeepsStream
<1>2. ClientInv(r.client)
  BY DEF Good
<1>3. /\ client' = ws_clear_queue(r.client) \/ client' = r.client
      /\ open' = FALSE /\ closing' = FALSE
  BY DEF handle_tcp_close
<1>4. ClientInv(client')
  BY <1>2, <1>3, ClearQueue
<1>5. ClientInv(client)'
  BY <1>4 DEF ClientInv, Bounded
<1>6. TypeOK'
  BY <1>1, <1>3, <1>4 DEF TypeOK, ClientInv
<1>7. StreamInv'
  BY <1>1, <1>3 DEF StreamInv
<1> QED BY <1>5, <1>6, <1>7 DEF ConnectionInv

\* The invariant is inductive.
LEMMA InitInv == Init => ConnectionInv
<1>1. <<>> \in Seq(Bytes) /\ Cat(<<>>, <<>>) = <<>>
  BY EmptySeq, CatEmpty
<1> SUFFICES ASSUME Init PROVE ConnectionInv
  OBVIOUS
<1>2. ClientInv(new_wsclient)
  BY <1>1 DEF ClientInv, WSClient, new_wsclient, Stages
<1>3. TypeOK /\ ClientInv(client)
  BY <1>1, <1>2 DEF Init, TypeOK, ClientInv
<1>4. new_wsclient.queued = <<>>
  BY DEF new_wsclient
<1>5. StreamInv
  BY <1>1, <1>4 DEF Init, StreamInv
<1> QED BY <1>3, <1>5 DEF ConnectionInv

LEMMA NextInv == ConnectionInv /\ [Next]_vars => ConnectionInv'
<1> SUFFICES ASSUME ConnectionInv, [Next]_vars PROVE ConnectionInv'
  OBVIOUS
<1>0. /\ ClientInv(client) /\ client \in WSClient /\ closing \in BOOLEAN /\ open \in BOOLEAN
      /\ dirty \in BOOLEAN /\ others \in BOOLEAN
  BY DEF ConnectionInv, TypeOK
<1>1. CASE handle_ws_reads
  <2>1. PICK r \in read_client_data(client) :
             /\ Record(r)
             /\ \/ "CLOSE" \in r.client.status /\ handle_ws_read_close(r.client)
                \/ "CLOSE" \notin r.client.status /\ Keep(r.client)
    BY <1>1 DEF handle_ws_reads
  <2>2. open /\ Good(client, r) /\ dirty' = dirty /\ others' = others
    BY <1>0, <1>1, <2>1, ReadClientDataGood DEF handle_ws_reads
  <2>3. CASE handle_tcp_close(r.client)
    BY <1>0, <2>1, <2>2, <2>3, CloseClient
  <2>4. CASE client' = r.client /\ open' = open /\ closing' \in BOOLEAN
    BY <1>0, <2>1, <2>2, <2>4, KeepClient
  <2> QED BY <1>0, <2>1, <2>3, <2>4 DEF handle_ws_read_close, Keep
<1>2. CASE handle_ws_writes
  <2>1. PICK r \in SendBuffered(client) : Written(r)
    BY <1>2 DEF handle_ws_writes
  <2>2. open /\ Good(client, r) /\ Record(r) /\ dirty' = dirty /\ others' = others
    BY <1>0, <1>2, <2>1, SendBufferedGood DEF handle_ws_writes, Written
  <2>3. CASE handle_tcp_close(r.client)
    BY <1>0, <2>2, <2>3, CloseClient
  <2>4. CASE Keep(r.client)
    BY <1>0, <2>2, <2>4, KeepClient DEF Keep
  <2> QED BY <2>1, <2>3, <2>4 DEF Written
<1>3. CASE check_dirty_pixels
  <2>1. PICK r \in ws_respond(client, Dirty) : Record(r) /\ Keep(r.client)
    BY <1>3 DEF check_dirty_pixels
  <2>2. open /\ Good(client, r) /\ dirty' = FALSE /\ others' = others
    BY <1>0, <1>3, <2>1, RespondGood, FrameTypes DEF check_dirty_pixels
  <2> QED BY <1>0, <2>1, <2>2, KeepClient DEF Keep
<1>4. CASE BuddyGone
  <2>1. /\ client' = ws_clear_queue(client) \/ client' = client
        /\ open' = FALSE /\ closing' = FALSE
        /\ UNCHANGED <<dirty, others, log, wire, lost>>
    BY <1>4 DEF BuddyGone, handle_tcp_close
  <2>2. ClientInv(client')
    BY <1>0, <2>1, ClearQueue
  <2>3. ClientInv(client)'
    BY <2>2 DEF ClientInv, Bounded
  <2>4. TypeOK'
    BY <2>1, <2>2 DEF TypeOK, ClientInv, ConnectionInv
  <2>5. StreamInv'
    BY <2>1 DEF ConnectionInv, StreamInv
  <2> QED BY <2>3, <2>4, <2>5 DEF ConnectionInv
<1>5. CASE OtherClient \/ handle_us_reads
  BY <1>0, <1>5 DEF OtherClient, handle_us_reads, ConnectionInv, TypeOK, ClientInv, Bounded, StreamInv
<1>6. CASE PeerCloses
  <2>1. client' = [client EXCEPT !.eof = TRUE] /\ UNCHANGED <<open, closing, dirty, others, log, wire, lost>>
    BY <1>6 DEF PeerCloses
  <2>2. ClientInv(client') /\ client'.queued = client.queued /\ client'.sock = client.sock
    BY <1>0, <2>1, SetEnd
  <2>3. ClientInv(client)'
    BY <2>2 DEF ClientInv, Bounded
  <2>4. TypeOK'
    BY <2>1, <2>2 DEF TypeOK, ClientInv, ConnectionInv
  <2>5. StreamInv'
    BY <2>1, <2>2 DEF ConnectionInv, StreamInv
  <2> QED BY <2>3, <2>4, <2>5 DEF ConnectionInv
<1>7. CASE UNCHANGED vars
  BY <1>7 DEF vars, ConnectionInv, TypeOK, ClientInv, Bounded, StreamInv
<1> QED BY <1>1, <1>2, <1>3, <1>4, <1>5, <1>6, <1>7 DEF Next

LEMMA AlwaysInv == Spec => []ConnectionInv
BY InitInv, NextInv, PTL DEF Spec

-----------------------------------------------------------------------------
\* Every variable keeps its type, whatever send(), recv() and realloc() answer.
THEOREM TypeCorrect == Spec => []TypeOK
<1>1. ConnectionInv => TypeOK
  BY DEF ConnectionInv
<1> QED BY <1>1, AlwaysInv, PTL

\* While memory lasts and the connection is up, the bytes taken by the kernel and
\* the bytes queued are together the bytes the server undertook to send.
THEOREM NoByteLost == Spec => []NothingLost
<1>1. ConnectionInv => NothingLost
  BY DEF ConnectionInv, StreamInv, NothingLost, Cat
<1> QED BY <1>1, AlwaysInv, PTL

\* A queue that the loop is sending passes the threshold by less than one frame,
\* whatever the frames, and the throttle goes with the queue (ws_realloc_send_buf,
\* ws_respond, ws_clear_queue).
THEOREM ThrottleBoundsQueue == Spec => []ThrottleLimits
<1>1. ConnectionInv => ThrottleLimits
  BY DEF ConnectionInv, ClientInv, Bounded, ThrottleLimits, Sending, Limited
<1> QED BY <1>1, AlwaysInv, PTL

-----------------------------------------------------------------------------
\* A stream is a prefix of its extensions.
LEMMA PrefixOfCat ==
    ASSUME NEW s \in Seq(Bytes), NEW t \in Seq(Bytes)
    PROVE  IsPrefix(s, Cat(s, t))
<1>1. /\ Len(Cat(s, t)) = Len(s) + Len(t) /\ Len(s) \in Nat /\ Len(t) \in Nat
      /\ Cat(s, t) \in Seq(Bytes)
  BY CatType, LenProperties
<1>2. SubSeq(s, 1, Len(s)) = s
  BY SubSeqFull
<1>3. SubSeq(Cat(s, t), 1, Len(s)) = s
  BY <1>1, ConcatProperties, SubSeqProperties DEF Cat
<1> QED BY <1>1, <1>2, <1>3 DEF IsPrefix

LEMMA SamePrefix == ASSUME NEW s, NEW t PROVE Stream!IsPrefix(s, t) <=> IsPrefix(s, t)
BY DEF IsPrefix, Stream!IsPrefix

\* The stream of a connection implements ByteStream.
THEOREM RefinesByteStream == Spec => ImplementsStream
<1>1. Init => Stream!Init
  BY DEF Init, Stream!Init
<1>2. ConnectionInv /\ ConnectionInv' /\ [Next]_vars => [Stream!Next]_(Stream!vars)
  <2> SUFFICES ASSUME ConnectionInv, ConnectionInv', [Next]_vars
               PROVE  [Stream!Next]_(Stream!vars)
    OBVIOUS
  <2>0. /\ log \in Seq(Bytes) /\ wire \in Seq(Bytes) /\ lost \in BOOLEAN
        /\ log' \in Seq(Bytes) /\ wire' \in Seq(Bytes) /\ lost' \in BOOLEAN
        /\ open' \in BOOLEAN /\ ClientInv(client)
    BY DEF ConnectionInv, TypeOK
  <2>1. ~lost' => IsPrefix(wire', log')
    BY <2>0, PrefixOfCat DEF ConnectionInv, StreamInv
  <2>2. ASSUME NEW r, Good(client, r), Record(r), open
        PROVE  Stream!Next
    <3>1. log' = Cat(log, r.log) /\ wire' = Cat(wire, r.sent) /\ lost' = (lost \/ r.lost)
      BY <2>2 DEF Record, Cat
    <3>2. r.log \in Seq(Bytes) /\ r.sent \in Seq(Bytes)
      BY <2>2 DEF Good, ResultType
    <3>3. IsPrefix(log, log') /\ IsPrefix(wire, wire')
      BY <2>0, <3>1, <3>2, PrefixOfCat
    <3> QED BY <2>0, <2>1, <2>2, <3>1, <3>3, SamePrefix DEF Stream!Next, Stream!Transfer
  <2>3. CASE handle_ws_reads
    BY <2>0, <2>2, <2>3, ReadClientDataGood DEF handle_ws_reads
  <2>4. CASE handle_ws_writes
    BY <2>0, <2>2, <2>4, SendBufferedGood DEF handle_ws_writes, Written
  <2>5. CASE check_dirty_pixels
    BY <2>0, <2>2, <2>5, RespondGood, FrameTypes DEF check_dirty_pixels
  <2>6. CASE BuddyGone
    <3>1. open /\ UNCHANGED <<log, wire, lost>>
      BY <2>6 DEF BuddyGone
    <3>2. IsPrefix(log, log) /\ IsPrefix(wire, wire)
      BY <2>0, SubSeqFull, LenProperties DEF IsPrefix
    <3> QED BY <2>0, <2>1, <3>1, <3>2, SamePrefix DEF Stream!Next, Stream!Transfer
  <2>7. CASE OtherClient \/ handle_us_reads \/ PeerCloses \/ UNCHANGED vars
    BY <2>7 DEF OtherClient, handle_us_reads, PeerCloses, vars, Stream!vars
  <2> QED BY <2>3, <2>4, <2>5, <2>6, <2>7 DEF Next
<1> QED BY <1>1, <1>2, AlwaysInv, PTL DEF Spec, ImplementsStream, Stream!Spec

-----------------------------------------------------------------------------
\* The write side only takes SENDING from a client whose queue has gone out, or whose
\* socket is gone.
LEMMA EndOfSending ==
    ASSUME NEW c, ClientInv(c), "SENDING" \in c.status,
           NEW r \in SendBuffered(c), "SENDING" \notin r.client.status
    PROVE  r.client.sock = "gone" \/ r.client.queued = <<>>
<1>1. PICK q \in ws_respond(c, <<>>) :
        r = [q EXCEPT !.client.status = IF q.client.sockqueue THEN @ ELSE @ \ {"SENDING"}]
  BY DEF SendBuffered
<1>2. q \in ResultType /\ ClientInv(q.client) /\ c \in WSClient
  BY RespondGood, FrameTypes DEF Good, ClientInv
<1>3. /\ r.client.sock = q.client.sock /\ r.client.queued = q.client.queued
      /\ q.client.sockqueue => r.client.status = q.client.status
  BY <1>1, <1>2 DEF ResultType, WSClient
<1>4. CASE ~q.client.sockqueue
  BY <1>2, <1>3, <1>4 DEF ClientInv
<1>5. CASE q.client.sockqueue
  <2>1. CASE c.sockqueue
    <3>1. q \in ws_respond_cache(c)
      BY <2>1 DEF ws_respond
    <3>2. CASE \E n \in SendCounts(c, c.queued) :
                 q = Result(Chopped(c, n), <<>>, SubSeq(c.queued, 1, n))
      <4>1. PICK n \in SendCounts(c, c.queued) : q.client = Chopped(c, n)
        BY <3>2 DEF Result
      <4>2. q.client.status = c.status \/ ~q.client.sockqueue
        BY <1>2, <4>1 DEF Chopped, ws_clear_queue, WSClient
      <4> QED BY <1>3, <1>5, <4>2
    <3>3. CASE \E e \in SendErrors(c, c.queued) :
                 q = Result(CASE e = "EPIPE" -> ws_set_status(Failed(c, e), {"ERR", "CLOSE"})
                              [] e = "EAGAIN" -> c
                              [] e = "ECONNRESET" -> ws_clear_queue(Failed(c, e)), <<>>, <<>>)
      <4>1. PICK e \in SendErrors(c, c.queued) :
                 q = Result(CASE e = "EPIPE" -> ws_set_status(Failed(c, e), {"ERR", "CLOSE"})
                              [] e = "EAGAIN" -> c
                              [] e = "ECONNRESET" -> ws_clear_queue(Failed(c, e)), <<>>, <<>>)
        BY <3>3
      <4>2. CASE e = "EPIPE"
        <5>1. q.client = ws_set_status(Failed(c, e), {"ERR", "CLOSE"})
          BY <4>1, <4>2 DEF Result
        <5> QED BY <1>2, <1>3, <4>2, <5>1 DEF Failed, ws_set_status, WSClient
      <4>3. CASE e = "EAGAIN"
        <5>1. q.client = c
          BY <4>1, <4>3 DEF Result
        <5> QED BY <1>3, <1>5, <5>1
      <4>4. CASE e = "ECONNRESET"
        <5>1. q.client = ws_clear_queue(Failed(c, e))
          BY <4>1, <4>4 DEF Result
        <5> QED BY <1>2, <1>3, <4>4, <5>1 DEF Failed, ws_clear_queue, WSClient
      <4> QED BY <4>2, <4>3, <4>4 DEF SendErrors
    <3> QED BY <3>1, <3>2, <3>3 DEF ws_respond_cache
  <2>2. CASE ~c.sockqueue
    <3>1. q \in ws_respond_data(c, <<>>)
      BY <2>2 DEF ws_respond
    <3>2. CASE \E b, d, n : q.client = ws_queue_sockbuf(d, b, n) /\ d \in WSClient
      BY <1>3, <1>5, <3>2 DEF ws_queue_sockbuf, WSClient, StatusBits
    <3>3. CASE q.client = c
      BY <1>5, <2>2, <3>3
    <3>4. CASE q.client = ws_set_status(Failed(c, "EPIPE"), {"ERR", "CLOSE"})
      BY <1>2, <1>3, <3>4 DEF Failed, ws_set_status, WSClient
    <3>5. \/ \E n \in SendCounts(c, <<>>) :
               q.client = IF n < Len(<<>>) THEN ws_queue_sockbuf(c, <<>>, n) ELSE c
          \/ \E e \in SendErrors(c, <<>>) :
               q.client = IF e = "EPIPE" THEN ws_set_status(Failed(c, e), {"ERR", "CLOSE"})
                          ELSE ws_queue_sockbuf(Failed(c, e), <<>>, 0)
      BY <3>1 DEF ws_respond_data, Result
    <3>6. \A e \in SendErrors(c, <<>>) : Failed(c, e) \in WSClient
      BY <1>2 DEF Failed, WSClient
    <3> QED BY <1>2, <3>2, <3>3, <3>4, <3>5, <3>6
  <2> QED BY <1>2, <2>1, <2>2 DEF WSClient
<1> QED BY <1>2, <1>4, <1>5 DEF ResultType, WSClient

\* A close from the write side comes after the whole queue went out, unless the
\* connection broke or memory ran out (handle_ws_writes, handle_write_close).
THEOREM WriteCloseFlushes == Spec => FlushedBeforeWriteClose
<1>1. ConnectionInv /\ [Next]_vars =>
        [(handle_ws_writes /\ ~open') => (wire' = log' \/ lost' \/ client'.sock = "gone")]_vars
  <2> SUFFICES ASSUME ConnectionInv, handle_ws_writes, ~open', ~lost'
               PROVE  wire' = log' \/ client'.sock = "gone"
    OBVIOUS
  <2>1. open /\ "SENDING" \in client.status /\ ClientInv(client)
    BY DEF handle_ws_writes, ConnectionInv
  <2>2. PICK r \in SendBuffered(client) : Record(r) /\ Written(r)
    BY DEF handle_ws_writes, Written
  <2>3. Good(client, r)
    BY <2>1, SendBufferedGood
  <2>4. ToClose(r.client) /\ handle_tcp_close(r.client)
    BY <2>1, <2>2 DEF Written, Keep
  <2>5. r.client.sock = "gone" \/ r.client.queued = <<>>
    BY <2>1, <2>4, EndOfSending DEF ToClose
  <2>6. client'.sock = r.client.sock
    <3>1. ClientInv(r.client)
      BY <2>3 DEF Good
    <3> QED BY <2>4, <3>1, ClearQueue DEF handle_tcp_close
  <2>7. /\ log' \in Seq(Bytes) /\ wire' \in Seq(Bytes)
        /\ \E rest \in Seq(Bytes) : /\ log' = Cat(wire', rest)
                                    /\ r.client.sock = "up" => rest = r.client.queued
    BY <2>1, <2>2, <2>3, RecordKeepsStream
  <2>8. CASE r.client.sock # "gone"
    <3>1. r.client.sock = "up" /\ r.client.queued = <<>>
      BY <2>3, <2>5, <2>8 DEF Good, ClientInv, WSClient
    <3>2. log' = Cat(wire', <<>>)
      BY <2>7, <3>1
    <3> QED BY <2>7, <3>2, CatEmpty
  <2> QED BY <2>6, <2>8
<1> QED BY <1>1, AlwaysInv, PTL DEF Spec, FlushedBeforeWriteClose

-----------------------------------------------------------------------------
(* The functions of WsClient leave the two status bits that the select     *)
(* loop looks at as StatusEffects says: what EventLoop takes for the       *)
(* handlers' effects covers what they do, for all frames and thresholds.   *)

LEMMA SetStatus ==
    ASSUME NEW c, ClientInv(c), NEW status
    PROVE  ws_set_status(c, status).status = status
BY DEF ws_set_status, ClientInv, WSClient

LEMMA ThenSetStatusSets ==
    ASSUME NEW c, NEW R, \A r \in R : Good(c, r), NEW status, NEW q \in ThenSetStatus(R, status)
    PROVE  q.client.status = status
<1>1. PICK r \in R : q = [r EXCEPT !.client = ws_set_status(r.client, status)]
  BY DEF ThenSetStatus
<1>2. Good(c, r)
  OBVIOUS
<1>3. q.client = ws_set_status(r.client, status)
  BY <1>1, <1>2 DEF Good, ResultType
<1> QED BY <1>2, <1>3, SetStatus DEF Good

\* A cleared queue ends a close that waited for it, and changes nothing else.
LEMMA ClearQueueSeen ==
    ASSUME NEW c, ClientInv(c)
    PROVE  Seen(ws_clear_queue(c).status) \in {Seen(c.status), {"CLOSE"}}
<1> DEFINE s == c.status \ {"THROTTLING"}
<1>1. Seen(s) = Seen(c.status) /\ Seen({"CLOSE"}) = {"CLOSE"}
  BY DEF Seen, LoopBits
<1>2. ws_clear_queue(c).status \in {c.status, s, {"CLOSE"}}
  BY DEF ws_clear_queue, ClientInv, WSClient
<1> HIDE DEF s
<1> QED BY <1>1, <1>2

\* ws_respond: the bits stay, or SENDING joins them, or CLOSE is all there is.
LEMMA RespondSeen ==
    ASSUME NEW c, ClientInv(c), NEW buf, NEW r \in ws_respond(c, buf)
    PROVE  Seen(r.client.status) \in SendEffects(Seen(c.status))
<1> DEFINE Fine(status) == Seen(status) \in SendEffects(Seen(c.status))
<1>1. Fine(c.status) /\ Fine({"ERR", "CLOSE"}) /\ Fine({"CLOSE"})
      /\ Fine(c.status \cup {"SENDING"}) /\ Fine(c.status \cup {"THROTTLING"})
  BY DEF Seen, LoopBits, SendEffects
<1>2. \A e : /\ ClientInv(Failed(c, e))
             /\ Failed(c, e).status = c.status
  BY FailedSend DEF Failed, ClientInv, WSClient
<1>3. \A d : ClientInv(d) /\ d.status = c.status => Fine(ws_clear_queue(d).status)
  BY <1>1, ClearQueueSeen DEF SendEffects
<1>4. \A d, status : ClientInv(d) => ws_set_status(d, status).status = status
  BY SetStatus
<1>5. \A d, n : ClientInv(d) /\ d.status = c.status
                  => ws_queue_sockbuf(d, buf, n).status = c.status \cup {"SENDING"}
  BY DEF ws_queue_sockbuf, ClientInv, WSClient
<1>6. CASE r \in ws_respond_data(c, buf)
  <2>1. r.client.status \in {c.status, c.status \cup {"SENDING"}, {"ERR", "CLOSE"}}
    BY <1>2, <1>4, <1>5, <1>6 DEF ws_respond_data, Result
  <2> QED BY <1>1, <2>1
<1>7. CASE r \in ws_realloc_send_buf(c, buf)
  <2>1. ClientInv(ws_clear_queue(c))
    BY ClearQueue
  <2>2. r.client.status \in {c.status, c.status \cup {"THROTTLING"}, {"ERR", "CLOSE"}}
    <3> DEFINE queue == c.queued \o buf
               grown == [c EXCEPT !.queued = queue,
                                  !.status = IF Len(queue) >= Thld THEN @ \cup {"THROTTLING"} ELSE @]
    <3>1. \/ r.client = grown
          \/ r.client = ws_set_status(ws_clear_queue(c), {"ERR", "CLOSE"})
      BY <1>7 DEF ws_realloc_send_buf, Result
    <3>2. grown.status \in {c.status, c.status \cup {"THROTTLING"}}
      BY DEF ClientInv, WSClient
    <3> QED BY <1>4, <2>1, <3>1, <3>2
  <2> QED BY <1>1, <2>2
<1>8. CASE r \in ws_respond_cache(c)
  <2>1. \A n : Fine(Chopped(c, n).status)
    <3>1. \A q : [c EXCEPT !.queued = q].status = c.status
      BY DEF ClientInv, WSClient
    <3> QED BY <1>1, <1>3, <3>1 DEF Chopped
  <2>2. /\ Fine(ws_set_status(Failed(c, "EPIPE"), {"ERR", "CLOSE"}).status)
        /\ Fine(ws_clear_queue(Failed(c, "ECONNRESET")).status)
    <3> HIDE DEF Fine
    <3> QED BY <1>1, <1>2, <1>3, <1>4
  <2>3. \/ \E n : r.client = Chopped(c, n)
        \/ r.client = c
        \/ r.client = ws_set_status(Failed(c, "EPIPE"), {"ERR", "CLOSE"})
        \/ r.client = ws_clear_queue(Failed(c, "ECONNRESET"))
    BY <1>8 DEF ws_respond_cache, Result, SendErrors
  <2> HIDE DEF Fine
  <2>4. Fine(r.client.status)
    BY <1>1, <2>1, <2>2, <2>3
  <2> QED BY <2>4 DEF Fine
<1> QED BY <1>6, <1>7, <1>8 DEF ws_respond

-----------------------------------------------------------------------------
\* The end of a connection by error, with or without a frame.
LEMMA FailSeen ==
    ASSUME NEW c, ClientInv(c), NEW buf, NEW r \in FailWith(c, buf) \cup FailQuietly(c)
    PROVE  Seen(r.client.status) \in {{"CLOSE"}, {"CLOSE", "SENDING"}}
<1> DEFINE d == ws_set_status(c, {"ERR", "CLOSE"})
<1>1. ClientInv(d) /\ d.status = {"ERR", "CLOSE"}
  BY SetStatuses, SetFields, SetStatus
<1>2. Seen(d.status) = {"CLOSE"}
  BY <1>1 DEF Seen, LoopBits
<1>3. r \in ws_respond(d, buf) \/ r.client = d
  BY DEF FailWith, FailQuietly, Quietly, Result
<1>4. ASSUME r \in ws_respond(d, buf)
      PROVE  Seen(r.client.status) \in SendEffects(Seen(d.status))
  <2> HIDE DEF d
  <2> QED BY <1>1, <1>4, RespondSeen
<1> QED BY <1>2, <1>3, <1>4 DEF SendEffects

\* Waiting for more input leaves neither bit.
LEMMA KeepReadingSeen ==
    ASSUME NEW c, ClientInv(c), NEW r \in KeepReading(c)
    PROVE  Seen(r.client.status) = {}
BY SetStatus DEF KeepReading, Quietly, Result, Seen, LoopBits

LEMMA HandshakeSeen ==
    ASSUME NEW c, ClientInv(c), NEW r \in ws_get_handshake(c)
    PROVE  Seen(r.client.status) \in HandshakeEffects
<1> DEFINE d == [c EXCEPT !.stage = "header"]
<1>1. CASE r \in FailWith(c, HttpErr)
  BY <1>1, FailSeen DEF HandshakeEffects
<1>2. CASE r \in KeepReading(c)
  BY <1>2, KeepReadingSeen DEF HandshakeEffects
<1>3. CASE \/ r \in ThenSetStatus(ws_respond(c, HttpErr), {"CLOSE"})
           \/ r \in ThenSetStatus(RespondBoth(c, Switching, HttpErr), {"CLOSE"})
  <2>1. /\ \A q \in ws_respond(c, HttpErr) : Good(c, q)
        /\ \A q \in RespondBoth(c, Switching, HttpErr) : Good(c, q)
    BY RespondGood, RespondBothGood, FrameTypes
  <2>2. r.client.status = {"CLOSE"}
    BY <1>3, <2>1, ThenSetStatusSets
  <2> QED BY <2>2 DEF Seen, LoopBits, HandshakeEffects
<1>4. CASE r \in ThenSetStatus(ws_respond(d, Switching), {})
  <2>1. ClientInv(d)
    BY SetStage DEF Stages
  <2>2. \A q \in ws_respond(d, Switching) : Good(d, q)
    BY <2>1, RespondGood, FrameTypes
  <2>3. r.client.status = {}
    BY <1>4, <2>2, ThenSetStatusSets
  <2> QED BY <2>3 DEF Seen, HandshakeEffects
<1> QED BY <1>1, <1>2, <1>3, <1>4 DEF ws_get_handshake

LEMMA OpcodeSeen ==
    ASSUME NEW c, ClientInv(c), NEW r \in ws_manage_payload_opcode(c)
    PROVE  Seen(r.client.status) \in FrameEffects(Seen(c.status))
<1> DEFINE d == [c EXCEPT !.stage = "header"]
<1>1. ClientInv(d) /\ d.status = c.status
  BY SetStage DEF Stages, ClientInv, WSClient
<1>2. r \in Quietly(d) \/ r \in ws_respond(d, Pong) \/ r \in FailWith(d, CloseFrm) \cup FailQuietly(d)
  BY DEF ws_manage_payload_opcode
<1> HIDE DEF d
<1>3. CASE r \in Quietly(d)
  BY <1>1, <1>3 DEF Quietly, Result, FrameEffects
<1>4. CASE r \in ws_respond(d, Pong)
  <2>1. Seen(r.client.status) \in SendEffects(Seen(c.status))
    BY <1>1, <1>4, RespondSeen
  <2>2. SendEffects(Seen(c.status)) \subseteq FrameEffects(Seen(c.status))
    BY DEF SendEffects, FrameEffects, Seen, LoopBits
  <2> QED BY <2>1, <2>2
<1>5. CASE r \in FailWith(d, CloseFrm) \cup FailQuietly(d)
  BY <1>1, <1>5, FailSeen DEF FrameEffects
<1> QED BY <1>2, <1>3, <1>4, <1>5

LEMMA PayloadSeen ==
    ASSUME NEW c, ClientInv(c), NEW r \in ws_get_frm_payload(c)
    PROVE  Seen(r.client.status) \in FrameEffects(Seen(c.status))
<1>1. CASE r \in FailQuietly(c) \cup FailWith(c, CloseFrm)
  BY <1>1, FailSeen DEF FrameEffects
<1>2. CASE r \in PayloadEnds(c)
  <2> DEFINE d == [c EXCEPT !.eof = TRUE]
  <2>1. ClientInv(d)
    BY SetEnd
  <2>2. \A q \in FailWith(d, CloseFrm) : Good(d, q)
    BY <2>1, FailWithGood, FrameTypes
  <2>3. r.client.status = {"READING"}
    BY <1>2, <2>2, ThenSetStatusSets DEF PayloadEnds
  <2> QED BY <2>3 DEF Seen, LoopBits, FrameEffects
<1>3. CASE r \in KeepReading(c)
  BY <1>3, KeepReadingSeen DEF FrameEffects
<1>4. CASE r \in ws_manage_payload_opcode(c)
  BY <1>4, OpcodeSeen
<1> QED BY <1>1, <1>2, <1>3, <1>4 DEF ws_get_frm_payload

LEMMA HeaderSeen ==
    ASSUME NEW c, ClientInv(c), NEW r \in ws_get_frm_header(c)
    PROVE  Seen(r.client.status) \in FrameEffects(Seen(c.status))
<1> DEFINE d == [ws_set_status(c, {}) EXCEPT !.stage = "payload"]
<1>1. CASE r \in FailWith(c, CloseFrm) \cup FailQuietly(c)
  BY <1>1, FailSeen DEF FrameEffects
<1>2. CASE r \in KeepReading(c)
  BY <1>2, KeepReadingSeen DEF FrameEffects
<1>3. CASE r \in ThenSetStatus(ws_respond(c, CloseFrm), {"ERR", "CLOSE"})
  <2>1. \A q \in ws_respond(c, CloseFrm) : Good(c, q)
    BY RespondGood, FrameTypes
  <2>2. r.client.status = {"ERR", "CLOSE"}
    BY <1>3, <2>1, ThenSetStatusSets
  <2> QED BY <2>2 DEF Seen, LoopBits, FrameEffects
<1>4. CASE r \in ws_get_frm_payload(d)
  <2>1. ClientInv(ws_set_status(c, {})) /\ ws_set_status(c, {}).status = {}
    BY SetStatuses, SetFields, SetStatus
  <2>2. ClientInv(d) /\ d.status = {}
    BY <2>1, SetStage DEF Stages, ClientInv, WSClient
  <2> HIDE DEF d
  <2>3. Seen(r.client.status) \in FrameEffects(Seen({}))
    BY <1>4, <2>2, PayloadSeen
  <2> QED BY <2>3 DEF FrameEffects, Seen
<1> QED BY <1>1, <1>2, <1>3, <1>4 DEF ws_get_frm_header

\* handle_ws_writes: SENDING goes with the queue.
LEMMA SendBufferedSeen ==
    ASSUME NEW c, ClientInv(c), "SENDING" \in Seen(c.status), NEW r \in SendBuffered(c)
    PROVE  Seen(r.client.status) \in WriteEffects(Seen(c.status))
<1>1. PICK q \in ws_respond(c, <<>>) :
          r = [q EXCEPT !.client.status = IF q.client.sockqueue THEN @ ELSE @ \ {"SENDING"}]
  BY DEF SendBuffered
<1>2. Seen(q.client.status) \in SendEffects(Seen(c.status))
  BY RespondSeen
<1>3. q \in ResultType /\ q.client \in WSClient
  <2>1. Good(c, q)
    BY RespondGood, FrameTypes
  <2> QED BY <2>1 DEF Good, ResultType
<1> DEFINE status == IF q.client.sockqueue THEN q.client.status ELSE q.client.status \ {"SENDING"}
<1>4. r.client.status \in {q.client.status, q.client.status \ {"SENDING"}}
  <2>1. r.client = [q.client EXCEPT !.status = status]
    BY <1>1, <1>3 DEF ResultType
  <2> QED BY <1>3, <2>1 DEF WSClient
<1> HIDE DEF status
<1>5. Seen(r.client.status) \in {Seen(q.client.status), Seen(q.client.status) \ {"SENDING"}}
  BY <1>4 DEF Seen
<1> QED BY <1>2, <1>5 DEF SendEffects, WriteEffects

-----------------------------------------------------------------------------
\* Whatever has happened on a connection, its next read, write or announcement of
\* pixels leaves the loop's two bits as StatusEffects says.
THEOREM EffectsHold == Spec => []EffectsCovered
<1>1. ConnectionInv => EffectsCovered
  <2> SUFFICES ASSUME ConnectionInv PROVE EffectsCovered
    OBVIOUS
  <2>1. ClientInv(client)
    BY DEF ConnectionInv
  <2>2. \A r \in read_client_data(client) : Seen(r.client.status) \in
           IF client.stage = "handshake" THEN HandshakeEffects ELSE FrameEffects(Seen(client.status))
    BY <2>1, HandshakeSeen, HeaderSeen, PayloadSeen DEF read_client_data, ClientInv, WSClient, Stages
  <2>3. "SENDING" \in Seen(client.status) =>
           \A r \in SendBuffered(client) : Seen(r.client.status) \in WriteEffects(Seen(client.status))
    BY <2>1, SendBufferedSeen
  <2>4. \A r \in ws_respond(client, Dirty) : Seen(r.client.status) \in SendEffects(Seen(client.status))
    BY <2>1, RespondSeen
  <2> QED BY <2>2, <2>3, <2>4 DEF EffectsCovered
<1>2. Spec => []ConnectionInv
  BY AlwaysInv
<1> QED BY <1>1, <1>2, PTL
=============================================================================
