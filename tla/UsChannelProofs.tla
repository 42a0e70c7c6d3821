-------------------------- MODULE UsChannelProofs --------------------------
(***************************************************************************)
(* TypeOK, HandledAsSent, EventsWhole, NoCrash and GesturesMakeSense of    *)
(* UsChannel, for frames of any size, any number of them, and sockets that *)
(* hold any number of structs.                                             *)
(*                                                                         *)
(* What the child has written and the server has not read is a line of     *)
(* units in which each follows the one before it; where the server stands  *)
(* in the frame it reads is where the line begins.                         *)
(***************************************************************************)
EXTENDS UsChannel, SequenceTheorems, TLAPS

\* What is on its way to the server: in the socket, and in the child's hands.
Waiting == Len(pipe) + Len(pending)
Coming(k) == IF k <= Len(pipe) THEN pipe[k] ELSE pending[k - Len(pipe)]

Size(f) == 4 + 2 * sent[f].rows

\* The next unit of the frame, or the first one of the next frame.
Follows(u, v) ==
    IF u.at < Size(u.frame) THEN v.frame = u.frame /\ v.at = u.at + 1
    ELSE v.frame = u.frame + 1 /\ v.at = 1

Within(u) == u.frame \in 1 .. Len(sent) /\ u.at <= Size(u.frame)
IsLast(u) == u.frame = Len(sent) /\ u.at = Size(Len(sent))

Line ==
    /\ \A k \in 1 .. Waiting : Coming(k) \in Unit /\ Within(Coming(k))
    /\ \A k \in 1 .. Waiting - 1 : Follows(Coming(k), Coming(k + 1))
    /\ kid /\ Waiting > 0 => IsLast(Coming(Waiting))

\* A description first, and rectangles after it.
Frames ==
    /\ Len(sent) <= MaxFrames
    /\ \A f \in 1 .. Len(sent) :
          IF f = 1 THEN sent[f].type = "VFBINFO" /\ sent[f].rows = 0 ELSE sent[f].type = "DIRTYPIXELS"

Phase ==
    /\ pc = "row" => rows > 0
    /\ pc = "event" <=> writing # <<>>
    /\ ~kid => pending = <<>>
    /\ ~fd => pc = "select"

\* The frame that the server reads next, or goes on with.
current == Len(handled) + 1

\* Where the server stands in it, if every read() was whole.
Place ==
    /\ pc \in {"select", "event", "greeting"} => buffer = <<>>
    /\ ~fd \/ pc \in {"greeting", "description"} <=> handled = <<>>
    /\ pc \in {"description", "rectangle"} => Len(buffer) = 2
    /\ pc = "row" => /\ current <= Len(sent)
                     /\ rows <= sent[current].rows
                     /\ Len(buffer) = 4 + 2 * (sent[current].rows - rows)
    /\ ~wild
    /\ handled # <<>> => (shadow_fb = "fits" <=> sent[1].supported)

InStep ==
    /\ Waiting > 0 => Coming(1).frame = current /\ Coming(1).at = Len(buffer) + 1
    /\ kid /\ Waiting = 0 => Len(handled) = Len(sent) /\ buffer = <<>>
    /\ Len(handled) <= Len(sent)
    /\ \A k \in 1 .. Len(buffer) : buffer[k] = [frame |-> current, at |-> k]
    /\ \A f \in 1 .. Len(handled) : handled[f] = Units(f, sent[f])

Inv == /\ TypeOK /\ Phase /\ Frames /\ Line
       /\ ~mishap /\ pc \notin {"closed", "crashed"} => Place
       /\ ~mishap => InStep
       /\ EventsWhole /\ NoCrash

-----------------------------------------------------------------------------
(* Sequences *)

\* A part of a sequence; its bounds are terms of their own, as the provers like them.
LEMMA Part ==
    ASSUME NEW S, NEW s \in Seq(S), NEW n \in Nat, NEW m \in Nat, m + n <= Len(s),
           NEW first, first = m + 1, NEW last, last = m + n, NEW part, part = SubSeq(s, first, last)
    PROVE  /\ part \in Seq(S) /\ Len(part) = n
           /\ \A k \in 1 .. n : part[k] = s[k + m]
  <1>1. Len(s) \in Nat /\ \A k \in 1 .. Len(s) : s[k] \in S
    BY LenProperties, ElementOfSeq
  <1>2. first \in Int /\ last \in Int /\ \A k \in first .. last : s[k] \in S
    BY <1>1
  <1>3. /\ last - first + 1 = n /\ (first <= last => n = last - first + 1)
        /\ ~(first <= last) => n = 0
        /\ \A k \in 1 .. n : first + k - 1 = k + m
    OBVIOUS
  <1>4. /\ SubSeq(s, first, last) \in Seq(S)
        /\ Len(SubSeq(s, first, last)) = IF first <= last THEN last - first + 1 ELSE 0
        /\ \A k \in 1 .. last - first + 1 : SubSeq(s, first, last)[k] = s[first + k - 1]
    BY <1>2, SubSeqProperties
  <1>5. \A k \in 1 .. n : part[k] = s[k + m]
    BY <1>3, <1>4, Zenon
  <1> QED
    BY <1>3, <1>4, <1>5

LEMMA UnitsOfFrame ==
    ASSUME NEW f \in 1 .. MaxFrames, NEW frame \in Frame
    PROVE  /\ Units(f, frame) \in Seq(Unit)
           /\ Len(Units(f, frame)) = 4 + 2 * frame.rows
           /\ \A k \in 1 .. 4 + 2 * frame.rows : Units(f, frame)[k] = [frame |-> f, at |-> k]
  <1>1. frame.rows \in 0 .. MaxRows /\ MaxRows \in Nat
    BY ChannelAssumption DEF Frame
  <1>2. 4 + 2 * frame.rows \in Nat /\ \A k \in 1 .. 4 + 2 * frame.rows : [frame |-> f, at |-> k] \in Unit
    BY <1>1 DEF Unit
  <1> QED
    BY <1>2 DEF Units

\* What a read() returned: the first units of the socket, two at most.
IsResult(g, n) ==
    /\ g \in Seq(Unit) /\ n \in 0 .. 2 /\ n = Len(g)
    /\ n <= Len(pipe)
    /\ \A k \in 1 .. n : g[k] = pipe[k]

LEMMA ReadResult ==
    ASSUME TypeOK, NEW r \in ReadResults(2)
    PROVE  r.failed \in BOOLEAN /\ \E g, n : g = r.got /\ IsResult(g, n)
  <1>1. CASE pipe = <<>>
    <2>1. r.got = <<>> /\ r.failed \in BOOLEAN
      BY <1>1 DEF ReadResults, TypeOK
    <2>2. IsResult(<<>>, 0)
      BY EmptySeq, LenProperties DEF TypeOK, IsResult
    <2> QED
      BY <2>1, <2>2, Zenon
  <1>2. CASE pipe # <<>>
    <2>1. Len(pipe) \in Nat \ {0} /\ pipe \in Seq(Unit)
      BY <1>2, EmptySeq DEF TypeOK
    <2>2. PICK n \in Nat : n = Lesser(2, Len(pipe)) /\ n <= Len(pipe) /\ n <= 2
      BY <2>1 DEF Lesser
    <2>3. r.got = SubSeq(pipe, 1, n) /\ r.failed = FALSE
      BY <1>2, <2>2 DEF ReadResults
    <2>4. PICK first, last : first = 1 /\ last = n /\ first = 0 + 1 /\ last = 0 + n
      BY <2>2
    <2> DEFINE g == SubSeq(pipe, first, last)
    <2>5. g \in Seq(Unit) /\ Len(g) = n /\ \A k \in 1 .. n : g[k] = pipe[k + 0]
      BY <2>1, <2>2, <2>4, Part
    <2>6. \A k \in 1 .. n : k + 0 = k
      BY <2>2
    <2>7. \A k \in 1 .. n : g[k] = pipe[k]
      BY <2>5, <2>6, Zenon
    <2>8. n \in 0 .. 2
      BY <2>2
    <2>9. IsResult(g, n)
      BY <2>2, <2>5, <2>7, <2>8, Zenon DEF IsResult
    <2>10. r.got = g /\ r.failed \in BOOLEAN
      BY <2>3, <2>4, Zenon
    <2> HIDE DEF g
    <2> QED
      BY <2>9, <2>10, Zenon
  <1> QED
    BY <1>1, <1>2, Zenon

\* What is left in the socket.
Shifted(n) ==
    /\ pipe' \in Seq(Unit) /\ Len(pipe') = Len(pipe) - n
    /\ \A k \in 1 .. Len(pipe) - n : pipe'[k] = pipe[k + n]

\* What is done with the result: the frame goes on, or is handled.
GoesOn(g) == buffer' = buffer \o g /\ handled' = handled
Handles(g) == buffer' = <<>> /\ handled' = Append(handled, buffer \o g)
Took(g, n, complete) ==
    /\ pipe' = SubSeq(pipe, n + 1, Len(pipe))
    /\ reset' = (reset /\ pipe # <<>>)
    /\ mishap' = (mishap \/ n < 2)
    /\ mishap' => buffer' = <<>> /\ handled' = <<>>
    /\ ~mishap' => IF complete THEN Handles(g) ELSE GoesOn(g)

LEMMA TakenTook ==
    ASSUME TypeOK, NEW r, NEW complete \in BOOLEAN, NEW g, NEW n, g = r.got, IsResult(g, n), Taken(r, complete)
    PROVE  Took(g, n, complete)
  <1>1. n = Len(r.got) /\ g = r.got
    BY Zenon DEF IsResult
  <1>2. /\ pipe' = SubSeq(pipe, n + 1, Len(pipe))
        /\ reset' = (reset /\ pipe # <<>>)
        /\ mishap' = (mishap \/ n < 2)
        /\ buffer' = IF complete \/ mishap' THEN <<>> ELSE buffer \o g
        /\ handled' = IF mishap' THEN <<>> ELSE IF complete THEN Append(handled, buffer \o g) ELSE handled
    BY <1>1, Zenon DEF Taken
  <1> QED
    BY <1>2, Zenon DEF Took, Handles, GoesOn

LEMMA TookTypes ==
    ASSUME TypeOK, NEW g, NEW n, NEW complete \in BOOLEAN, IsResult(g, n), Took(g, n, complete)
    PROVE  /\ Shifted(n) /\ Len(pipe') <= PipeLimit
           /\ reset' \in BOOLEAN /\ mishap' \in BOOLEAN
           /\ ~mishap' => ~mishap /\ n = 2
           /\ buffer' \in Seq(Unit) /\ handled' \in Seq(Seq(Unit))
  <1>1. PICK len \in Nat : len = Len(pipe) /\ pipe \in Seq(Unit) /\ len <= PipeLimit
    BY DEF TypeOK
  <1>2. n \in 0 .. 2 /\ n <= len
    BY <1>1, Zenon DEF IsResult
  <1>3. /\ n \in Nat /\ len - n \in Nat /\ n + 1 \in Nat /\ len = n + (len - n)
        /\ len - n <= PipeLimit
    BY <1>1, <1>2, ChannelAssumption
  <1>4. PICK m \in Nat, first \in Nat : m = len - n /\ first = n + 1 /\ len = n + m /\ m <= PipeLimit
    BY <1>3, Zenon
  <1>5. pipe' = SubSeq(pipe, first, len) /\ n + m <= len
    <2>1. pipe' = SubSeq(pipe, first, len)
      BY <1>1, <1>3, <1>4, Zenon DEF Took
    <2> QED
      BY <1>1, <1>3, <1>4, <2>1
  <1>6. /\ pipe' \in Seq(Unit) /\ Len(pipe') = m
        /\ \A k \in 1 .. m : pipe'[k] = pipe[k + n]
    <2>1. n + m <= Len(pipe)
      BY <1>1, <1>5, Zenon
    <2>2. PICK part : part = SubSeq(pipe, first, len)
      OBVIOUS
    <2>3. /\ pipe \in Seq(Unit) /\ n \in Nat /\ m \in Nat
          /\ first = n + 1 /\ len = n + m
      BY <1>1, <1>3, <1>4, Zenon
    <2>4. part \in Seq(Unit) /\ Len(part) = m /\ \A k \in 1 .. m : part[k] = pipe[k + n]
      BY <2>1, <2>2, <2>3, Part
    <2> QED
      BY <1>5, <2>2, <2>4, Zenon
  <1>7. Shifted(n) /\ Len(pipe') <= PipeLimit
    BY <1>1, <1>4, <1>6, Zenon DEF Shifted
  <1>8. reset' \in BOOLEAN /\ mishap' = (mishap \/ n < 2) /\ mishap \in BOOLEAN
    BY Zenon DEF Took, TypeOK
  <1>9. mishap' \in BOOLEAN /\ (~mishap' => ~mishap /\ n = 2)
    <2>1. n < 2 \/ n = 2
      BY <1>2
    <2>2. (n < 2) \in BOOLEAN
      OBVIOUS
    <2> QED
      BY <1>8, <2>1, <2>2, Zenon
  <1>10. buffer \o g \in Seq(Unit)
    BY ConcatProperties, Zenon DEF IsResult, TypeOK
  <1>11. Append(handled, buffer \o g) \in Seq(Seq(Unit))
    BY <1>10, AppendProperties DEF TypeOK
  <1>12. buffer' \in Seq(Unit) /\ handled' \in Seq(Seq(Unit))
    BY <1>9, <1>10, <1>11, EmptySeq, Zenon DEF Took, GoesOn, Handles, TypeOK
  <1> QED
    BY <1>7, <1>8, <1>9, <1>12, Zenon

-----------------------------------------------------------------------------
(* The line of units *)

LEMMA ReadLine ==
    ASSUME TypeOK, Line, NEW n \in Nat, n <= Len(pipe), Shifted(n), UNCHANGED child
    PROVE  /\ Waiting \in Nat /\ Waiting' = Waiting - n
           /\ \A k \in 1 .. Waiting - n : Coming(k)' = Coming(k + n)
           /\ Line'
  <1>1. PICK p \in Nat, q \in Nat, w \in Nat : p = Len(pipe) /\ q = Len(pending) /\ w = p + q
    BY DEF TypeOK
  <1>2. Waiting = w /\ n <= p /\ kid' = kid /\ sent' = sent /\ pending' = pending
    BY <1>1, Zenon DEF child, Waiting
  <1>3. Len(pipe') = p - n /\ Waiting' = (p - n) + q
    BY <1>1, <1>2, Zenon DEF Waiting, Shifted
  <1>4. (p - n) + q = w - n /\ w - n \in Nat /\ p - n \in Nat
    BY <1>1, <1>2
  <1>5. ASSUME NEW k \in 1 .. w - n
        PROVE  Coming(k)' = Coming(k + n)
    <2>1. Coming(k)' = IF k <= p - n THEN pipe'[k] ELSE pending[k - (p - n)]
      BY <1>2, <1>3, Zenon DEF Coming
    <2>2. Coming(k + n) = IF k + n <= p THEN pipe[k + n] ELSE pending[(k + n) - p]
      BY <1>1, Zenon DEF Coming
    <2>3. /\ k <= p - n <=> k + n <= p
          /\ k - (p - n) = (k + n) - p
          /\ k <= p - n => k \in 1 .. p - n
      BY <1>1, <1>2, <1>4
    <2>4. k <= p - n => pipe'[k] = pipe[k + n]
      BY <1>1, <2>3, Zenon DEF Shifted
    <2> QED
      BY <2>1, <2>2, <2>3, <2>4, Zenon
  <1>6. Line'
    <2>1. ASSUME NEW k \in 1 .. w - n
          PROVE  k + n \in 1 .. w /\ Coming(k)' \in Unit /\ Within(Coming(k))'
      <3>1. k + n \in 1 .. w
        BY <1>4
      <3>2. Coming(k + n) \in Unit /\ Within(Coming(k + n))
        BY <1>2, <3>1, Zenon DEF Line
      <3> QED
        BY <1>2, <1>5, <3>1, <3>2, Zenon DEF Within, Size
    <2>2. ASSUME NEW k \in 1 .. w - n - 1
          PROVE  Follows(Coming(k), Coming(k + 1))'
      <3>1. /\ k + n \in 1 .. w - 1 /\ (k + n) + 1 = (k + 1) + n
            /\ k \in 1 .. w - n /\ k + 1 \in 1 .. w - n
        BY <1>4
      <3>2. Follows(Coming(k + n), Coming((k + n) + 1))
        BY <1>2, <3>1, Zenon DEF Line
      <3>3. Coming(k)' = Coming(k + n) /\ Coming(k + 1)' = Coming((k + n) + 1)
        BY <1>5, <3>1, Zenon
      <3> QED
        BY <1>2, <3>2, <3>3, Zenon DEF Follows, Size
    <2>3. ASSUME kid', w - n > 0
          PROVE  IsLast(Coming(w - n))'
      <3>1. w - n \in 1 .. w - n /\ (w - n) + n = w /\ w > 0
        BY <1>4, <2>3
      <3>2. IsLast(Coming(w))
        BY <1>2, <2>3, <3>1, Zenon DEF Line
      <3>3. Coming(w - n)' = Coming(w)
        BY <1>5, <3>1, Zenon
      <3> QED
        BY <1>2, <3>2, <3>3, Zenon DEF IsLast, Size
    <2>4. Waiting' = w - n /\ (Waiting - 1)' = w - n - 1
      BY <1>3, <1>4
    <2> QED
      BY <2>1, <2>2, <2>3, <2>4, Zenon DEF Line
  <1> QED
    BY <1>2, <1>3, <1>4, <1>5, <1>6

\* While the reads are whole, the next one returns the next two units of the frame.
LEMMA Front ==
    ASSUME TypeOK, Line, InStep, NEW g, IsResult(g, 2), NEW b \in Nat, b = Len(buffer)
    PROVE  /\ current \in 1 .. Len(sent) /\ sent[current] \in Frame /\ Size(current) \in Nat
           /\ Size(current) = 4 + 2 * sent[current].rows
           /\ pipe[1] = [frame |-> current, at |-> b + 1] /\ g[1] = pipe[1] /\ g[2] = pipe[2]
           /\ Coming(1) = pipe[1] /\ Coming(2) = pipe[2] /\ 1 + 1 \in 1 .. Waiting
           /\ b + 1 < Size(current) => pipe[2] = [frame |-> current, at |-> b + 2]
  <1>1. PICK p \in Nat, q \in Nat : p = Len(pipe) /\ q = Len(pending) /\ Waiting = p + q
    BY DEF TypeOK, Waiting
  <1>2. 2 <= p /\ 1 \in 1 .. 2 /\ 2 \in 1 .. 2 /\ g[1] = pipe[1] /\ g[2] = pipe[2]
    <2>1. 1 \in 1 .. 2 /\ 2 \in 1 .. 2
      OBVIOUS
    <2> QED
      BY <1>1, <2>1, Zenon DEF IsResult
  <1>3. 1 <= p /\ 1 \in 1 .. Waiting /\ 1 + 1 \in 1 .. Waiting /\ 1 \in 1 .. Waiting - 1 /\ 1 + 1 = 2 /\ Waiting > 0
    BY <1>1, <1>2
  <1>4. Coming(1) = pipe[1] /\ Coming(2) = pipe[2]
    BY <1>1, <1>2, <1>3, Zenon DEF Coming
  <1>5. /\ pipe[1] \in Unit /\ Within(pipe[1]) /\ pipe[2] \in Unit /\ Follows(pipe[1], pipe[2])
        /\ pipe[1].frame = current /\ pipe[1].at = b + 1
    <2>1. Coming(1).frame = current /\ Coming(1).at = b + 1
      BY <1>3, Zenon DEF InStep
    <2> QED
      BY <1>3, <1>4, <2>1, Zenon DEF Line
  <1>6. current \in 1 .. Len(sent) /\ sent[current] \in Frame
    <2>1. current \in 1 .. Len(sent)
      BY <1>5, Zenon DEF Within
    <2> QED
      BY <2>1, ElementOfSeq DEF TypeOK
  <1>7. Size(current) = 4 + 2 * sent[current].rows /\ Size(current) \in Nat
    BY <1>6, ChannelAssumption DEF Frame, Size
  <1>8. pipe[1] = [frame |-> current, at |-> b + 1]
    BY <1>5 DEF Unit
  <1>9. ASSUME b + 1 < Size(current)
        PROVE  pipe[2] = [frame |-> current, at |-> b + 2]
    <2>1. pipe[2].frame = current /\ pipe[2].at = (b + 1) + 1
      BY <1>5, <1>9, Zenon DEF Follows
    <2>2. (b + 1) + 1 = b + 2
      OBVIOUS
    <2>3. pipe[2].at = b + 2 /\ pipe[2].frame = current /\ pipe[2] \in Unit
      BY <1>5, <2>1, <2>2, Zenon
    <2> QED
      BY <2>3 DEF Unit
  <1> QED
    BY <1>2, <1>3, <1>4, <1>6, <1>7, <1>8, <1>9, Zenon

\* A read that takes two units of the frame, or its last two.
LEMMA ReadInStep ==
    ASSUME TypeOK, Frames, Line, InStep, UNCHANGED child,
           NEW g, NEW complete \in BOOLEAN, IsResult(g, 2), Took(g, 2, complete), ~mishap',
           NEW b \in Nat, b = Len(buffer), b + 2 <= Size(current),
           complete <=> b + 2 = Size(current)
    PROVE  /\ InStep'
           /\ complete => Len(handled') = Len(handled) + 1 /\ buffer' = <<>>
           /\ ~complete => handled' = handled /\ Len(buffer') = b + 2
  <1>1. PICK w \in Nat, h \in Nat, s \in Nat :
            w = Waiting /\ h = Len(handled) /\ s = Size(current) /\ current = h + 1 /\ b + 1 < s
    <2>1. Waiting \in Nat /\ Len(handled) \in Nat /\ current = Len(handled) + 1
      BY DEF TypeOK, Waiting, current
    <2>2. Size(current) \in Nat /\ b + 1 < Size(current)
      <3>1. PICK s \in Nat : s = Size(current)
        BY Front, Zenon
      <3>2. b + 2 <= s
        BY <3>1, Zenon
      <3>3. b + 1 < s
        BY <3>2
      <3> QED
        BY <3>1, <3>3, Zenon
    <2> QED
      BY <2>1, <2>2, Zenon
  <1>2. /\ h + 1 \in 1 .. Len(sent) /\ sent[h + 1] \in Frame /\ s = 4 + 2 * sent[h + 1].rows
        /\ g[1] = [frame |-> h + 1, at |-> b + 1] /\ g[2] = [frame |-> h + 1, at |-> b + 2]
        /\ Coming(2) = g[2] /\ 1 + 1 \in 1 .. Waiting
    BY <1>1, Front, Zenon
  <1>3. /\ w - 2 \in Nat /\ Waiting' = w - 2
        /\ \A k \in 1 .. w - 2 : Coming(k)' = Coming(k + 2)
    <2>1. 2 \in Nat /\ 2 \in 0 .. 2 /\ 2 <= Len(pipe) /\ Shifted(2)
      <3>1. 2 \in Nat /\ 2 \in 0 .. 2
        OBVIOUS
      <3> QED
        BY <3>1, TookTypes, Zenon DEF IsResult
    <2>2. Waiting' = w - 2 /\ \A k \in 1 .. w - 2 : Coming(k)' = Coming(k + 2)
      BY <1>1, <2>1, ReadLine, Zenon
    <2> QED
      BY <1>1, <1>2, <2>2
  <1>4. sent' = sent /\ kid' = kid
    BY DEF child
  <1>5. /\ buffer \o g \in Seq(Unit) /\ Len(buffer \o g) = b + 2
        /\ \A k \in 1 .. b + 2 : (buffer \o g)[k] = [frame |-> h + 1, at |-> k]
    <2>1. buffer \in Seq(Unit) /\ g \in Seq(Unit) /\ Len(g) = 2
      BY Zenon DEF TypeOK, IsResult
    <2>2. /\ buffer \o g \in Seq(Unit) /\ Len(buffer \o g) = b + 2
          /\ \A k \in 1 .. b + 2 : (buffer \o g)[k] = IF k <= b THEN buffer[k] ELSE g[k - b]
      <3>1. /\ buffer \o g \in Seq(Unit) /\ Len(buffer \o g) = Len(buffer) + Len(g)
            /\ \A k \in 1 .. Len(buffer) + Len(g) :
                  (buffer \o g)[k] = IF k <= Len(buffer) THEN buffer[k] ELSE g[k - Len(buffer)]
        BY <2>1, ConcatProperties, Zenon
      <3> QED
        BY <2>1, <3>1, Zenon
    <2>3. ASSUME NEW k \in 1 .. b + 2
          PROVE  (buffer \o g)[k] = [frame |-> h + 1, at |-> k]
      <3>1. CASE k <= b
        <4>1. k \in 1 .. b
          BY <3>1
        <4> QED
          BY <1>1, <2>2, <3>1, <4>1, Zenon DEF InStep
      <3>2. CASE ~(k <= b)
        <4>1. (k - b = 1 /\ k = b + 1) \/ (k - b = 2 /\ k = b + 2)
          BY <3>2
        <4> QED
          BY <1>2, <2>2, <3>2, <4>1, Zenon
      <3> QED
        BY <3>1, <3>2, Zenon
    <2> QED
      BY <2>2, <2>3
  <1>6. w - 2 > 0 => /\ Coming(1)' = Coming(3)
                     /\ b + 2 < s => Coming(3).frame = h + 1 /\ Coming(3).at = (b + 2) + 1
                     /\ b + 2 = s => Coming(3).frame = (h + 1) + 1 /\ Coming(3).at = 1
    <2> SUFFICES ASSUME w - 2 > 0
                 PROVE  /\ Coming(1)' = Coming(3)
                        /\ b + 2 < s => Coming(3).frame = h + 1 /\ Coming(3).at = (b + 2) + 1
                        /\ b + 2 = s => Coming(3).frame = (h + 1) + 1 /\ Coming(3).at = 1
      OBVIOUS
    <2>1. 1 \in 1 .. w - 2 /\ 1 + 2 = 3 /\ 2 \in 1 .. w - 1 /\ 2 + 1 = 3
      BY <1>3
    <2>2. Coming(1)' = Coming(3)
      BY <1>3, <2>1, Zenon
    <2>3. Follows(Coming(2), Coming(3))
      BY <1>1, <2>1, Zenon DEF Line
    <2>4. Coming(2).frame = h + 1 /\ Coming(2).at = b + 2 /\ Size(h + 1) = s
      BY <1>1, <1>2
    <2>5. b + 2 = s => ~(b + 2 < s)
      OBVIOUS
    <2> QED
      BY <2>2, <2>3, <2>4, <2>5, Zenon DEF Follows
  <1>7. kid /\ w - 2 = 0 => h + 1 = Len(sent) /\ b + 2 = s
    <2> SUFFICES ASSUME kid, w - 2 = 0
                 PROVE  h + 1 = Len(sent) /\ b + 2 = s
      OBVIOUS
    <2>1. w = 2 /\ w > 0
      BY <1>3
    <2>2. IsLast(Coming(2))
      BY <1>1, <2>1, Zenon DEF Line
    <2>3. Coming(2).frame = h + 1 /\ Coming(2).at = b + 2 /\ Size(h + 1) = s
      BY <1>1, <1>2
    <2> QED
      BY <2>2, <2>3, Zenon DEF IsLast
  <1>8. CASE complete
    <2>1. b + 2 = s /\ buffer' = <<>> /\ handled' = Append(handled, buffer \o g)
      BY <1>1, <1>8, Zenon DEF Took, Handles
    <2>2. /\ handled' \in Seq(Seq(Unit)) /\ Len(handled') = h + 1
          /\ \A f \in 1 .. h : handled'[f] = handled[f]
          /\ handled'[h + 1] = buffer \o g
      BY <1>1, <1>5, <2>1, AppendProperties DEF TypeOK
    <2>3. buffer \o g = Units(h + 1, sent[h + 1])
      <3>1. Units(h + 1, sent[h + 1]) = [k \in 1 .. s |-> [frame |-> h + 1, at |-> k]]
        BY <1>2, Zenon DEF Units
      <3> DEFINE bg == buffer \o g
      <3>2. bg \in Seq(Unit) /\ Len(bg) = s /\ \A k \in 1 .. s : bg[k] = [frame |-> h + 1, at |-> k]
        BY <1>5, <2>1, Zenon
      <3> HIDE DEF bg
      <3>3. bg = [k \in 1 .. Len(bg) |-> bg[k]]
        BY <3>2
      <3> QED
        BY <3>1, <3>2, <3>3, Zenon DEF bg
    <2>4. \A f \in 1 .. h + 1 : handled'[f] = Units(f, sent[f])
      <3>1. ASSUME NEW f \in 1 .. h + 1
            PROVE  handled'[f] = Units(f, sent[f])
        <4>1. f \in 1 .. h \/ f = h + 1
          OBVIOUS
        <4> QED
          BY <1>1, <2>2, <2>3, <4>1, Zenon DEF InStep
      <3> QED
        BY <3>1
    <2>5. Len(buffer') = 0 /\ 0 + 1 = 1 /\ 1 .. 0 = {} /\ h + 1 <= Len(sent)
      BY <1>2, <2>1, EmptySeq
    <2>6. current' = (h + 1) + 1
      BY <2>2 DEF current
    <2> QED
      BY <1>1, <1>3, <1>4, <1>6, <1>7, <1>8, <2>1, <2>2, <2>4, <2>5, <2>6, Zenon DEF InStep
  <1>9. CASE ~complete
    <2>1. b + 2 < s /\ buffer' = buffer \o g /\ handled' = handled
      <3>1. buffer' = buffer \o g /\ handled' = handled /\ b + 2 # s
        BY <1>1, <1>9, Zenon DEF Took, GoesOn
      <3>2. b + 2 <= s
        BY <1>1, Zenon
      <3> QED
        BY <3>1, <3>2
    <2>2. Len(buffer') = b + 2 /\ current' = h + 1 /\ b + 2 # s
      <3>1. b + 2 # s
        BY <2>1
      <3> QED
        BY <1>1, <1>5, <2>1, <3>1, Zenon DEF current
    <2> QED
      BY <1>1, <1>3, <1>4, <1>5, <1>6, <1>7, <1>9, <2>1, <2>2, Zenon DEF InStep
  <1> QED
    BY <1>8, <1>9, <1>1, Zenon

-----------------------------------------------------------------------------
(* The handlers that read *)

\* What every read() of a handler keeps, however short it is.
LEMMA ReadKeeps ==
    ASSUME Inv, fd, pc # "event",
           NEW g, NEW n, NEW complete \in BOOLEAN, IsResult(g, n), Took(g, n, complete),
           UNCHANGED <<child, page, messages, output, fd>>,
           pc' \in Reading \cup {"select", "closed", "crashed"},
           shadow_fb' \in {"NULL", "fits", "garbage"}, wild' \in BOOLEAN, rows' \in 0 .. MaxRows,
           pc' = "row" => rows' > 0
    PROVE  TypeOK' /\ Phase' /\ Frames' /\ Line' /\ EventsWhole'
  <1>1. TypeOK /\ Phase /\ Frames /\ Line /\ EventsWhole
    BY Zenon DEF Inv
  <1>2. /\ Shifted(n) /\ Len(pipe') <= PipeLimit
        /\ reset' \in BOOLEAN /\ mishap' \in BOOLEAN
        /\ ~mishap' => ~mishap /\ n = 2
        /\ buffer' \in Seq(Unit) /\ handled' \in Seq(Seq(Unit))
    BY <1>1, TookTypes, Zenon
  <1>3. TypeOK'
    BY <1>1, <1>2, Zenon DEF TypeOK, child, page, output, Shifted
  <1>4. Phase'
    <2>1. fd' /\ (~kid => pending = <<>>) /\ writing = <<>>
      BY <1>1, Zenon DEF Phase
    <2>2. pc' # "event"
      BY DEF Reading
    <2> QED
      BY <2>1, <2>2, Zenon DEF Phase, child, output
  <1>5. Frames'
    BY <1>1, Zenon DEF Frames, child
  <1>6. Line'
    <2>1. n \in Nat /\ n <= Len(pipe)
      <3>1. n \in 0 .. 2 /\ n <= Len(pipe)
        BY Zenon DEF IsResult
      <3> QED
        BY <3>1
    <2> QED
      BY <1>1, <1>2, <2>1, ReadLine, Zenon
  <1>7. EventsWhole'
    BY <1>1, Zenon DEF EventsWhole, output
  <1> QED
    BY <1>2, <1>3, <1>4, <1>5, <1>6, <1>7

LEMMA ResultFrame ==
    ASSUME TypeOK, Line, NEW g, IsResult(g, 2)
    PROVE  sent[g[1].frame] \in Frame
  <1>1. 1 \in 1 .. 2
    OBVIOUS
  <1>2. g[1] = pipe[1] /\ 2 <= Len(pipe)
    BY <1>1, Zenon DEF IsResult
  <1>3. 1 <= Len(pipe) /\ 1 \in 1 .. Waiting
    BY <1>2 DEF TypeOK, Waiting
  <1>4. Coming(1) = g[1]
    BY <1>2, <1>3, Zenon DEF Coming
  <1>5. g[1].frame \in 1 .. Len(sent)
    BY <1>3, <1>4, Zenon DEF Line, Within
  <1> QED
    BY <1>5, ElementOfSeq DEF TypeOK

\* While the reads are whole, a struct is read from where it was written.
LEMMA WholeStruct ==
    ASSUME Inv, ~mishap, NEW r, NEW g, g = r.got, IsResult(g, 2),
           NEW b \in Nat, b = Len(buffer), b \in {0, 2} \/ b + 2 <= Size(current)
    PROVE  /\ current \in 1 .. Len(sent) /\ sent[current] \in Frame /\ FrameOf(r) = sent[current]
           /\ Size(current) = 4 + 2 * sent[current].rows /\ b + 2 <= Size(current)
           /\ IsStruct(r, b + 1) /\ Passes(r)
           /\ IF current = 1 THEN FrameOf(r).type = "VFBINFO" /\ FrameOf(r).rows = 0
              ELSE FrameOf(r).type = "DIRTYPIXELS"
  <1>1. TypeOK /\ Frames /\ Line /\ InStep
    BY Zenon DEF Inv
  <1>2. /\ current \in 1 .. Len(sent) /\ sent[current] \in Frame /\ Size(current) \in Nat
        /\ Size(current) = 4 + 2 * sent[current].rows
        /\ g[1] = [frame |-> current, at |-> b + 1]
        /\ b + 1 < Size(current) => g[2] = [frame |-> current, at |-> b + 2]
    BY <1>1, Front, Zenon
  <1>3. b + 1 < Size(current) /\ b + 2 <= Size(current)
    <2>1. PICK s \in Nat, m \in Nat : s = Size(current) /\ s = 4 + 2 * m
      <3>1. sent[current].rows \in Nat
        BY <1>2, ChannelAssumption DEF Frame
      <3> QED
        BY <1>2, <3>1, Zenon
    <2>2. b \in {0, 2} \/ b + 2 <= s
      BY <2>1, Zenon
    <2>3. b + 1 < s /\ b + 2 <= s
      BY <2>1, <2>2
    <2> QED
      BY <2>1, <2>3, Zenon
  <1>4. g[1].frame = current /\ g[1].at = b + 1 /\ g[2].at = (b + 1) + 1
    <2>1. g[1].frame = current /\ g[1].at = b + 1 /\ g[2].at = b + 2
      BY <1>2, <1>3
    <2>2. b + 2 = (b + 1) + 1
      OBVIOUS
    <2> QED
      BY <2>1, <2>2, Zenon
  <1>5. Len(r.got) = 2 /\ r.got = g
    BY Zenon DEF IsResult
  <1>6. FrameOf(r) = sent[current] /\ IsStruct(r, b + 1) /\ Passes(r)
    BY <1>4, <1>5, Zenon DEF FrameOf, IsStruct, Passes
  <1>7. IF current = 1 THEN sent[current].type = "VFBINFO" /\ sent[current].rows = 0
        ELSE sent[current].type = "DIRTYPIXELS"
    BY <1>1, <1>2, Zenon DEF Frames
  <1> QED
    BY <1>2, <1>3, <1>6, <1>7, Zenon

LEMMA ReadGreetingKeeps ==
    ASSUME Inv, ReadGreeting
    PROVE  Inv'
  <1>1. TypeOK /\ Phase /\ Frames /\ Line /\ pc = "greeting" /\ fd
    <2>1. TypeOK /\ Phase /\ Frames /\ Line /\ pc = "greeting"
      BY Zenon DEF Inv, ReadGreeting
    <2> QED
      BY <2>1 DEF Phase, TypeOK
  <1>2. UNCHANGED <<fd, shadow_fb, wild, rows, child, page, messages, output>>
    BY Zenon DEF ReadGreeting
  <1>3. PICK r, type : /\ r \in ReadResults(2) /\ type \in HeaderTypes(r) /\ Taken(r, FALSE)
                       /\ pc' = IF type = "VFBINFO" THEN "description" ELSE "select"
    BY Zenon DEF ReadGreeting, Return
  <1>4. PICK g, n : g = r.got /\ IsResult(g, n)
    BY <1>1, <1>3, ReadResult, Zenon
  <1>5. Took(g, n, FALSE)
    BY <1>1, <1>3, <1>4, TakenTook, Zenon
  <1>6. TypeOK' /\ Phase' /\ Frames' /\ Line' /\ EventsWhole'
    <2>1. /\ pc # "event" /\ pc' \in Reading \cup {"select", "closed", "crashed"} /\ pc' # "row"
          /\ shadow_fb' \in {"NULL", "fits", "garbage"} /\ wild' \in BOOLEAN /\ rows' \in 0 .. MaxRows
      BY <1>1, <1>2, <1>3 DEF TypeOK, Reading
    <2>2. UNCHANGED <<child, page, messages, output, fd>>
      BY <1>2
    <2> QED
      BY <1>1, <1>4, <1>5, <2>1, <2>2, ReadKeeps, Zenon
  <1>7. ASSUME ~mishap'
        PROVE  Place' /\ InStep'
    <2>1. ~mishap /\ n = 2 /\ Place /\ InStep
      <3>1. ~mishap /\ ~(n < 2) /\ n \in 0 .. 2
        BY <1>4, <1>5, <1>7, Zenon DEF Took, IsResult
      <3>2. n = 2
        BY <3>1
      <3> QED
        BY <1>1, <3>1, <3>2 DEF Inv
    <2>2. buffer = <<>> /\ handled = <<>> /\ Len(buffer) = 0 /\ ~wild
      BY <1>1, <2>1, EmptySeq DEF Place
    <2>3. current = 1
      BY <2>2, EmptySeq DEF current
    <2>4. PICK b \in Nat : b = 0 /\ b = Len(buffer) /\ b \in {0, 2} /\ b + 1 = 1 /\ b + 2 = 2
      BY <2>2
    <2>5. /\ b + 2 <= Size(current) /\ IsStruct(r, b + 1)
          /\ FrameOf(r).type = "VFBINFO" /\ FrameOf(r).rows = 0 /\ FrameOf(r) = sent[current]
          /\ Size(current) = 4 + 2 * sent[current].rows
      BY <1>4, <2>1, <2>3, <2>4, WholeStruct, Zenon
    <2>6. b + 2 # Size(current)
      BY <2>4, <2>5
    <2>7. HeaderTypes(r) = {"VFBINFO"}
      BY <2>4, <2>5, Zenon DEF HeaderTypes
    <2>8. pc' = "description"
      BY <1>3, <2>7
    <2>9. InStep' /\ handled' = handled /\ Len(buffer') = b + 2
      BY <1>1, <1>2, <1>4, <1>5, <1>7, <2>1, <2>4, <2>5, <2>6, ReadInStep, Zenon
    <2>10. Len(buffer') = 2 /\ handled' = <<>>
      BY <2>2, <2>4, <2>9, Zenon
    <2>11. Place'
      BY <1>2, <2>2, <2>8, <2>10 DEF Place
    <2> QED
      BY <2>9, <2>11
  <1>8. NoCrash'
    BY <1>3 DEF NoCrash
  <1> QED
    BY <1>6, <1>7, <1>8, Zenon DEF Inv

LEMMA ReadDescriptionKeeps ==
    ASSUME Inv, ReadDescription
    PROVE  Inv'
  <1>1. TypeOK /\ Phase /\ Frames /\ Line /\ pc = "description" /\ fd
    <2>1. TypeOK /\ Phase /\ Frames /\ Line /\ pc = "description"
      BY Zenon DEF Inv, ReadDescription
    <2> QED
      BY <2>1 DEF Phase, TypeOK
  <1>2. UNCHANGED <<fd, wild, rows, child, page, messages, output>> /\ pc' = "select"
    BY Zenon DEF ReadDescription, Return
  <1>3. PICK r \in ReadResults(2) : Taken(r, TRUE) /\ shadow_fb' \in ShadowOf(r)
    BY Zenon DEF ReadDescription
  <1>4. PICK g, n : g = r.got /\ IsResult(g, n)
    BY <1>1, ReadResult, Zenon
  <1>5. Took(g, n, TRUE)
    BY <1>1, <1>3, <1>4, TakenTook, Zenon
  <1>6. TypeOK' /\ Phase' /\ Frames' /\ Line' /\ EventsWhole'
    <2>1. shadow_fb' \in {"NULL", "fits", "garbage"}
      <3>1. shadow_fb' \in {"NULL"} \/ shadow_fb' \in {"NULL", "garbage"}
               \/ shadow_fb' \in {IF FrameOf(r).supported THEN "fits" ELSE "NULL"}
        BY <1>3, Zenon DEF ShadowOf
      <3> QED
        BY <3>1
    <2>2. /\ pc # "event" /\ pc' \in Reading \cup {"select", "closed", "crashed"} /\ pc' # "row"
          /\ wild' \in BOOLEAN /\ rows' \in 0 .. MaxRows
      BY <1>1, <1>2 DEF TypeOK, Reading
    <2>3. UNCHANGED <<child, page, messages, output, fd>>
      BY <1>2
    <2> QED
      BY <1>1, <1>4, <1>5, <2>1, <2>2, <2>3, ReadKeeps, Zenon
  <1>7. ASSUME ~mishap'
        PROVE  Place' /\ InStep'
    <2>1. ~mishap /\ n = 2 /\ Place /\ InStep
      <3>1. ~mishap /\ ~(n < 2) /\ n \in 0 .. 2
        BY <1>4, <1>5, <1>7, Zenon DEF Took, IsResult
      <3>2. n = 2
        BY <3>1
      <3> QED
        BY <1>1, <3>1, <3>2 DEF Inv
    <2>2. handled = <<>> /\ Len(buffer) = 2 /\ ~wild
      BY <1>1, <2>1 DEF Place
    <2>3. current = 1
      BY <2>2, EmptySeq DEF current
    <2>4. PICK b \in Nat : b = 2 /\ b = Len(buffer) /\ b \in {0, 2} /\ b + 1 = 3 /\ b + 2 = 4
      BY <2>2
    <2>5. /\ b + 2 <= Size(current) /\ IsStruct(r, b + 1)
          /\ FrameOf(r).type = "VFBINFO" /\ FrameOf(r).rows = 0 /\ FrameOf(r) = sent[current]
          /\ Size(current) = 4 + 2 * sent[current].rows /\ sent[current] \in Frame
      BY <1>4, <2>1, <2>3, <2>4, WholeStruct, Zenon
    <2>6. b + 2 = Size(current)
      BY <2>4, <2>5
    <2>7. ShadowOf(r) = {IF FrameOf(r).supported THEN "fits" ELSE "NULL"}
      BY <2>4, <2>5, Zenon DEF ShadowOf
    <2>8. shadow_fb' = "fits" <=> sent[1].supported
      BY <1>3, <2>3, <2>5, <2>7 DEF Frame
    <2>9. InStep' /\ Len(handled') = Len(handled) + 1 /\ buffer' = <<>>
      BY <1>1, <1>2, <1>4, <1>5, <1>7, <2>1, <2>4, <2>5, <2>6, ReadInStep, Zenon
    <2>10. handled' # <<>>
      BY <2>2, <2>9, EmptySeq
    <2>11. sent' = sent
      BY <1>2 DEF child
    <2>12. Place'
      BY <1>1, <1>2, <2>2, <2>8, <2>9, <2>10, <2>11 DEF Place
    <2> QED
      BY <2>9, <2>12
  <1>8. NoCrash'
    BY <1>2 DEF NoCrash
  <1> QED
    BY <1>6, <1>7, <1>8, Zenon DEF Inv

LEMMA ReadHeaderKeeps ==
    ASSUME Inv, ReadHeader
    PROVE  Inv'
  <1>1. TypeOK /\ Phase /\ Frames /\ Line /\ pc = "select" /\ fd
    BY Zenon DEF Inv, ReadHeader
  <1>2. UNCHANGED <<fd, shadow_fb, wild, rows, child, page, messages, output>>
    BY DEF ReadHeader
  <1>3. PICK r \in ReadResults(2) :
            /\ Taken(r, FALSE)
            /\ \/ r.got = <<>> /\ ~r.failed /\ pc' = "closed"
               \/ \E type \in HeaderTypes(r) : pc' = IF type = "DIRTYPIXELS" THEN "rectangle" ELSE "select"
    BY Zenon DEF ReadHeader, Return
  <1>4. PICK g, n : g = r.got /\ IsResult(g, n)
    BY <1>1, ReadResult, Zenon
  <1>5. Took(g, n, FALSE)
    BY <1>1, <1>3, <1>4, TakenTook, Zenon
  <1>6. TypeOK' /\ Phase' /\ Frames' /\ Line' /\ EventsWhole'
    <2>1. pc' = "closed" \/ pc' = "rectangle" \/ pc' = "select"
      BY <1>3, Zenon
    <2>2. /\ pc # "event" /\ pc' \in Reading \cup {"select", "closed", "crashed"} /\ pc' # "row"
          /\ shadow_fb' \in {"NULL", "fits", "garbage"} /\ wild' \in BOOLEAN /\ rows' \in 0 .. MaxRows
      BY <1>1, <1>2, <2>1 DEF TypeOK, Reading
    <2>3. UNCHANGED <<child, page, messages, output, fd>>
      BY <1>2
    <2> QED
      BY <1>1, <1>4, <1>5, <2>2, <2>3, ReadKeeps, Zenon
  <1>7. ASSUME ~mishap'
        PROVE  Place' /\ InStep'
    <2>1. ~mishap /\ n = 2 /\ Place /\ InStep
      <3>1. ~mishap /\ ~(n < 2) /\ n \in 0 .. 2
        BY <1>4, <1>5, <1>7, Zenon DEF Took, IsResult
      <3>2. n = 2
        BY <3>1
      <3> QED
        BY <1>1, <3>1, <3>2 DEF Inv
    <2>2. buffer = <<>> /\ handled # <<>> /\ Len(buffer) = 0 /\ ~wild
      BY <1>1, <2>1, EmptySeq DEF Place
    <2>3. current # 1
      BY <1>1, <2>2, EmptySeq DEF current, TypeOK
    <2>4. PICK b \in Nat : b = 0 /\ b = Len(buffer) /\ b \in {0, 2} /\ b + 1 = 1 /\ b + 2 = 2
      BY <2>2
    <2>5. /\ b + 2 <= Size(current) /\ IsStruct(r, b + 1)
          /\ FrameOf(r).type = "DIRTYPIXELS" /\ FrameOf(r) = sent[current] /\ sent[current] \in Frame
          /\ Size(current) = 4 + 2 * sent[current].rows
      BY <1>4, <2>1, <2>3, <2>4, WholeStruct, Zenon
    <2>6. b + 2 # Size(current)
      <3>1. sent[current].rows \in Nat
        BY <2>5, ChannelAssumption DEF Frame
      <3> QED
        BY <2>4, <2>5, <3>1
    <2>7. HeaderTypes(r) = {"DIRTYPIXELS"}
      BY <2>4, <2>5, Zenon DEF HeaderTypes
    <2>8. pc' = "rectangle"
      <3>1. r.got # <<>>
        <4>1. Len(g) = 2 /\ g \in Seq(Unit)
          BY <1>4, <2>1, Zenon DEF IsResult
        <4>2. g # <<>>
          BY <4>1, EmptySeq
        <4> QED
          BY <1>4, <4>2, Zenon
      <3> QED
        BY <1>3, <2>7, <3>1
    <2>9. InStep' /\ handled' = handled /\ Len(buffer') = b + 2
      BY <1>1, <1>2, <1>4, <1>5, <1>7, <2>1, <2>4, <2>5, <2>6, ReadInStep, Zenon
    <2>10. Len(buffer') = 2 /\ handled' = handled /\ sent' = sent
      BY <1>2, <2>2, <2>4, <2>9 DEF child
    <2>11. Place'
      BY <1>1, <1>2, <2>1, <2>2, <2>8, <2>10 DEF Place
    <2> QED
      BY <2>9, <2>11
  <1>8. NoCrash'
    BY <1>3 DEF NoCrash
  <1> QED
    BY <1>6, <1>7, <1>8, Zenon DEF Inv

LEMMA ReadRectangleKeeps ==
    ASSUME Inv, ReadRectangle
    PROVE  Inv'
  <1>1. TypeOK /\ Phase /\ Frames /\ Line /\ pc = "rectangle" /\ fd
    <2>1. TypeOK /\ Phase /\ Frames /\ Line /\ pc = "rectangle"
      BY Zenon DEF Inv, ReadRectangle
    <2> QED
      BY <2>1 DEF Phase, TypeOK
  <1>2. UNCHANGED <<fd, shadow_fb, child, page, messages, output>>
    BY DEF ReadRectangle
  <1>3. PICK r \in ReadResults(2), complete \in BOOLEAN :
            /\ Taken(r, complete)
            /\ pc' \in {"select", "row"}
            /\ \/ ~Passes(r) /\ pc' = "select" /\ wild' = wild /\ rows' = rows
               \/ /\ Passes(r) /\ rows' \in RowsOf(r) /\ wild' = ~IsRectangle(r)
                  /\ complete <=> rows' = 0
                  /\ pc' = IF complete THEN "select" ELSE "row"
    <2>1. PICK r \in ReadResults(2) :
              \/ ~Passes(r) /\ Taken(r, FALSE) /\ Return /\ UNCHANGED <<wild, rows>>
              \/ /\ Passes(r) /\ rows' \in RowsOf(r) /\ wild' = ~IsRectangle(r) /\ Taken(r, rows' = 0)
                 /\ IF rows' = 0 THEN Return ELSE pc' = "row"
      BY Zenon DEF ReadRectangle
    <2>2. CASE ~Passes(r)
      <3>1. Taken(r, FALSE) /\ pc' = "select" /\ wild' = wild /\ rows' = rows
        BY <2>1, <2>2 DEF Return
      <3> QED
        BY <2>2, <3>1, Zenon
    <2>3. CASE Passes(r) /\ rows' = 0
      <3>1. Taken(r, TRUE) /\ pc' = "select" /\ rows' \in RowsOf(r) /\ wild' = ~IsRectangle(r)
        <4>1. (rows' = 0) = TRUE
          BY <2>3
        <4> QED
          BY <2>1, <2>3, <4>1, Zenon DEF Return
      <3> QED
        BY <2>3, <3>1, Zenon
    <2>4. CASE Passes(r) /\ rows' # 0
      <3>1. Taken(r, FALSE) /\ pc' = "row" /\ rows' \in RowsOf(r) /\ wild' = ~IsRectangle(r)
        <4>1. (rows' = 0) = FALSE
          BY <2>4
        <4> QED
          BY <2>1, <2>4, <4>1, Zenon
      <3> QED
        BY <2>4, <3>1, Zenon
    <2> QED
      BY <2>2, <2>3, <2>4, Zenon
  <1>4. PICK g, n : g = r.got /\ IsResult(g, n)
    BY <1>1, ReadResult, Zenon
  <1>5. Took(g, n, complete)
    BY <1>1, <1>3, <1>4, TakenTook, Zenon
  <1>6. TypeOK' /\ Phase' /\ Frames' /\ Line' /\ EventsWhole'
    <2>1. rows' \in 0 .. MaxRows /\ wild' \in BOOLEAN
      <3>1. CASE ~Passes(r)
        BY <1>1, <1>3, <3>1, Zenon DEF TypeOK
      <3>2. CASE Passes(r)
        <4>1. wild' \in BOOLEAN /\ rows' \in RowsOf(r)
          BY <1>3, <3>2, Zenon DEF IsRectangle, IsStruct
        <4>2. CASE IsRectangle(r)
          <5>1. n = 2 /\ g[1] = r.got[1]
            BY <1>4, <4>2, Zenon DEF IsRectangle, IsStruct, IsResult
          <5>2. FrameOf(r) \in Frame
            BY <1>1, <1>4, <5>1, ResultFrame, Zenon DEF FrameOf
          <5>3. rows' = FrameOf(r).rows
            BY <4>1, <4>2 DEF RowsOf
          <5> QED
            BY <4>1, <5>2, <5>3 DEF Frame
        <4>3. CASE ~IsRectangle(r)
          BY <4>1, <4>3, Zenon DEF RowsOf
        <4> QED
          BY <4>2, <4>3
      <3> QED
        BY <3>1, <3>2
    <2>2. /\ pc # "event" /\ pc' \in Reading \cup {"select", "closed", "crashed"}
          /\ shadow_fb' \in {"NULL", "fits", "garbage"}
      BY <1>1, <1>2, <1>3 DEF TypeOK, Reading
    <2>3. pc' = "row" => rows' > 0
      BY <1>3, <2>1
    <2>4. UNCHANGED <<child, page, messages, output, fd>>
      BY <1>2
    <2> QED
      BY <1>1, <1>4, <1>5, <2>1, <2>2, <2>3, <2>4, ReadKeeps, Zenon
  <1>7. NoCrash'
    BY <1>3 DEF NoCrash
  <1>8. ASSUME ~mishap'
        PROVE  Place' /\ InStep'
    <2>1. ~mishap /\ n = 2 /\ Place /\ InStep
      <3>1. ~mishap /\ ~(n < 2) /\ n \in 0 .. 2
        BY <1>4, <1>5, <1>8, Zenon DEF Took, IsResult
      <3>2. n = 2
        BY <3>1
      <3> QED
        BY <1>1, <3>1, <3>2 DEF Inv
    <2>2. handled # <<>> /\ Len(buffer) = 2 /\ (shadow_fb = "fits" <=> sent[1].supported)
      BY <1>1, <2>1 DEF Place
    <2>3. current # 1
      BY <1>1, <2>2, EmptySeq DEF current, TypeOK
    <2>4. PICK b \in Nat : b = 2 /\ b = Len(buffer) /\ b \in {0, 2} /\ b + 1 = 3 /\ b + 2 = 4
      BY <2>2
    <2>5. /\ b + 2 <= Size(current) /\ IsStruct(r, b + 1) /\ Passes(r) /\ current \in 1 .. Len(sent)
          /\ FrameOf(r).type = "DIRTYPIXELS" /\ FrameOf(r) = sent[current] /\ sent[current] \in Frame
          /\ Size(current) = 4 + 2 * sent[current].rows
      BY <1>4, <2>1, <2>3, <2>4, WholeStruct, Zenon
    <2>6. IsRectangle(r) /\ RowsOf(r) = {sent[current].rows}
      BY <2>4, <2>5, Zenon DEF IsRectangle, RowsOf
    <2>7. /\ rows' = sent[current].rows /\ wild' = FALSE /\ (complete <=> rows' = 0)
          /\ pc' = IF complete THEN "select" ELSE "row"
      BY <1>3, <2>5, <2>6
    <2>8. complete <=> b + 2 = Size(current)
      <3>1. sent[current].rows \in Nat
        BY <2>5, ChannelAssumption DEF Frame
      <3>2. b + 2 = Size(current) <=> sent[current].rows = 0
        BY <2>4, <2>5, <3>1
      <3> QED
        BY <2>7, <3>2, Zenon
    <2>9. /\ InStep'
          /\ complete => Len(handled') = Len(handled) + 1 /\ buffer' = <<>>
          /\ ~complete => handled' = handled /\ Len(buffer') = b + 2
      BY <1>1, <1>2, <1>4, <1>5, <1>8, <2>1, <2>4, <2>5, <2>8, ReadInStep, Zenon
    <2>10. handled' # <<>> /\ sent' = sent /\ shadow_fb' = shadow_fb /\ fd' = fd
      BY <1>1, <1>2, <2>2, <2>9, EmptySeq DEF child, TypeOK
    <2>11. CASE complete
      <3>1. pc' = "select" /\ buffer' = <<>>
        BY <2>7, <2>9, <2>11
      <3> QED
        BY <1>1, <2>2, <2>7, <2>9, <2>10, <3>1 DEF Place
    <2>12. CASE ~complete
      <3>1. pc' = "row" /\ Len(buffer') = 4 /\ current' = current
        BY <2>4, <2>7, <2>9, <2>12 DEF current
      <3>2. /\ current \in 1 .. Len(sent) /\ rows' \in Nat /\ rows' - rows' = 0
        BY <2>5, <2>7, ChannelAssumption DEF Frame
      <3>3. /\ current' <= Len(sent') /\ rows' <= sent'[current'].rows
            /\ Len(buffer') = 4 + 2 * (sent'[current'].rows - rows')
        <4>1. sent'[current'].rows = rows'
          BY <2>7, <2>10, <3>1, Zenon
        <4>2. 4 + 2 * (rows' - rows') = 4 /\ rows' <= rows'
          <5>1. PICK m \in Nat : m = rows'
            BY <3>2, Zenon
          <5>2. 4 + 2 * (m - m) = 4 /\ m <= m
            OBVIOUS
          <5> QED
            BY <5>1, <5>2, Zenon
        <4>3. current <= Len(sent)
          BY <1>1, <3>2 DEF TypeOK
        <4> QED
          BY <2>10, <3>1, <4>1, <4>2, <4>3, Zenon
      <3>4. /\ pc' = "row" /\ pc' \notin {"select", "event", "greeting"}
            /\ pc' \notin {"greeting", "description"} /\ pc' \notin {"description", "rectangle"}
        BY <3>1
      <3>5. fd' /\ ~wild' /\ (shadow_fb' = "fits" <=> sent'[1].supported)
        BY <1>1, <2>2, <2>7, <2>10
      <3> QED
        BY <2>9, <2>10, <3>3, <3>4, <3>5, Zenon DEF Place
    <2> QED
      BY <2>9, <2>11, <2>12
  <1> QED
    BY <1>6, <1>7, <1>8, Zenon DEF Inv

LEMMA ReadRowKeeps ==
    ASSUME Inv, ReadRow
    PROVE  Inv'
  <1>1. TypeOK /\ Phase /\ Frames /\ Line /\ pc = "row" /\ fd /\ rows > 0
    <2>1. TypeOK /\ Phase /\ Frames /\ Line /\ pc = "row"
      BY Zenon DEF Inv, ReadRow
    <2> QED
      BY <2>1 DEF Phase, TypeOK
  <1>2. UNCHANGED <<fd, shadow_fb, wild, child, page, messages, output>> /\ rows' = rows - 1
    BY DEF ReadRow
  <1>3. \/ shadow_fb # "NULL" /\ pc' = IF rows' = 0 THEN "select" ELSE "row"
        \/ (shadow_fb # "fits" \/ wild) /\ pc' = "crashed"
    <2>1. \/ shadow_fb # "NULL" /\ IF rows' = 0 THEN pc' = "select" ELSE pc' = pc
          \/ (shadow_fb # "fits" \/ wild) /\ pc' = "crashed"
      BY Zenon DEF ReadRow, Return
    <2> QED
      BY <1>1, <2>1, Zenon
  <1>4. PICK r \in ReadResults(2), complete \in BOOLEAN : Taken(r, complete) /\ (complete <=> rows = 1)
    <2>1. PICK r \in ReadResults(2) : Taken(r, rows = 1)
      BY Zenon DEF ReadRow
    <2>2. (rows = 1) \in BOOLEAN
      OBVIOUS
    <2> QED
      BY <2>1, <2>2, Zenon
  <1>5. PICK g, n : g = r.got /\ IsResult(g, n)
    BY <1>1, ReadResult, Zenon
  <1>6. Took(g, n, complete)
    BY <1>1, <1>4, <1>5, TakenTook, Zenon
  <1>7. rows \in Nat /\ rows <= MaxRows /\ MaxRows \in Nat
    BY <1>1, ChannelAssumption DEF TypeOK
  <1>8. TypeOK' /\ Phase' /\ Frames' /\ Line' /\ EventsWhole'
    <2>1. rows' \in 0 .. MaxRows /\ (pc' = "row" => rows' > 0)
      <3>1. rows' \in 0 .. MaxRows /\ (rows' = 0 \/ rows' > 0)
        BY <1>1, <1>2, <1>7
      <3>2. pc' = "row" => rows' # 0
        BY <1>3
      <3> QED
        BY <3>1, <3>2, Zenon
    <2>2. pc' = "select" \/ pc' = "row" \/ pc' = "crashed"
      BY <1>3, Zenon
    <2>3. /\ pc # "event" /\ pc' \in Reading \cup {"select", "closed", "crashed"}
          /\ shadow_fb' \in {"NULL", "fits", "garbage"} /\ wild' \in BOOLEAN
      BY <1>1, <1>2, <2>2 DEF TypeOK, Reading
    <2>4. UNCHANGED <<child, page, messages, output, fd>>
      BY <1>2
    <2> QED
      BY <1>1, <1>5, <1>6, <2>1, <2>3, <2>4, ReadKeeps, Zenon
  <1>9. ASSUME ~mishap'
        PROVE  /\ pc' # "crashed" => Place'
               /\ InStep'
               /\ pc' = "crashed" => ~sent[1].supported
    <2>1. ~mishap /\ n = 2 /\ Place /\ InStep
      <3>1. ~mishap /\ ~(n < 2) /\ n \in 0 .. 2
        BY <1>5, <1>6, <1>9, Zenon DEF Took, IsResult
      <3>2. n = 2
        BY <3>1
      <3> QED
        BY <1>1, <3>1, <3>2 DEF Inv
    <2>2. handled # <<>> /\ ~wild /\ (shadow_fb = "fits" <=> sent[1].supported)
      BY <1>1, <2>1 DEF Place
    <2>3. /\ current \in 1 .. Len(sent) /\ sent[current] \in Frame /\ sent[current].rows \in Nat
          /\ Size(current) = 4 + 2 * sent[current].rows
      <3>1. current \in 1 .. Len(sent)
        <4>1. current <= Len(sent)
          BY <1>1, <2>1, Zenon DEF Place
        <4> QED
          BY <1>1, <4>1 DEF current, TypeOK
      <3>2. sent[current] \in Frame
        BY <1>1, <3>1, ElementOfSeq DEF TypeOK
      <3> QED
        BY <3>1, <3>2, ChannelAssumption DEF Frame, Size
    <2>4. PICK b \in Nat, m \in Nat : /\ b = Len(buffer) /\ m = sent[current].rows
                                      /\ rows <= m /\ b = 4 + 2 * (m - rows)
      <3>1. Len(buffer) \in Nat
        BY <1>1 DEF TypeOK
      <3>2. rows <= sent[current].rows /\ Len(buffer) = 4 + 2 * (sent[current].rows - rows)
        BY <1>1, <2>1, Zenon DEF Place
      <3> QED
        BY <2>3, <3>1, <3>2, Zenon
    <2>5. b + 2 <= Size(current) /\ (complete <=> b + 2 = Size(current))
      <3>1. PICK s \in Nat : s = Size(current) /\ s = 4 + 2 * m
        <4>1. Size(current) \in Nat
          BY <2>3
        <4> QED
          BY <2>3, <2>4, <4>1, Zenon
      <3>2. b + 2 <= s /\ (b + 2 = s <=> rows = 1)
        BY <1>1, <1>7, <2>4, <3>1
      <3> QED
        BY <1>4, <3>1, <3>2, Zenon
    <2>6. /\ InStep'
          /\ complete => Len(handled') = Len(handled) + 1 /\ buffer' = <<>>
          /\ ~complete => handled' = handled /\ Len(buffer') = b + 2
      <3>1. UNCHANGED child
        BY <1>2
      <3> QED
        BY <1>1, <1>5, <1>6, <1>9, <2>1, <2>4, <2>5, <3>1, ReadInStep, Zenon
    <2>7. handled' # <<>> /\ sent' = sent /\ shadow_fb' = shadow_fb /\ fd' = fd /\ wild' = wild
      BY <1>1, <1>2, <2>2, <2>6, EmptySeq DEF child, TypeOK
    <2>8. fd' /\ ~wild' /\ (shadow_fb' = "fits" <=> sent'[1].supported)
      BY <1>1, <2>2, <2>7
    <2>9. pc' = "crashed" => ~sent[1].supported
      BY <1>3, <2>2
    <2>10. complete <=> rows' = 0
      <3>1. rows' = 0 <=> rows = 1
        BY <1>2, <1>7
      <3> QED
        BY <1>4, <3>1, Zenon
    <2>11. CASE complete
      <3>1. (pc' = "select" \/ pc' = "crashed") /\ buffer' = <<>>
        BY <1>3, <2>6, <2>10, <2>11
      <3> QED
        BY <2>6, <2>7, <2>8, <2>9, <3>1 DEF Place
    <2>12. CASE ~complete
      <3>1. pc' = "row" \/ pc' = "crashed"
        BY <1>3, <2>10, <2>12
      <3>2. Len(buffer') = b + 2 /\ current' = current
        BY <2>6, <2>12, Zenon DEF current
      <3>3. /\ current' <= Len(sent') /\ rows' <= sent'[current'].rows
            /\ Len(buffer') = 4 + 2 * (sent'[current'].rows - rows')
        <4>1. sent'[current'].rows = m
          BY <2>4, <2>7, <3>2, Zenon
        <4>2. PICK x \in Nat : x = rows
          BY <1>7
        <4>3. /\ x - 1 <= m /\ b + 2 = 4 + 2 * (m - (x - 1))
          BY <2>4, <4>2
        <4>4. rows' = x - 1
          BY <1>2, <4>2, Zenon
        <4>5. current <= Len(sent)
          BY <1>1, <2>3 DEF TypeOK
        <4> QED
          BY <2>7, <3>2, <4>1, <4>3, <4>4, <4>5, Zenon
      <3>4. pc' = "row" => /\ pc' \notin {"select", "event", "greeting"} /\ pc' # "crashed"
                          /\ pc' \notin {"greeting", "description"} /\ pc' \notin {"description", "rectangle"}
        BY <3>1
      <3> QED
        BY <2>6, <2>7, <2>8, <2>9, <3>1, <3>3, <3>4, Zenon DEF Place
    <2> QED
      BY <2>11, <2>12
  <1>10. NoCrash'
    <2>1. sent' = sent
      BY <1>2 DEF child
    <2> QED
      BY <1>9, <2>1, Zenon DEF NoCrash
  <1> QED
    BY <1>8, <1>9, <1>10, Zenon DEF Inv

-----------------------------------------------------------------------------
(* The child *)

LEMMA KidBeginsKeeps ==
    ASSUME Inv, ~Ended, NEW frame \in Frame, KidBegins(frame),
           IF sent = <<>> THEN frame.type = "VFBINFO" /\ frame.rows = 0 ELSE frame.type = "DIRTYPIXELS"
    PROVE  Inv'
  <1>1. TypeOK /\ Phase /\ Frames /\ Line /\ EventsWhole
    BY Zenon DEF Inv
  <1>2. /\ kid /\ pending = <<>> /\ kid' = kid
        /\ UNCHANGED <<server, pipe, reset, page, messages, output>>
    BY DEF KidBegins
  <1>3. PICK s \in Nat : s = Len(sent) /\ s + 1 \in 1 .. MaxFrames /\ s + 1 <= MaxFrames
    BY <1>1, ChannelAssumption DEF TypeOK, KidBegins
  <1>4. /\ sent' \in Seq(Frame) /\ Len(sent') = s + 1 /\ sent'[s + 1] = frame
        /\ \A f \in 1 .. s : sent'[f] = sent[f]
    <2>1. sent' = Append(sent, frame) /\ sent \in Seq(Frame)
      BY <1>1, Zenon DEF TypeOK, KidBegins
    <2> QED
      BY <1>3, <2>1, AppendProperties
  <1>5. PICK m \in Nat, q \in Nat : m = frame.rows /\ q = 4 + 2 * m
    BY ChannelAssumption DEF Frame
  <1>6. /\ pending' \in Seq(Unit) /\ Len(pending') = q
        /\ \A k \in 1 .. q : pending'[k] = [frame |-> s + 1, at |-> k]
    <2>1. pending' = Units(s + 1, frame)
      BY <1>4, Zenon DEF KidBegins
    <2> QED
      BY <1>3, <1>5, <2>1, UnitsOfFrame
  <1>7. TypeOK'
    BY <1>1, <1>2, <1>4, <1>6, Zenon DEF TypeOK, server, page, output
  <1>8. Phase' /\ EventsWhole' /\ NoCrash'
    BY <1>1, <1>2 DEF Phase, EventsWhole, NoCrash, Ended, server, output
  <1>9. Frames'
    <2>1. ASSUME NEW f \in 1 .. s + 1
          PROVE  IF f = 1 THEN sent'[f].type = "VFBINFO" /\ sent'[f].rows = 0
                 ELSE sent'[f].type = "DIRTYPIXELS"
      <3>1. CASE f \in 1 .. s
        BY <1>1, <1>3, <1>4, <3>1, Zenon DEF Frames
      <3>2. CASE f \notin 1 .. s
        <4>1. f = s + 1 /\ (f = 1 <=> s = 0)
          BY <3>2
        <4>2. s = 0 <=> sent = <<>>
          BY <1>1, <1>3, EmptySeq DEF TypeOK
        <4> QED
          BY <1>4, <4>1, <4>2, Zenon
      <3> QED
        BY <3>1, <3>2
    <2> QED
      BY <1>3, <1>4, <2>1, Zenon DEF Frames
  <1>10. PICK p \in Nat : p = Len(pipe) /\ Waiting = p /\ Waiting' = p + q /\ pipe' = pipe
    <2>1. Len(pipe) \in Nat /\ Len(pending) = 0 /\ pipe' = pipe
      BY <1>1, <1>2, EmptySeq DEF TypeOK
    <2> QED
      BY <1>6, <2>1 DEF Waiting
  <1>11. /\ \A k \in 1 .. p : k \in 1 .. p + q /\ Coming(k)' = Coming(k)
         /\ \A k \in 1 .. q : Coming(p + k)' = [frame |-> s + 1, at |-> k]
    <2>1. ASSUME NEW k \in 1 .. p
          PROVE  k \in 1 .. p + q /\ Coming(k)' = Coming(k)
      <3>1. k <= p /\ k \in 1 .. p + q
        OBVIOUS
      <3> QED
        BY <1>10, <3>1, Zenon DEF Coming
    <2>2. ASSUME NEW k \in 1 .. q
          PROVE  Coming(p + k)' = [frame |-> s + 1, at |-> k]
      <3>1. ~(p + k <= p) /\ (p + k) - p = k
        OBVIOUS
      <3>2. Coming(p + k)' = pending'[(p + k) - p]
        BY <1>10, <3>1, Zenon DEF Coming
      <3> QED
        BY <1>6, <3>1, <3>2, Zenon
    <2> QED
      BY <2>1, <2>2
  <1>12. (\A f \in 1 .. s : f \in 1 .. s + 1 /\ Size(f)' = Size(f)) /\ Size(s + 1)' = q
    <2>1. ASSUME NEW f \in 1 .. s
          PROVE  f \in 1 .. s + 1
      OBVIOUS
    <2> QED
      BY <1>4, <1>5, <2>1, Zenon DEF Size
  <1>13. Line'
    <2>1. ASSUME NEW k \in 1 .. p + q
          PROVE  Coming(k)' \in Unit /\ Within(Coming(k))'
      <3>1. CASE k \in 1 .. p
        <4>1. Coming(k) \in Unit /\ Within(Coming(k)) /\ Coming(k)' = Coming(k)
          BY <1>1, <1>10, <1>11, <3>1, Zenon DEF Line
        <4> QED
          BY <1>3, <1>4, <1>12, <4>1, Zenon DEF Within
      <3>2. CASE k \notin 1 .. p
        <4>1. PICK i \in 1 .. q : k = p + i /\ i <= q /\ i \in 1 .. 4 + 2 * MaxRows
          <5>1. k - p \in 1 .. q /\ k = p + (k - p) /\ k - p <= q
            BY <3>2
          <5>2. m <= MaxRows
            BY <1>5 DEF Frame
          <5>3. k - p \in 1 .. 4 + 2 * MaxRows
            BY <1>5, <5>1, <5>2, ChannelAssumption
          <5> QED
            BY <5>1, <5>3, Zenon
        <4>2. Coming(k)' = [frame |-> s + 1, at |-> i]
          BY <1>11, <4>1, Zenon
        <4>3. s + 1 \in 1 .. s + 1
          OBVIOUS
        <4>4. Coming(k)'.frame = s + 1 /\ Coming(k)'.at = i
          BY <4>2
        <4>5. Coming(k)' \in Unit
          BY <1>3, <4>1, <4>2 DEF Unit
        <4> QED
          BY <1>4, <1>12, <4>1, <4>3, <4>4, <4>5, Zenon DEF Within
      <3> QED
        BY <3>1, <3>2
    <2>2. ASSUME NEW k \in 1 .. p + q - 1
          PROVE  Follows(Coming(k), Coming(k + 1))'
      <3>1. CASE k < p
        <4>1. k \in 1 .. p /\ k + 1 \in 1 .. p /\ k \in 1 .. p - 1
          BY <3>1
        <4>2. Follows(Coming(k), Coming(k + 1)) /\ Within(Coming(k))
          BY <1>1, <1>10, <4>1, Zenon DEF Line
        <4> QED
          BY <1>3, <1>11, <1>12, <4>1, <4>2, Zenon DEF Follows, Within
      <3>2. CASE k = p
        <4>1. p \in 1 .. p /\ p > 0 /\ 1 \in 1 .. q
          BY <1>5, <3>2
        <4>2. IsLast(Coming(p)) /\ Within(Coming(p))
          BY <1>1, <1>2, <1>10, <4>1, Zenon DEF Line
        <4>3. Coming(p)' = Coming(p) /\ Coming(p + 1)' = [frame |-> s + 1, at |-> 1]
          BY <1>11, <4>1, Zenon
        <4>4. Coming(p).frame = s /\ Coming(p).at = Size(s) /\ Size(s)' = Size(s)
          BY <1>3, <1>12, <4>2, Zenon DEF IsLast, Within
        <4>5. ~(Size(s) < Size(s))
          <5>1. s \in 1 .. s
            BY <1>3, <4>2, <4>4, Zenon DEF Within
          <5>2. sent[s] \in Frame
            BY <1>1, <1>3, <5>1, ElementOfSeq DEF TypeOK
          <5>3. Size(s) \in Nat
            BY <5>2, ChannelAssumption DEF Size, Frame
          <5> QED
            BY <5>3
        <4>6. Coming(p + 1)'.frame = s + 1 /\ Coming(p + 1)'.at = 1
          BY <4>3
        <4> QED
          BY <3>2, <4>3, <4>4, <4>5, <4>6, Zenon DEF Follows
      <3>3. CASE k > p
        <4>1. PICK i \in 1 .. q : k = p + i /\ i + 1 \in 1 .. q /\ k + 1 = p + (i + 1) /\ i < q
          <5>1. k - p \in 1 .. q /\ k = p + (k - p) /\ (k - p) + 1 \in 1 .. q
                /\ k + 1 = p + ((k - p) + 1) /\ k - p < q
            BY <3>3
          <5> QED
            BY <5>1, Zenon
        <4>2. Coming(k)' = [frame |-> s + 1, at |-> i] /\ Coming(k + 1)' = [frame |-> s + 1, at |-> i + 1]
          BY <1>11, <4>1, Zenon
        <4>3. /\ Coming(k)'.frame = s + 1 /\ Coming(k)'.at = i
              /\ Coming(k + 1)'.frame = s + 1 /\ Coming(k + 1)'.at = i + 1
          BY <4>2
        <4> QED
          BY <1>12, <4>1, <4>3, Zenon DEF Follows
      <3> QED
        BY <3>1, <3>2, <3>3
    <2>3. IsLast(Coming(p + q))'
      <3>1. q \in 1 .. q
        <4>1. 1 <= q
          BY <1>5
        <4> QED
          BY <4>1
      <3>2. Coming(p + q)' = [frame |-> s + 1, at |-> q]
        BY <1>11, <3>1, Zenon
      <3>3. Coming(p + q)'.frame = s + 1 /\ Coming(p + q)'.at = q
        BY <3>2
      <3> QED
        BY <1>4, <1>12, <3>3, Zenon DEF IsLast
    <2>4. Waiting' = p + q /\ (Waiting - 1)' = p + q - 1
      BY <1>10
    <2> QED
      BY <2>1, <2>2, <2>3, <2>4, Zenon DEF Line
  <1>14. ASSUME ~mishap'
         PROVE  InStep' /\ Place'
    <2>1. ~mishap /\ InStep /\ Place
      BY <1>2, <1>14 DEF server, Ended, Inv
    <2>2. PICK h \in Nat : h = Len(handled) /\ h <= s /\ h <= s + 1
      BY <1>1, <1>3, <2>1 DEF InStep, TypeOK
    <2>3. handled' = handled /\ buffer' = buffer /\ current' = current /\ current = h + 1 /\ current \in Nat
      BY <1>2, <2>2 DEF server, current
    <2>4. Coming(1)'.frame = h + 1 /\ Coming(1)'.at = Len(buffer) + 1
      <3>1. CASE p > 0
        <4>1. 1 \in 1 .. p
          BY <3>1
        <4> QED
          BY <1>10, <1>11, <2>1, <2>3, <3>1, <4>1, Zenon DEF InStep
      <3>2. CASE p = 0
        <4>1. h = s /\ buffer = <<>> /\ Len(buffer) = 0
          BY <1>2, <1>3, <1>10, <2>1, <2>2, <3>2, EmptySeq DEF InStep
        <4>2. 1 \in 1 .. q /\ p + 1 = 1
          BY <1>5, <3>2
        <4>3. Coming(1)' = [frame |-> s + 1, at |-> 1]
          BY <1>11, <4>2, Zenon
        <4> QED
          BY <4>1, <4>3
      <3> QED
        BY <3>1, <3>2
    <2>5. ASSUME NEW f \in 1 .. h
          PROVE  handled'[f] = Units(f, sent'[f])
      <3>1. f \in 1 .. s
        BY <2>2
      <3> QED
        BY <1>4, <2>1, <2>2, <2>3, <3>1, Zenon DEF InStep
    <2>6. Waiting' # 0
      BY <1>5, <1>10
    <2>7. InStep'
      BY <1>4, <2>1, <2>2, <2>3, <2>4, <2>5, <2>6, Zenon DEF InStep
    <2>8. Place'
      <3>1. handled # <<>> => sent'[1] = sent[1]
        <4>1. handled # <<>> => 1 \in 1 .. s
          BY <1>1, <2>2, EmptySeq DEF TypeOK
        <4> QED
          BY <1>4, <4>1, Zenon
      <3>2. current <= Len(sent) => current \in 1 .. s /\ current <= s + 1
        BY <1>3, <2>2, <2>3
      <3>3. current <= Len(sent) => sent'[current'] = sent[current] /\ current' <= Len(sent')
        BY <1>4, <2>3, <3>2, Zenon
      <3>4. UNCHANGED <<pc, fd, shadow_fb, wild, rows>>
        BY <1>2 DEF server
      <3> QED
        BY <2>1, <2>3, <3>1, <3>3, <3>4, Zenon DEF Place
    <2> QED
      BY <2>7, <2>8
  <1> QED
    BY <1>7, <1>8, <1>9, <1>13, <1>14, Zenon DEF Inv

\* The units that are on their way stay where they are in the line, or are lost with
\* the child.
LEMMA LineKept ==
    ASSUME TypeOK, Line, UNCHANGED <<sent, handled, buffer>>,
           NEW w \in Nat, NEW v \in Nat, Waiting = w, Waiting' = v, v <= w, kid' => kid /\ v = w,
           \A k \in 1 .. v : Coming(k)' = Coming(k)
    PROVE  Line' /\ (InStep => InStep')
  <1>1. ASSUME NEW k \in 1 .. v
        PROVE  Coming(k)' \in Unit /\ Within(Coming(k))'
    <2>1. k \in 1 .. w
      OBVIOUS
    <2>2. Coming(k) \in Unit /\ Within(Coming(k)) /\ Coming(k)' = Coming(k)
      BY <2>1, Zenon DEF Line
    <2> QED
      BY <2>2, Zenon DEF Within, Size
  <1>2. ASSUME NEW k \in 1 .. v - 1
        PROVE  Follows(Coming(k), Coming(k + 1))'
    <2>1. k \in 1 .. w - 1 /\ k \in 1 .. v /\ k + 1 \in 1 .. v
      OBVIOUS
    <2>2. Follows(Coming(k), Coming(k + 1))
      BY <2>1, Zenon DEF Line
    <2>3. Coming(k)' = Coming(k) /\ Coming(k + 1)' = Coming(k + 1)
      BY <2>1, Zenon
    <2> QED
      BY <2>2, <2>3, Zenon DEF Follows, Size
  <1>3. ASSUME kid', v > 0
        PROVE  IsLast(Coming(v))'
    <2>1. v \in 1 .. v /\ w > 0 /\ v = w /\ kid
      BY <1>3
    <2>2. IsLast(Coming(v)) /\ Coming(v)' = Coming(v)
      BY <2>1, Zenon DEF Line
    <2> QED
      BY <2>2, Zenon DEF IsLast, Size
  <1>4. (Waiting - 1)' = v - 1
    OBVIOUS
  <1>5. Line'
    BY <1>1, <1>2, <1>3, <1>4, Zenon DEF Line
  <1>6. ASSUME InStep
        PROVE  InStep'
    <2>1. v > 0 => w > 0 /\ 1 \in 1 .. v
      OBVIOUS
    <2>2. current' = current
      BY Zenon DEF current
    <2>3. kid' /\ v = 0 => kid /\ w = 0
      BY Zenon
    <2> QED
      BY <1>6, <2>1, <2>2, <2>3, Zenon DEF InStep
  <1> QED
    BY <1>5, <1>6

LEMMA KidWritesKeeps ==
    ASSUME Inv, KidWrites
    PROVE  Inv'
  <1>1. TypeOK /\ Phase /\ Frames /\ Line /\ EventsWhole
    BY Zenon DEF Inv
  <1>2. /\ kid /\ pending # <<>> /\ pipe' = Append(pipe, Head(pending)) /\ pending' = Tail(pending)
        /\ UNCHANGED <<kid, sent, server, reset, page, messages, output>>
        /\ Len(pipe) < PipeLimit
    BY DEF KidWrites
  <1>3. PICK p \in Nat, q \in Nat : /\ p = Len(pipe) /\ q = Len(pending) /\ q # 0 /\ q - 1 \in Nat
                                    /\ Waiting = p + q /\ p + q \in Nat /\ p + 1 <= PipeLimit
    BY <1>1, <1>2, EmptySeq, ChannelAssumption DEF TypeOK, Waiting
  <1>4. /\ pending' \in Seq(Unit) /\ Len(pending') = q - 1
        /\ \A k \in 1 .. q - 1 : pending'[k] = pending[k + 1]
        /\ Head(pending) \in Unit /\ Head(pending) = pending[1]
    BY <1>1, <1>2, <1>3, HeadTailProperties, ElementOfSeq DEF TypeOK
  <1>5. /\ pipe' \in Seq(Unit) /\ Len(pipe') = p + 1
        /\ \A k \in 1 .. p : pipe'[k] = pipe[k]
        /\ pipe'[p + 1] = pending[1]
    BY <1>1, <1>2, <1>3, <1>4, AppendProperties DEF TypeOK
  <1>6. TypeOK'
    <2>1. Len(pipe') <= PipeLimit
      BY <1>3, <1>5
    <2> QED
      BY <1>1, <1>2, <1>4, <1>5, <2>1, Zenon DEF TypeOK, server, page, output
  <1>7. Waiting' = p + q
    <2>1. Waiting' = (p + 1) + (q - 1)
      BY <1>4, <1>5, Zenon DEF Waiting
    <2> QED
      BY <1>3, <2>1
  <1>8. ASSUME NEW k \in 1 .. p + q
        PROVE  Coming(k)' = Coming(k)
    <2>1. CASE k \in 1 .. p
      <3>1. k <= p /\ k <= p + 1
        BY <2>1
      <3> QED
        BY <1>3, <1>5, <2>1, <3>1, Zenon DEF Coming
    <2>2. CASE k = p + 1
      <3>1. k <= p + 1 /\ ~(k <= p) /\ k - p = 1
        BY <2>2
      <3> QED
        BY <1>3, <1>5, <2>2, <3>1, Zenon DEF Coming
    <2>3. CASE k \notin 1 .. p /\ k # p + 1
      <3>1. ~(k <= p) /\ ~(k <= p + 1) /\ k - (p + 1) \in 1 .. q - 1 /\ (k - (p + 1)) + 1 = k - p
        BY <1>3, <2>3
      <3>2. Coming(k)' = pending'[k - (p + 1)]
        BY <1>5, <3>1, Zenon DEF Coming
      <3>3. Coming(k) = pending[k - p]
        BY <1>3, <3>1, Zenon DEF Coming
      <3> QED
        BY <1>4, <3>1, <3>2, <3>3, Zenon
    <2> QED
      BY <2>1, <2>2, <2>3
  <1>9. UNCHANGED <<pc, fd, shadow_fb, wild, rows, buffer, handled, mishap, kid, sent, writing>>
    BY <1>2 DEF server, output
  <1>10. Line' /\ (InStep => InStep')
    <2>1. UNCHANGED <<sent, handled, buffer>> /\ p + q <= p + q /\ (kid' => kid /\ p + q = p + q)
      BY <1>2, <1>3, <1>9
    <2> QED
      BY <1>1, <1>3, <1>7, <1>8, <2>1, LineKept, Zenon
  <1>11. Place => Place'
    BY <1>9, Zenon DEF Place, current
  <1>12. Phase' /\ Frames' /\ EventsWhole' /\ NoCrash'
    <2>1. Phase' /\ EventsWhole'
      BY <1>1, <1>2, <1>9 DEF Phase, EventsWhole, output
    <2>2. Frames' /\ NoCrash'
      BY <1>1, <1>9, Zenon DEF Frames, NoCrash, Inv
    <2> QED
      BY <2>1, <2>2
  <1> QED
    BY <1>1, <1>6, <1>9, <1>10, <1>11, <1>12, Zenon DEF Inv

LEMMA KidExitsKeeps ==
    ASSUME Inv, KidExits
    PROVE  Inv'
  <1>1. TypeOK /\ Phase /\ Frames /\ Line /\ EventsWhole
    BY Zenon DEF Inv
  <1>2. /\ kid' = FALSE /\ pending' = <<>> /\ reset' = (events # <<>>)
        /\ UNCHANGED <<sent, server, pipe, page, messages, output>>
    BY DEF KidExits
  <1>3. TypeOK'
    <2>1. pending' \in Seq(Unit) /\ reset' \in BOOLEAN /\ kid' \in BOOLEAN
      BY <1>2, EmptySeq
    <2> QED
      BY <1>1, <1>2, <2>1, Zenon DEF TypeOK, server, page, output
  <1>4. PICK p \in Nat, q \in Nat : p = Len(pipe) /\ q = Len(pending) /\ Waiting = p + q
    BY <1>1 DEF TypeOK, Waiting
  <1>5. Waiting' = p /\ pipe' = pipe
    <2>1. Len(pending') = 0 /\ pipe' = pipe
      BY <1>2, EmptySeq
    <2> QED
      BY <1>4, <2>1 DEF Waiting
  <1>6. ASSUME NEW k \in 1 .. p
        PROVE  Coming(k)' = Coming(k)
    <2>1. k <= p
      OBVIOUS
    <2> QED
      BY <1>4, <1>5, <2>1, Zenon DEF Coming
  <1>7. UNCHANGED <<pc, fd, shadow_fb, wild, rows, buffer, handled, mishap, sent, writing>>
    BY <1>2 DEF server, output
  <1>8. Line' /\ (InStep => InStep')
    <2>1. UNCHANGED <<sent, handled, buffer>> /\ p <= p + q /\ p + q \in Nat /\ ~kid'
      BY <1>2, <1>4, <1>7
    <2> QED
      BY <1>1, <1>4, <1>5, <1>6, <2>1, LineKept, Zenon
  <1>9. Place => Place'
    BY <1>7, Zenon DEF Place, current
  <1>10. Phase' /\ Frames' /\ EventsWhole' /\ NoCrash'
    <2>1. Phase' /\ EventsWhole'
      BY <1>1, <1>2, <1>7 DEF Phase, EventsWhole, output
    <2>2. Frames' /\ NoCrash'
      BY <1>1, <1>7, Zenon DEF Frames, NoCrash, Inv
    <2> QED
      BY <2>1, <2>2
  <1> QED
    BY <1>1, <1>3, <1>7, <1>8, <1>9, <1>10, Zenon DEF Inv

-----------------------------------------------------------------------------
(* The page, and what touches no unit *)

\* Steps that leave what the child writes and what the server has read of it alone.
LEMMA Untouched ==
    ASSUME Inv,
           UNCHANGED <<fd, shadow_fb, wild, rows, buffer, handled, mishap, kid, pending, pipe, sent>>,
           pc' = pc \/ (fd /\ pc \in {"select", "event"} /\ pc' \in {"select", "event"})
    PROVE  /\ Frames' /\ Line' /\ NoCrash'
           /\ ~mishap' /\ pc' \notin {"closed", "crashed"} => Place'
           /\ ~mishap' => InStep'
  <1>1. TypeOK /\ Phase /\ Frames /\ Line
    BY Zenon DEF Inv
  <1>2. Line' /\ (InStep => InStep')
    <2>1. PICK w \in Nat : Waiting = w
      BY <1>1 DEF TypeOK, Waiting
    <2>2. w <= w /\ Waiting' = w /\ (kid' => kid /\ w = w)
      BY <2>1 DEF Waiting
    <2>3. \A k \in 1 .. w : Coming(k)' = Coming(k)
      BY Zenon DEF Coming
    <2> QED
      BY <1>1, <2>1, <2>2, <2>3, LineKept, Zenon
  <1>3. Frames'
    BY <1>1, Zenon DEF Frames
  <1>4. NoCrash'
    <2>1. pc' = "crashed" => pc = "crashed"
      OBVIOUS
    <2> QED
      BY <2>1, Zenon DEF NoCrash, Inv
  <1>5. ASSUME ~mishap', pc' \notin {"closed", "crashed"}
        PROVE  Place'
    <2>1. pc' = pc => Place'
      BY <1>5, Zenon DEF Place, current, Inv
    <2>2. ASSUME fd, pc \in {"select", "event"}, pc' \in {"select", "event"}
          PROVE  Place'
      <3>1. Place /\ buffer = <<>>
        BY <1>5, <2>2 DEF Inv, Place
      <3>2. pc \notin {"greeting", "description"} /\ pc' \notin {"greeting", "description"}
        BY <2>2
      <3>3. pc' # "row" /\ pc' \notin {"description", "rectangle"}
        BY <2>2
      <3> QED
        BY <2>2, <3>1, <3>2, <3>3, Zenon DEF Place
    <2> QED
      BY <2>1, <2>2, Zenon
  <1>6. ~mishap' => InStep'
    BY <1>2, Zenon DEF Inv
  <1> QED
    BY <1>2, <1>3, <1>4, <1>5, <1>6

LEMMA PageSendsKeeps ==
    ASSUME Inv, NEW kinds \in Seq(Kinds), PageSends(kinds), mousedown' \in BOOLEAN
    PROVE  Inv'
  <1>1. TypeOK /\ Phase /\ Frames /\ Line /\ EventsWhole
    BY Zenon DEF Inv
  <1>2. /\ messages' = messages \o kinds /\ inputs' = inputs + Len(kinds)
        /\ UNCHANGED <<child, server, pipe, reset, output>>
    BY DEF PageSends
  <1>3. messages' \in Seq(Kinds) /\ inputs' \in Nat
    BY <1>1, <1>2, ConcatProperties DEF TypeOK
  <1>4. TypeOK'
    BY <1>1, <1>2, <1>3, Zenon DEF TypeOK, child, server, output
  <1>5. /\ UNCHANGED <<fd, shadow_fb, wild, rows, buffer, handled, mishap, kid, pending, pipe, sent>>
        /\ pc' = pc
    BY <1>2 DEF server, child
  <1>6. /\ Frames' /\ Line' /\ NoCrash'
        /\ ~mishap' /\ pc' \notin {"closed", "crashed"} => Place'
        /\ ~mishap' => InStep'
    BY <1>5, Untouched, Zenon
  <1>7. Phase' /\ EventsWhole'
    BY <1>1, <1>2 DEF Phase, EventsWhole, server, child, output
  <1> QED
    BY <1>4, <1>6, <1>7, Zenon DEF Inv

LEMMA AcceptKeeps ==
    ASSUME Inv, handle_us_accept
    PROVE  Inv'
  <1>1. TypeOK /\ Phase /\ Frames /\ Line /\ EventsWhole
    BY Zenon DEF Inv
  <1>2. /\ pc = "select" /\ ~fd /\ fd' = TRUE /\ pc' = "greeting"
        /\ UNCHANGED <<shadow_fb, wild, rows, buffer, handled, mishap, child, pipe, reset, page,
                       messages, output>>
    BY DEF handle_us_accept
  <1>3. TypeOK'
    <2>1. fd' \in BOOLEAN /\ pc' \in Reading \cup {"select", "event", "closed", "crashed"}
      BY <1>2 DEF Reading
    <2> QED
      BY <1>1, <1>2, <2>1, Zenon DEF TypeOK, child, page, output
  <1>4. UNCHANGED <<kid, pending, sent, writing, torn, received, events, undertaken>>
    BY <1>2 DEF child, output
  <1>5. Line' /\ (InStep => InStep')
    <2>1. PICK w \in Nat : Waiting = w
      BY <1>1 DEF TypeOK, Waiting
    <2>2. w <= w /\ Waiting' = w /\ (kid' => kid /\ w = w)
      BY <1>2, <1>4, <2>1 DEF Waiting
    <2>3. \A k \in 1 .. w : Coming(k)' = Coming(k)
      BY <1>2, <1>4, Zenon DEF Coming
    <2>4. UNCHANGED <<sent, handled, buffer>>
      BY <1>2, <1>4
    <2> QED
      BY <1>1, <2>1, <2>2, <2>3, <2>4, LineKept, Zenon
  <1>6. Phase' /\ EventsWhole' /\ NoCrash'
    BY <1>1, <1>2, <1>4 DEF Phase, EventsWhole, NoCrash
  <1>7. Frames'
    BY <1>1, <1>4, Zenon DEF Frames
  <1>8. ~mishap' => Place' /\ InStep'
    <2> SUFFICES ASSUME ~mishap'
                 PROVE  Place' /\ InStep'
      OBVIOUS
    <2>1. Place /\ InStep
      BY <1>2 DEF Inv
    <2>2. handled = <<>> /\ buffer = <<>> /\ ~wild
      BY <1>2, <2>1 DEF Place
    <2>3. Place'
      BY <1>2, <2>2 DEF Place
    <2> QED
      BY <1>5, <2>1, <2>3
  <1> QED
    BY <1>3, <1>5, <1>6, <1>7, <1>8, Zenon DEF Inv

-----------------------------------------------------------------------------
(* The events *)

LEMMA HeadMoves ==
    ASSUME NEW S, NEW a \in Seq(S), NEW b \in Seq(S), b # <<>>
    PROVE  /\ Append(a, Head(b)) \in Seq(S) /\ Tail(b) \in Seq(S)
           /\ Append(a, Head(b)) \o Tail(b) = a \o b
  <1>1. PICK p \in Nat, q \in Nat : p = Len(a) /\ q = Len(b) /\ q # 0 /\ q - 1 \in Nat
    BY EmptySeq, LenProperties
  <1>2. PICK h \in S, t \in Seq(S) : /\ h = Head(b) /\ t = Tail(b) /\ Len(t) = q - 1 /\ h = b[1]
                                     /\ \A i \in 1 .. q - 1 : t[i] = b[i + 1]
    <2>1. /\ Head(b) \in S /\ Tail(b) \in Seq(S) /\ Len(Tail(b)) = q - 1 /\ Head(b) = b[1]
          /\ \A i \in 1 .. q - 1 : Tail(b)[i] = b[i + 1]
      BY <1>1, HeadTailProperties
    <2> QED
      BY <2>1, Zenon
  <1>3. PICK c \in Seq(S) : /\ c = Append(a, h) /\ Len(c) = p + 1 /\ c[p + 1] = h
                            /\ \A i \in 1 .. p : c[i] = a[i]
    <2>1. /\ Append(a, h) \in Seq(S) /\ Len(Append(a, h)) = p + 1 /\ Append(a, h)[p + 1] = h
          /\ \A i \in 1 .. p : Append(a, h)[i] = a[i]
      BY <1>1, AppendProperties
    <2> QED
      BY <2>1, Zenon
  <1>4. PICK x \in Seq(S) : /\ x = c \o t /\ Len(x) = p + q
                            /\ \A i \in 1 .. p + q : x[i] = IF i <= p + 1 THEN c[i] ELSE t[i - (p + 1)]
    <2>1. /\ c \o t \in Seq(S) /\ Len(c \o t) = (p + 1) + (q - 1)
          /\ \A i \in 1 .. (p + 1) + (q - 1) : (c \o t)[i] = IF i <= p + 1 THEN c[i] ELSE t[i - (p + 1)]
      <3>1. /\ c \o t \in Seq(S) /\ Len(c \o t) = Len(c) + Len(t)
            /\ \A i \in 1 .. Len(c) + Len(t) : (c \o t)[i] = IF i <= Len(c) THEN c[i] ELSE t[i - Len(c)]
        BY ConcatProperties, Zenon
      <3> QED
        BY <1>2, <1>3, <3>1, Zenon
    <2>2. (p + 1) + (q - 1) = p + q
      OBVIOUS
    <2> QED
      BY <2>1, <2>2, Zenon
  <1>5. PICK y \in Seq(S) : /\ y = a \o b /\ Len(y) = p + q
                            /\ \A i \in 1 .. p + q : y[i] = IF i <= p THEN a[i] ELSE b[i - p]
    <2>1. /\ a \o b \in Seq(S) /\ Len(a \o b) = Len(a) + Len(b)
          /\ \A i \in 1 .. Len(a) + Len(b) : (a \o b)[i] = IF i <= Len(a) THEN a[i] ELSE b[i - Len(a)]
      BY ConcatProperties, Zenon
    <2> QED
      BY <1>1, <2>1, Zenon
  <1>6. ASSUME NEW i \in 1 .. p + q
        PROVE  x[i] = y[i]
    <2>1. CASE i \in 1 .. p
      <3>1. i <= p /\ i <= p + 1
        BY <2>1
      <3> QED
        BY <1>3, <1>4, <1>5, <2>1, <3>1, Zenon
    <2>2. CASE i = p + 1
      <3>1. i <= p + 1 /\ ~(i <= p) /\ i - p = 1
        BY <2>2
      <3> QED
        BY <1>2, <1>3, <1>4, <1>5, <2>2, <3>1, Zenon
    <2>3. CASE i \notin 1 .. p /\ i # p + 1
      <3>1. /\ ~(i <= p + 1) /\ ~(i <= p)
            /\ i - (p + 1) \in 1 .. q - 1 /\ (i - (p + 1)) + 1 = i - p
        BY <2>3
      <3> QED
        BY <1>2, <1>4, <1>5, <3>1, Zenon
    <2> QED
      BY <2>1, <2>2, <2>3
  <1>7. x = y
    BY <1>4, <1>5, <1>6, SeqEqual, Zenon
  <1> QED
    BY <1>2, <1>3, <1>4, <1>5, <1>7, Zenon

LEMMA KidReadsKeeps ==
    ASSUME Inv, KidReads
    PROVE  Inv'
  <1>1. TypeOK /\ Phase /\ Frames /\ Line /\ EventsWhole
    BY Zenon DEF Inv
  <1>2. /\ events # <<>> /\ received' = Append(received, Head(events)) /\ events' = Tail(events)
        /\ UNCHANGED <<child, server, pipe, reset, page, messages, writing, undertaken, torn, early>>
    BY DEF KidReads
  <1>3. /\ received' \in Seq(Struct) /\ events' \in Seq(Struct)
        /\ received' \o events' = received \o events
    <2>1. received \in Seq(Struct) /\ events \in Seq(Struct)
      BY <1>1, Zenon DEF TypeOK
    <2>2. /\ Append(received, Head(events)) \in Seq(Struct) /\ Tail(events) \in Seq(Struct)
          /\ Append(received, Head(events)) \o Tail(events) = received \o events
      BY <1>2, <2>1, HeadMoves, Zenon
    <2> QED
      BY <1>2, <2>2, Zenon
  <1>4. Len(events') <= EventLimit
    <2>1. Len(events') = Len(events) - 1 /\ Len(events) \in Nat /\ Len(events) <= EventLimit
      BY <1>1, <1>2, HeadTailProperties DEF TypeOK
    <2> QED
      BY <2>1, ChannelAssumption
  <1>5. TypeOK'
    <2>1. /\ UNCHANGED <<pc, fd, shadow_fb, wild, rows, buffer, handled, mishap, kid, pending, sent>>
          /\ UNCHANGED <<pipe, reset, mousedown, inputs, messages, writing, undertaken, torn, early>>
      BY <1>2 DEF child, server, page
    <2>2. received' \in Seq(Struct) /\ events' \in Seq(Struct)
      BY <1>3, Zenon
    <2> QED
      BY <1>1, <1>4, <2>1, <2>2 DEF TypeOK
  <1>6. EventsWhole'
    BY <1>1, <1>2, <1>3, Zenon DEF EventsWhole
  <1>7. UNCHANGED <<fd, shadow_fb, wild, rows, buffer, handled, mishap, kid, pending, pipe, sent>> /\ pc' = pc
    BY <1>2 DEF server, child
  <1>8. /\ Frames' /\ Line' /\ NoCrash'
        /\ ~mishap' /\ pc' \notin {"closed", "crashed"} => Place'
        /\ ~mishap' => InStep'
    BY <1>7, Untouched, Zenon
  <1>9. Phase'
    BY <1>1, <1>2, <1>7 DEF Phase
  <1> QED
    BY <1>5, <1>6, <1>8, <1>9, Zenon DEF Inv

LEMMA onmessageKeeps ==
    ASSUME Inv, onmessage
    PROVE  Inv'
  <1>1. TypeOK /\ Phase /\ Frames /\ Line /\ EventsWhole
    BY Zenon DEF Inv
  <1>2. /\ pc = "select" /\ messages # <<>> /\ messages' = Tail(messages)
        /\ UNCHANGED <<fd, shadow_fb, wild, rows, buffer, handled, mishap, child, pipe, reset, page,
                       events, received, torn>>
    BY DEF onmessage
  <1>3. messages' \in Seq(Kinds) /\ Head(messages) \in Kinds
    BY <1>1, <1>2, HeadTailProperties DEF TypeOK
  <1>4. PICK event \in Seq(Struct) : event = Event(Head(messages)) /\ event # <<>>
    <2>1. Event(Head(messages)) \in Seq(Struct) /\ Len(Event(Head(messages))) = 2
      BY <1>3 DEF Event, Struct
    <2> QED
      BY <2>1, EmptySeq
  <1>5. UNCHANGED <<fd, shadow_fb, wild, rows, buffer, handled, mishap, kid, pending, pipe, sent>>
    BY <1>2 DEF child
  <1>6. CASE fd
    <2>1. pc' = "event" /\ writing' = event /\ undertaken' = undertaken \o event /\ early' = early
      BY <1>4, <1>6, Zenon DEF onmessage
    <2>2. undertaken' \in Seq(Struct) /\ writing' \in Seq(Struct)
      BY <1>1, <2>1, ConcatProperties DEF TypeOK
    <2>3. TypeOK'
      <3>1. pc' \in Reading \cup {"select", "event", "closed", "crashed"}
        BY <2>1
      <3> QED
        BY <1>1, <1>2, <1>3, <2>1, <2>2, <3>1, Zenon DEF TypeOK, child, page
    <2>4. EventsWhole'
      <3>1. writing = <<>>
        BY <1>1, <1>2 DEF Phase
      <3>2. received \o events \in Seq(Struct)
        BY <1>1, ConcatProperties DEF TypeOK
      <3>3. (received \o events) \o writing = received \o events
        BY <3>1, <3>2, ConcatEmptySeq, Zenon
      <3> QED
        BY <1>1, <1>2, <2>1, <3>3, Zenon DEF EventsWhole
    <2>5. fd /\ pc \in {"select", "event"} /\ pc' \in {"select", "event"}
      BY <1>2, <1>6, <2>1
    <2>6. /\ Frames' /\ Line' /\ NoCrash'
          /\ ~mishap' /\ pc' \notin {"closed", "crashed"} => Place'
          /\ ~mishap' => InStep'
      BY <1>5, <2>5, Untouched, Zenon
    <2>7. Phase'
      BY <1>1, <1>4, <1>5, <1>6, <2>1 DEF Phase
    <2> QED
      BY <2>3, <2>4, <2>6, <2>7, Zenon DEF Inv
  <1>7. CASE ~fd
    <2>1. early' = TRUE /\ UNCHANGED <<pc, writing, undertaken>>
      BY <1>7 DEF onmessage
    <2>2. TypeOK'
      <3>1. early' \in BOOLEAN
        BY <2>1
      <3> QED
        BY <1>1, <1>2, <1>3, <2>1, <3>1, Zenon DEF TypeOK, child, page
    <2>3. EventsWhole' /\ Phase'
      BY <1>1, <1>2, <1>5, <2>1 DEF EventsWhole, Phase
    <2>4. pc' = pc
      BY <2>1
    <2>5. /\ Frames' /\ Line' /\ NoCrash'
          /\ ~mishap' /\ pc' \notin {"closed", "crashed"} => Place'
          /\ ~mishap' => InStep'
      BY <1>5, <2>4, Untouched, Zenon
    <2> QED
      BY <2>2, <2>3, <2>5, Zenon DEF Inv
  <1> QED
    BY <1>6, <1>7

\* What a write() of the server keeps, failed or not.
LEMMA WriteKeeps ==
    ASSUME Inv, pc = "event", Written, events' \in Seq(Struct), Len(events') <= EventLimit,
           torn' \in BOOLEAN, EventsWhole'
    PROVE  Inv'
  <1>1. TypeOK /\ Phase
    BY Zenon DEF Inv
  <1>2. /\ writing' = Tail(writing) /\ (pc' = IF writing' = <<>> THEN "select" ELSE "event")
        /\ UNCHANGED <<fd, shadow_fb, wild, rows, buffer, handled, mishap, child, pipe, reset, page,
                       messages, undertaken, received, early>>
    BY DEF Written
  <1>3. writing' \in Seq(Struct) /\ fd
    BY <1>1, <1>2, HeadTailProperties DEF TypeOK, Phase
  <1>4. /\ UNCHANGED <<fd, shadow_fb, wild, rows, buffer, handled, mishap, kid, pending, pipe, sent>>
        /\ UNCHANGED <<reset, mousedown, inputs, messages, undertaken, received, early>>
    BY <1>2 DEF child, page
  <1>5. pc \in {"select", "event"} /\ pc' \in {"select", "event"}
    BY <1>2
  <1>6. TypeOK'
    <2>1. pc' \in Reading \cup {"select", "event", "closed", "crashed"}
      BY <1>5
    <2> QED
      BY <1>1, <1>3, <1>4, <2>1 DEF TypeOK
  <1>7. Phase'
    BY <1>1, <1>2, <1>3, <1>4 DEF Phase
  <1>8. /\ Frames' /\ Line' /\ NoCrash'
        /\ ~mishap' /\ pc' \notin {"closed", "crashed"} => Place'
        /\ ~mishap' => InStep'
    BY <1>3, <1>4, <1>5, Untouched, Zenon
  <1> QED
    BY <1>6, <1>7, <1>8, Zenon DEF Inv

LEMMA EventKeeps ==
    ASSUME Inv, Write \/ WriteFails
    PROVE  Inv'
  <1>1. TypeOK /\ Phase /\ EventsWhole
    BY Zenon DEF Inv
  <1>2. pc = "event" /\ Written
    BY Zenon DEF Write, WriteFails
  <1>3. writing # <<>> /\ writing \in Seq(Struct)
    BY <1>1, <1>2 DEF Phase, TypeOK
  <1>4. writing' = Tail(writing) /\ received' = received /\ undertaken' = undertaken
    BY <1>2 DEF Written
  <1>5. CASE Write
    <2>1. events' = Append(events, Head(writing)) /\ torn' = torn /\ Len(events) < EventLimit
      BY <1>5, Zenon DEF Write
    <2>2. events \in Seq(Struct) /\ received \in Seq(Struct)
      BY <1>1, Zenon DEF TypeOK
    <2>3. events' \in Seq(Struct) /\ writing' \in Seq(Struct) /\ events' \o writing' = events \o writing
      <3>1. /\ Append(events, Head(writing)) \in Seq(Struct) /\ Tail(writing) \in Seq(Struct)
            /\ Append(events, Head(writing)) \o Tail(writing) = events \o writing
        BY <1>3, <2>2, HeadMoves, Zenon
      <3> QED
        BY <1>4, <2>1, <3>1, Zenon
    <2>4. Len(events') <= EventLimit
      <3>1. Len(events') = Len(events) + 1 /\ Len(events) \in Nat
        BY <1>3, <2>1, <2>2, HeadTailProperties, AppendProperties
      <3> QED
        BY <2>1, <3>1, ChannelAssumption
    <2>5. EventsWhole'
      <3>1. (received \o events') \o writing' = received \o (events' \o writing')
        <4>1. events' \in Seq(Struct) /\ writing' \in Seq(Struct)
          BY <2>3, Zenon
        <4> QED
          BY <2>2, <4>1, ConcatAssociative
      <3>2. (received \o events) \o writing = received \o (events \o writing)
        BY <1>3, <2>2, ConcatAssociative
      <3>3. (received \o events') \o writing' = (received \o events) \o writing
        BY <2>3, <3>1, <3>2, Zenon
      <3> QED
        BY <1>1, <1>4, <2>1, <3>3, Zenon DEF EventsWhole
    <2>6. torn' \in BOOLEAN
      BY <1>1, <2>1, Zenon DEF TypeOK
    <2> QED
      BY <1>2, <2>3, <2>4, <2>5, <2>6, WriteKeeps, Zenon
  <1>6. CASE WriteFails
    <2>1. torn' = TRUE /\ events' = events
      BY <1>6 DEF WriteFails
    <2>2. events' \in Seq(Struct) /\ Len(events') <= EventLimit /\ torn' \in BOOLEAN /\ EventsWhole'
      BY <1>1, <2>1 DEF TypeOK, EventsWhole
    <2> QED
      BY <1>2, <2>2, WriteKeeps, Zenon
  <1> QED
    BY <1>5, <1>6

-----------------------------------------------------------------------------
(* The invariant *)

LEMMA Initially == Init => Inv
  <1> SUFFICES ASSUME Init PROVE Inv
    OBVIOUS
  <1>1. /\ pc = "select" /\ fd = FALSE /\ shadow_fb = "NULL" /\ wild = FALSE
        /\ rows = 0 /\ buffer = <<>> /\ writing = <<>>
        /\ kid = TRUE /\ pending = <<>> /\ pipe = <<>> /\ reset = FALSE
        /\ events = <<>> /\ mousedown = FALSE /\ messages = <<>> /\ inputs = 0
        /\ sent = <<>> /\ handled = <<>> /\ mishap = FALSE
        /\ undertaken = <<>> /\ received = <<>> /\ torn = FALSE /\ early = FALSE
    BY DEF Init
  <1>2. /\ Len(sent) = 0 /\ Len(handled) = 0 /\ Len(pipe) = 0 /\ Len(pending) = 0 /\ Len(events) = 0
        /\ Len(buffer) = 0
    BY <1>1, EmptySeq
  <1>3. TypeOK
    <2>1. /\ buffer \in Seq(Unit) /\ pending \in Seq(Unit) /\ pipe \in Seq(Unit)
          /\ writing \in Seq(Struct) /\ events \in Seq(Struct) /\ undertaken \in Seq(Struct)
          /\ received \in Seq(Struct) /\ messages \in Seq(Kinds) /\ sent \in Seq(Frame)
          /\ handled \in Seq(Seq(Unit))
      BY <1>1, EmptySeq, Zenon
    <2>2. 0 <= PipeLimit /\ 0 <= EventLimit /\ 0 \in 0 .. MaxRows
      BY ChannelAssumption
    <2>3. Len(pipe) <= PipeLimit /\ Len(events) <= EventLimit /\ rows \in 0 .. MaxRows
      BY <1>1, <1>2, <2>2, Zenon
    <2> QED
      BY <1>1, <2>1, <2>3 DEF TypeOK
  <1>4. Phase /\ Place /\ NoCrash
    BY <1>1 DEF Phase, Place, NoCrash
  <1>5. Waiting = 0 /\ 1 .. 0 = {} /\ 1 .. 0 - 1 = {} /\ 0 <= MaxFrames
    BY <1>2, ChannelAssumption DEF Waiting
  <1>6. Frames /\ Line
    BY <1>2, <1>5 DEF Frames, Line
  <1>7. InStep
    BY <1>1, <1>2, <1>5 DEF InStep
  <1>8. EventsWhole
    BY <1>1, ConcatEmptySeq, EmptySeq, Zenon DEF EventsWhole
  <1> QED
    BY <1>3, <1>4, <1>6, <1>7, <1>8, Zenon DEF Inv

LEMMA Stutters == Inv /\ UNCHANGED vars => Inv'
  <1> SUFFICES ASSUME Inv, UNCHANGED vars PROVE Inv'
    OBVIOUS
  <1>1. /\ UNCHANGED <<fd, shadow_fb, wild, rows, buffer, handled, mishap, kid, pending, pipe, sent>>
        /\ UNCHANGED <<reset, mousedown, inputs, messages, writing, events, undertaken, received, torn, early>>
        /\ pc' = pc
    BY DEF vars, server, child, page, output
  <1>2. TypeOK /\ Phase /\ EventsWhole
    BY Zenon DEF Inv
  <1>3. TypeOK' /\ Phase' /\ EventsWhole'
    BY <1>1, <1>2 DEF TypeOK, Phase, EventsWhole
  <1>4. /\ Frames' /\ Line' /\ NoCrash'
        /\ ~mishap' /\ pc' \notin {"closed", "crashed"} => Place'
        /\ ~mishap' => InStep'
    BY <1>1, Untouched, Zenon
  <1> QED
    BY <1>3, <1>4, Zenon DEF Inv

LEMMA Steps == Inv /\ Next => Inv'
  <1> SUFFICES ASSUME Inv, Next PROVE Inv'
    OBVIOUS
  <1>1. CASE ~Ended /\ KidGreets
    <2>1. PICK frame \in Greetings : sent = <<>> /\ KidBegins(frame)
      BY <1>1, Zenon DEF KidGreets
    <2>2. frame \in Frame /\ frame.type = "VFBINFO" /\ frame.rows = 0
      BY ChannelAssumption DEF Greetings, Frame
    <2> QED
      BY <1>1, <2>1, <2>2, KidBeginsKeeps, Zenon
  <1>2. CASE ~Ended /\ KidDraws
    <2>1. PICK frame \in Drawings : sent # <<>> /\ KidBegins(frame)
      BY <1>2, Zenon DEF KidDraws
    <2>2. frame \in Frame /\ frame.type = "DIRTYPIXELS"
      <3>1. PICK n \in 0 .. MaxRows : frame = [type |-> "DIRTYPIXELS", rows |-> n, supported |-> TRUE]
        BY Zenon DEF Drawings
      <3> QED
        BY <3>1 DEF Frame
    <2> QED
      BY <1>2, <2>1, <2>2, KidBeginsKeeps, Zenon
  <1>3. CASE onmousedown \/ onmouseup \/ onmousemove \/ sendkeyevent
    <2>1. PICK kinds \in Seq(Kinds) : PageSends(kinds)
      <3>1. /\ <<"MOUSEDOWN">> \in Seq(Kinds) /\ <<"MOUSEUP">> \in Seq(Kinds)
            /\ <<"MOUSEMOVE">> \in Seq(Kinds) /\ <<"KEYDOWN", "KEYUP">> \in Seq(Kinds)
        BY DEF Kinds
      <3> QED
        BY <1>3, <3>1, Zenon DEF onmousedown, onmouseup, onmousemove, sendkeyevent
    <2>2. mousedown' \in BOOLEAN
      BY <1>3 DEF onmousedown, onmouseup, onmousemove, sendkeyevent, Inv, TypeOK
    <2> QED
      BY <2>1, <2>2, PageSendsKeeps, Zenon
  <1>4. Reads => Inv'
    BY ReadGreetingKeeps, ReadDescriptionKeeps, ReadHeaderKeeps, ReadRectangleKeeps, ReadRowKeeps,
       Zenon DEF Reads
  <1>5. \/ (~Ended /\ KidGreets) \/ (~Ended /\ KidDraws) \/ KidWrites \/ KidReads \/ KidExits
        \/ onmousedown \/ onmouseup \/ onmousemove \/ sendkeyevent
        \/ handle_us_accept \/ Reads \/ onmessage \/ Write \/ WriteFails
    BY Zenon DEF Next, Others
  <1> QED
    BY <1>1, <1>2, <1>3, <1>4, <1>5, KidWritesKeeps, KidReadsKeeps, KidExitsKeeps, AcceptKeeps,
       onmessageKeeps, EventKeeps, Zenon

LEMMA Invariant == Spec => []Inv
  <1>1. Inv /\ [Next]_vars => Inv'
    BY Steps, Stutters
  <1> QED
    BY Initially, <1>1, PTL DEF Spec

-----------------------------------------------------------------------------
(* Gestures: what has been passed on to the child, and the messages after it. *)

\* The button is down after the first n of s.
Down(s, n) == \E j \in 1 .. n : s[j] = "MOUSEDOWN" /\ \A k \in j .. n : s[k] # "MOUSEUP"

\* It is after all of u and the first n of m.
DownAfter(u, m, n) == \/ Down(m, n)
                      \/ Down(u, Len(u)) /\ \A k \in 1 .. n : m[k] # "MOUSEUP"

Sensible(u) ==
    \A i \in 1 .. Len(u) : /\ u[i] = "MOUSEMOVE" => Down(u, i)
                           /\ u[i] = "KEYUP" => i > 2 /\ u[i - 2] = "KEYDOWN"

Continues(u, m) ==
    \A i \in 1 .. Len(m) :
        /\ m[i] = "MOUSEMOVE" => DownAfter(u, m, i)
        /\ m[i] = "KEYUP" /\ i = 1 => Len(u) > 0 /\ u[Len(u)] = "KEYDOWN"
        /\ m[i] = "KEYUP" /\ i > 1 => m[i - 1] = "KEYDOWN"

Gestures ==
    ~early => /\ Sensible(undertaken) /\ Continues(undertaken, messages)
              /\ mousedown => DownAfter(undertaken, messages, Len(messages))

\* v begins with u.
Extends(v, u) == Len(u) <= Len(v) /\ \A k \in 1 .. Len(u) : v[k] = u[k]

LEMMA TwoMore ==
    ASSUME NEW a \in Nat, NEW b, b = a + 2, NEW j \in 1 .. a
    PROVE  /\ j \in 1 .. b
           /\ \A k \in j .. b : k \in j .. a \/ k = a + 1 \/ k = a + 2
           /\ \A k \in j .. a : k \in 1 .. a
  OBVIOUS

LEMMA DownExtends ==
    ASSUME NEW u, NEW v, Len(u) \in Nat, Len(v) \in Nat, Extends(v, u), NEW n \in 1 .. Len(u)
    PROVE  Down(v, n) <=> Down(u, n)
  BY DEF Down, Extends

\* onmessage takes the first message to what has been passed on.
LEMMA PassedOn ==
    ASSUME NEW u \in Seq(Struct), NEW v \in Seq(Struct), NEW m \in Seq(Kinds), NEW t \in Seq(Kinds),
           Extends(v, u), Len(v) = Len(u) + 2, Len(m) = Len(t) + 1,
           v[Len(u) + 1] = "header", v[Len(u) + 2] = m[1],
           \A k \in 1 .. Len(t) : t[k] = m[k + 1],
           Sensible(u), Continues(u, m)
    PROVE  /\ Sensible(v) /\ Continues(v, t)
           /\ \A n \in 0 .. Len(t) : DownAfter(u, m, n + 1) => DownAfter(v, t, n)
  <1>1. Len(u) \in Nat /\ Len(v) \in Nat /\ Len(m) \in Nat /\ Len(t) \in Nat
    BY LenProperties
  <1>2. \A k \in 1 .. Len(u) : v[k] = u[k]
    BY DEF Extends
  <1>3. Down(u, Len(u)) /\ m[1] # "MOUSEUP" => Down(v, Len(v))
    <2> SUFFICES ASSUME Down(u, Len(u)), m[1] # "MOUSEUP" PROVE Down(v, Len(v))
      OBVIOUS
    <2>1. PICK j \in 1 .. Len(u) : u[j] = "MOUSEDOWN" /\ \A k \in j .. Len(u) : u[k] # "MOUSEUP"
      BY DEF Down
    <2>0. /\ j \in 1 .. Len(v)
          /\ \A k \in j .. Len(v) : k \in j .. Len(u) \/ k = Len(u) + 1 \/ k = Len(u) + 2
          /\ \A k \in j .. Len(u) : k \in 1 .. Len(u)
      <3>1. Len(v) = Len(u) + 2
        OBVIOUS
      <3> QED
        BY <1>1, <3>1, TwoMore, Zenon
    <2>2. v[j] = "MOUSEDOWN"
      BY <1>2, <2>1, Zenon
    <2>3. ASSUME NEW k \in j .. Len(v) PROVE v[k] # "MOUSEUP"
      <3>1. CASE k \in j .. Len(u)
        BY <1>2, <2>0, <2>1, <3>1, Zenon
      <3>2. CASE k = Len(u) + 1 \/ k = Len(u) + 2
        BY <3>2
      <3> QED
        BY <2>0, <3>1, <3>2, Zenon
    <2> QED
      BY <2>0, <2>2, <2>3, Zenon DEF Down
  <1>4. m[1] = "MOUSEDOWN" => Down(v, Len(v))
    <2>1. Len(v) \in 1 .. Len(v) /\ v[Len(v)] = m[1] /\ \A k \in Len(v) .. Len(v) : k = Len(v)
      BY <1>1
    <2> QED
      BY <2>1 DEF Down
  <1>5. ASSUME NEW n \in 0 .. Len(t), DownAfter(u, m, n + 1)
        PROVE  DownAfter(v, t, n)
    <2>0. \A k \in 1 .. n : t[k] = m[k + 1] /\ k + 1 \in 1 .. n + 1
      BY <1>1
    <2>1. CASE Down(u, Len(u)) /\ \A k \in 1 .. n + 1 : m[k] # "MOUSEUP"
      <3>1. m[1] # "MOUSEUP" /\ \A k \in 1 .. n : t[k] # "MOUSEUP"
        <4>1. 1 \in 1 .. n + 1
          BY <1>1
        <4> QED
          BY <2>0, <2>1, <4>1, Zenon
      <3> QED
        BY <1>3, <2>1, <3>1 DEF DownAfter
    <2>2. CASE Down(m, n + 1)
      <3>1. PICK j \in 1 .. n + 1 : m[j] = "MOUSEDOWN" /\ \A k \in j .. n + 1 : m[k] # "MOUSEUP"
        BY <2>2 DEF Down
      <3>2. CASE j = 1
        <4>1. \A k \in 1 .. n : t[k] # "MOUSEUP"
          BY <1>1, <2>0, <3>1, <3>2
        <4> QED
          BY <1>4, <3>1, <3>2, <4>1 DEF DownAfter
      <3>3. CASE j # 1
        <4>1. j - 1 \in 1 .. n /\ t[j - 1] = "MOUSEDOWN"
          <5>1. j - 1 \in 1 .. n /\ (j - 1) + 1 = j
            BY <1>1, <3>3
          <5> QED
            BY <2>0, <3>1, <5>1
        <4>2. \A k \in j - 1 .. n : t[k] # "MOUSEUP"
          <5>1. \A k \in j - 1 .. n : k \in 1 .. n /\ k + 1 \in j .. n + 1
            BY <1>1, <3>3
          <5> QED
            BY <2>0, <3>1, <5>1
        <4> QED
          BY <4>1, <4>2 DEF Down, DownAfter
      <3> QED
        BY <3>2, <3>3
    <2> QED
      BY <1>5, <2>1, <2>2 DEF DownAfter
  <1>6. ASSUME NEW i \in 1 .. Len(v)
        PROVE  /\ v[i] = "MOUSEMOVE" => Down(v, i)
               /\ v[i] = "KEYUP" => i > 2 /\ v[i - 2] = "KEYDOWN"
    <2>1. CASE i \in 1 .. Len(u)
      <3>1. v[i] = u[i] /\ (Down(v, i) <=> Down(u, i))
        BY <1>1, <1>2, <2>1, DownExtends
      <3>2. i > 2 => v[i - 2] = u[i - 2]
        <4>1. i > 2 => i - 2 \in 1 .. Len(u)
          BY <1>1, <2>1
        <4> QED
          BY <1>2, <4>1, Zenon
      <3> QED
        BY <2>1, <3>1, <3>2 DEF Sensible
    <2>2. CASE i = Len(u) + 1
      BY <2>2
    <2>3. CASE i = Len(u) + 2
      <3>1. v[i] = m[1] /\ i = Len(v) /\ 1 \in 1 .. Len(m)
        BY <1>1, <2>3
      <3>2. m[1] = "MOUSEMOVE" => Down(v, i)
        <4> SUFFICES ASSUME m[1] = "MOUSEMOVE" PROVE Down(v, i)
          OBVIOUS
        <4>1. DownAfter(u, m, 1)
          BY <3>1 DEF Continues
        <4>2. ~Down(m, 1)
          BY DEF Down
        <4>3. Down(u, Len(u))
          BY <4>1, <4>2 DEF DownAfter
        <4> QED
          BY <1>3, <3>1, <4>3
      <3>3. m[1] = "KEYUP" => Len(u) > 0 /\ u[Len(u)] = "KEYDOWN"
        BY <3>1 DEF Continues
      <3>4. Len(u) > 0 => i > 2 /\ i - 2 = Len(u) /\ v[i - 2] = u[Len(u)]
        BY <1>1, <1>2, <2>3
      <3> QED
        BY <3>1, <3>2, <3>3, <3>4
    <2> QED
      BY <1>1, <2>1, <2>2, <2>3
  <1>7. ASSUME NEW i \in 1 .. Len(t)
        PROVE  /\ t[i] = "MOUSEMOVE" => DownAfter(v, t, i)
               /\ t[i] = "KEYUP" /\ i = 1 => Len(v) > 0 /\ v[Len(v)] = "KEYDOWN"
               /\ t[i] = "KEYUP" /\ i > 1 => t[i - 1] = "KEYDOWN"
    <2>1. /\ i + 1 \in 1 .. Len(m) /\ i + 1 > 1 /\ (i + 1) - 1 = i /\ i \in 0 .. Len(t)
          /\ t[i] = m[i + 1]
      BY <1>1
    <2>2. /\ m[i + 1] = "MOUSEMOVE" => DownAfter(u, m, i + 1)
          /\ m[i + 1] = "KEYUP" => m[i] = "KEYDOWN"
      BY <2>1 DEF Continues
    <2>3. i = 1 => Len(v) > 0 /\ v[Len(v)] = m[i]
      BY <1>1
    <2>4. i > 1 => t[i - 1] = m[i]
      <3>1. i > 1 => i - 1 \in 1 .. Len(t) /\ (i - 1) + 1 = i
        BY <1>1
      <3> QED
        BY <3>1
    <2> QED
      BY <1>5, <2>1, <2>2, <2>3, <2>4
  <1> QED
    BY <1>5, <1>6, <1>7 DEF Sensible, Continues

\* One more message of the page.
LEMMA OneMore ==
    ASSUME NEW u, NEW m \in Seq(Kinds), NEW e \in Kinds, NEW w \in Seq(Kinds),
           Len(w) = Len(m) + 1, Extends(w, m), w[Len(m) + 1] = e,
           Continues(u, m),
           e = "MOUSEMOVE" => DownAfter(u, m, Len(m)),
           e = "KEYUP" => Len(m) > 0 /\ m[Len(m)] = "KEYDOWN"
    PROVE  /\ Continues(u, w)
           /\ e = "MOUSEDOWN" => DownAfter(u, w, Len(w))
           /\ e # "MOUSEUP" /\ DownAfter(u, m, Len(m)) => DownAfter(u, w, Len(w))
  <1>1. Len(m) \in Nat /\ Len(w) \in Nat
    BY LenProperties
  <1>2. \A k \in 1 .. Len(m) : w[k] = m[k]
    BY DEF Extends
  <1>3. ASSUME e # "MOUSEUP", DownAfter(u, m, Len(m)) PROVE DownAfter(u, w, Len(w))
    <2>1. CASE Down(u, Len(u)) /\ \A k \in 1 .. Len(m) : m[k] # "MOUSEUP"
      <3>1. ASSUME NEW k \in 1 .. Len(w) PROVE w[k] # "MOUSEUP"
        <4>1. k \in 1 .. Len(m) \/ k = Len(m) + 1
          BY <1>1
        <4> QED
          BY <1>2, <1>3, <2>1, <4>1
      <3> QED
        BY <2>1, <3>1 DEF DownAfter
    <2>2. CASE Down(m, Len(m))
      <3>1. PICK j \in 1 .. Len(m) : m[j] = "MOUSEDOWN" /\ \A k \in j .. Len(m) : m[k] # "MOUSEUP"
        BY <2>2 DEF Down
      <3>2. j \in 1 .. Len(w) /\ w[j] = "MOUSEDOWN"
        BY <1>1, <1>2, <3>1
      <3>3. ASSUME NEW k \in j .. Len(w) PROVE w[k] # "MOUSEUP"
        <4>1. k \in j .. Len(m) \/ k = Len(m) + 1
          BY <1>1
        <4> QED
          BY <1>1, <1>2, <1>3, <3>1, <4>1
      <3> QED
        BY <3>2, <3>3 DEF Down, DownAfter
    <2> QED
      BY <1>3, <2>1, <2>2 DEF DownAfter
  <1>4. ASSUME e = "MOUSEDOWN" PROVE DownAfter(u, w, Len(w))
    <2>1. Len(w) \in 1 .. Len(w) /\ w[Len(w)] = e /\ \A k \in Len(w) .. Len(w) : k = Len(w)
      BY <1>1
    <2> QED
      BY <1>4, <2>1 DEF Down, DownAfter
  <1>5. ASSUME NEW i \in 1 .. Len(w)
        PROVE  /\ w[i] = "MOUSEMOVE" => DownAfter(u, w, i)
               /\ w[i] = "KEYUP" /\ i = 1 => Len(u) > 0 /\ u[Len(u)] = "KEYDOWN"
               /\ w[i] = "KEYUP" /\ i > 1 => w[i - 1] = "KEYDOWN"
    <2>1. CASE i \in 1 .. Len(m)
      <3>1. w[i] = m[i] /\ (i > 1 => w[i - 1] = m[i - 1]) /\ (Down(w, i) <=> Down(m, i))
        BY <1>1, <1>2, <2>1, DownExtends
      <3>2. DownAfter(u, m, i) => DownAfter(u, w, i)
        BY <1>1, <1>2, <2>1, <3>1 DEF DownAfter
      <3> QED
        BY <2>1, <3>1, <3>2 DEF Continues
    <2>2. CASE i = Len(m) + 1
      <3>1. w[i] = e /\ i = Len(w) /\ i - 1 = Len(m)
        BY <1>1, <2>2
      <3>2. Len(m) > 0 => w[Len(m)] = m[Len(m)] /\ i > 1 /\ i # 1
        BY <1>1, <1>2, <2>2
      <3> QED
        BY <1>3, <3>1, <3>2
    <2> QED
      BY <1>1, <2>1, <2>2
  <1> QED
    BY <1>3, <1>4, <1>5 DEF Continues

LEMMA OneAppended ==
    ASSUME NEW m \in Seq(Kinds), NEW e \in Kinds, NEW w, w = m \o <<e>>
    PROVE  w \in Seq(Kinds) /\ Len(w) = Len(m) + 1 /\ Extends(w, m) /\ w[Len(m) + 1] = e
  <1>1. <<e>> \in Seq(Kinds) /\ Len(<<e>>) = 1 /\ <<e>>[1] = e /\ Len(m) \in Nat
    BY LenProperties
  <1>2. /\ w \in Seq(Kinds) /\ Len(w) = Len(m) + 1
        /\ \A k \in 1 .. Len(m) + 1 : w[k] = IF k <= Len(m) THEN m[k] ELSE <<e>>[k - Len(m)]
    BY <1>1, ConcatProperties
  <1> QED
    BY <1>1, <1>2 DEF Extends

LEMMA PageGestures ==
    ASSUME TypeOK, Gestures, onmousedown \/ onmouseup \/ onmousemove \/ sendkeyevent
    PROVE  Gestures'
  <1>1. SUFFICES ASSUME ~early'
                 PROVE  /\ Sensible(undertaken) /\ Continues(undertaken, messages')
                        /\ mousedown' => DownAfter(undertaken, messages', Len(messages'))
    <2>1. undertaken' = undertaken
      BY DEF onmousedown, onmouseup, onmousemove, sendkeyevent, PageSends, output
    <2> QED
      BY <2>1, Zenon DEF Gestures
  <1>2. /\ ~early /\ messages \in Seq(Kinds)
        /\ Sensible(undertaken) /\ Continues(undertaken, messages)
        /\ mousedown => DownAfter(undertaken, messages, Len(messages))
    <2>1. early' = early
      BY DEF onmousedown, onmouseup, onmousemove, sendkeyevent, PageSends, output
    <2> QED
      BY <1>1, <2>1, Zenon DEF Gestures, TypeOK
  <1>3. ASSUME NEW e \in Kinds \ {"KEYUP"}, messages' = messages \o <<e>>,
               e = "MOUSEMOVE" => mousedown,
               mousedown' => (e = "MOUSEDOWN" \/ (mousedown /\ e # "MOUSEUP"))
        PROVE  /\ Continues(undertaken, messages')
               /\ mousedown' => DownAfter(undertaken, messages', Len(messages'))
    <2>1. /\ messages' \in Seq(Kinds) /\ Len(messages') = Len(messages) + 1
          /\ Extends(messages', messages) /\ messages'[Len(messages) + 1] = e
      BY <1>2, <1>3, OneAppended
    <2> QED
      BY <1>2, <1>3, <2>1, OneMore
  <1>4. CASE onmousedown
    BY <1>2, <1>3, <1>4 DEF onmousedown, PageSends, Kinds
  <1>5. CASE onmouseup
    BY <1>2, <1>3, <1>5 DEF onmouseup, PageSends, Kinds
  <1>6. CASE onmousemove
    BY <1>2, <1>3, <1>6 DEF onmousemove, PageSends, Kinds
  <1>7. CASE sendkeyevent
    <2>1. messages' = messages \o <<"KEYDOWN", "KEYUP">> /\ mousedown' = mousedown
      BY <1>7 DEF sendkeyevent, PageSends
    <2>2. PICK w : w = messages \o <<"KEYDOWN">>
      OBVIOUS
    <2>3. /\ w \in Seq(Kinds) /\ Len(w) = Len(messages) + 1
          /\ Extends(w, messages) /\ w[Len(messages) + 1] = "KEYDOWN" /\ Len(messages) \in Nat
      BY <1>2, <2>2, OneAppended, LenProperties DEF Kinds
    <2>4. /\ Continues(undertaken, w)
          /\ mousedown => DownAfter(undertaken, w, Len(w))
      BY <1>2, <2>3, OneMore DEF Kinds
    <2>5. messages' = w \o <<"KEYUP">>
      <3>1. /\ <<"KEYDOWN">> \in Seq(Kinds) /\ <<"KEYUP">> \in Seq(Kinds)
            /\ <<"KEYDOWN", "KEYUP">> = <<"KEYDOWN">> \o <<"KEYUP">>
        BY DEF Kinds
      <3> QED
        BY <1>2, <2>1, <2>2, <3>1, ConcatAssociative
    <2>6. /\ messages' \in Seq(Kinds) /\ Len(messages') = Len(w) + 1
          /\ Extends(messages', w) /\ messages'[Len(w) + 1] = "KEYUP"
      BY <2>3, <2>5, OneAppended DEF Kinds
    <2>7. Len(w) > 0 /\ w[Len(w)] = "KEYDOWN"
      BY <2>3
    <2>8. PICK z : z = messages'
      OBVIOUS
    <2>9. /\ z \in Seq(Kinds) /\ Len(z) = Len(w) + 1 /\ Extends(z, w) /\ z[Len(w) + 1] = "KEYUP"
          /\ w \in Seq(Kinds) /\ "KEYUP" \in Kinds /\ "KEYUP" # "MOUSEMOVE" /\ "KEYUP" # "MOUSEUP"
      BY <2>3, <2>6, <2>8 DEF Kinds
    <2>10. /\ Continues(undertaken, z)
           /\ DownAfter(undertaken, w, Len(w)) => DownAfter(undertaken, z, Len(z))
      BY <2>4, <2>7, <2>9, OneMore, Zenon
    <2> QED
      BY <1>2, <2>1, <2>4, <2>8, <2>10, Zenon
  <1> QED
    BY <1>2, <1>4, <1>5, <1>6, <1>7

LEMMA onmessageGestures ==
    ASSUME TypeOK, Gestures, onmessage
    PROVE  Gestures'
  <1>1. CASE early'
    BY <1>1 DEF Gestures
  <1>2. CASE ~early'
    <2>1. /\ messages # <<>> /\ messages' = Tail(messages) /\ mousedown' = mousedown
          /\ undertaken' = undertaken \o Event(Head(messages)) /\ ~early
          /\ messages \in Seq(Kinds) /\ undertaken \in Seq(Struct)
      BY <1>2 DEF onmessage, page, TypeOK
    <2>2. /\ Sensible(undertaken) /\ Continues(undertaken, messages)
          /\ mousedown => DownAfter(undertaken, messages, Len(messages))
      BY <2>1 DEF Gestures
    <2>3. /\ Len(messages) \in Nat \ {0} /\ Head(messages) = messages[1] /\ messages[1] \in Kinds
          /\ messages' \in Seq(Kinds) /\ Len(messages) = Len(messages') + 1 /\ Len(messages') \in Nat
          /\ \A k \in 1 .. Len(messages') : messages'[k] = messages[k + 1]
      BY <2>1, EmptySeq, LenProperties, HeadTailProperties, ElementOfSeq
    <2>4. PICK e : e = Event(Head(messages))
      OBVIOUS
    <2>5. e \in Seq(Struct) /\ Len(e) = 2 /\ e[1] = "header" /\ e[2] = messages[1]
      BY <2>3, <2>4 DEF Event, Struct
    <2>6. /\ undertaken' \in Seq(Struct) /\ Len(undertaken') = Len(undertaken) + 2
          /\ \A k \in 1 .. Len(undertaken) + 2 :
                undertaken'[k] = IF k <= Len(undertaken) THEN undertaken[k] ELSE e[k - Len(undertaken)]
          /\ Len(undertaken) \in Nat
      <3>1. PICK v : v = undertaken \o e
        OBVIOUS
      <3>2. /\ v \in Seq(Struct) /\ Len(v) = Len(undertaken) + Len(e)
            /\ \A k \in 1 .. Len(undertaken) + Len(e) :
                  v[k] = IF k <= Len(undertaken) THEN undertaken[k] ELSE e[k - Len(undertaken)]
        BY <2>1, <2>5, <3>1, ConcatProperties, Zenon
      <3>3. v = undertaken' /\ Len(undertaken) \in Nat
        BY <2>1, <2>4, <3>1, LenProperties
      <3> QED
        BY <2>5, <3>2, <3>3, Zenon
    <2>7. /\ Extends(undertaken', undertaken)
          /\ undertaken'[Len(undertaken) + 1] = "header"
          /\ undertaken'[Len(undertaken) + 2] = messages[1]
      BY <2>5, <2>6 DEF Extends
    <2>8. /\ Sensible(undertaken') /\ Continues(undertaken', messages')
          /\ \A n \in 0 .. Len(messages') : DownAfter(undertaken, messages, n + 1)
                                            => DownAfter(undertaken', messages', n)
      BY <2>1, <2>2, <2>3, <2>6, <2>7, PassedOn
    <2>9. mousedown' => DownAfter(undertaken', messages', Len(messages'))
      <3>1. Len(messages') \in 0 .. Len(messages')
        BY <2>3
      <3> QED
        BY <2>1, <2>2, <2>3, <2>8, <3>1, Zenon
    <2> QED
      BY <2>8, <2>9 DEF Gestures
  <1> QED
    BY <1>1, <1>2

LEMMA GestureSteps == TypeOK /\ Gestures /\ [Next]_vars => Gestures'
  <1> SUFFICES ASSUME TypeOK, Gestures, [Next]_vars PROVE Gestures'
    OBVIOUS
  <1>1. CASE onmousedown \/ onmouseup \/ onmousemove \/ sendkeyevent
    BY <1>1, PageGestures
  <1>2. CASE onmessage
    BY <1>2, onmessageGestures
  <1>3. CASE UNCHANGED <<undertaken, messages, early, mousedown>>
    BY <1>3, Zenon DEF Gestures
  <1>4. ASSUME KidGreets \/ KidDraws \/ KidWrites \/ KidReads \/ KidExits
        PROVE  UNCHANGED <<undertaken, messages, early, mousedown>>
    BY <1>4 DEF KidGreets, KidDraws, KidBegins, KidWrites, KidReads, KidExits, page, output
  <1>5. ASSUME handle_us_accept \/ Reads
        PROVE  UNCHANGED <<undertaken, messages, early, mousedown>>
    BY <1>5, Zenon DEF handle_us_accept, Reads, ReadGreeting, ReadDescription, ReadHeader, ReadRectangle, ReadRow,
                page, output
  <1>6. ASSUME Write \/ WriteFails \/ UNCHANGED vars
        PROVE  UNCHANGED <<undertaken, messages, early, mousedown>>
    BY <1>6 DEF Write, WriteFails, Written, vars, page, output
  <1> QED
    BY <1>1, <1>2, <1>3, <1>4, <1>5, <1>6, Zenon DEF Next, Others

\* What the child has read are the first of the structs passed on.
LEMMA GesturesReceived ==
    ASSUME TypeOK, EventsWhole, Gestures
    PROVE  GesturesMakeSense
  <1> SUFFICES ASSUME ~torn, ~early, NEW i \in DOMAIN received
               PROVE  /\ received[i] = "MOUSEMOVE" => Dragged(i)
                      /\ received[i] = "KEYUP" => i > 2 /\ received[i - 2] = "KEYDOWN"
    BY Zenon DEF GesturesMakeSense
  <1>1. /\ received \in Seq(Struct) /\ events \o writing \in Seq(Struct)
        /\ undertaken = received \o (events \o writing)
        /\ undertaken \in Seq(Struct)
    <2>1. received \in Seq(Struct) /\ events \in Seq(Struct) /\ writing \in Seq(Struct)
      BY DEF TypeOK
    <2>2. events \o writing \in Seq(Struct)
      BY <2>1, ConcatProperties, Zenon
    <2>3. (received \o events) \o writing = received \o (events \o writing)
      BY <2>1, ConcatAssociative
    <2>4. (received \o events) \o writing = undertaken
      BY Zenon DEF EventsWhole
    <2>5. undertaken \in Seq(Struct)
      BY DEF TypeOK
    <2> QED
      BY <2>1, <2>2, <2>3, <2>4, <2>5, Zenon
  <1>2. PICK rest : rest = events \o writing
    OBVIOUS
  <1>3. /\ Len(received) \in Nat /\ Len(undertaken) \in Nat /\ Len(rest) \in Nat
        /\ DOMAIN received = 1 .. Len(received)
    BY <1>1, <1>2, LenProperties
  <1>4. Extends(undertaken, received)
    <2>1. /\ Len(undertaken) = Len(received) + Len(rest)
          /\ \A k \in 1 .. Len(received) + Len(rest) :
                undertaken[k] = IF k <= Len(received) THEN received[k] ELSE rest[k - Len(received)]
      BY <1>1, <1>2, ConcatProperties
    <2> QED
      BY <1>3, <2>1 DEF Extends
  <1>5. i \in 1 .. Len(received) /\ i \in 1 .. Len(undertaken) /\ undertaken[i] = received[i]
    BY <1>3, <1>4 DEF Extends
  <1>6. i > 2 => undertaken[i - 2] = received[i - 2]
    BY <1>3, <1>4, <1>5 DEF Extends
  <1>7. Down(undertaken, i) => Dragged(i)
    <2>1. Down(undertaken, i) <=> Down(received, i)
      BY <1>3, <1>4, <1>5, DownExtends, Zenon
    <2>2. Down(received, i) <=> Dragged(i)
      BY Zenon DEF Down, Dragged
    <2> QED
      BY <2>1, <2>2
  <1> QED
    BY <1>5, <1>6, <1>7 DEF Gestures, Sensible

-----------------------------------------------------------------------------
(* What it gives *)

\* The variables have their types, and neither socket holds more than it can.
THEOREM ChannelTypeCorrect == Spec => []TypeOK
  <1>1. Inv => TypeOK
    BY Zenon DEF Inv
  <1> QED
    BY <1>1, Invariant, PTL

\* While its reads are whole, the server handles the frames the child has sent, one by
\* one and each from its header to its last row (us_on_connected, us_on_client_data).
THEOREM FramesHandledAsSent == Spec => []HandledAsSent
  <1>1. Inv => HandledAsSent
    <2> SUFFICES ASSUME Inv, ~mishap PROVE \A i \in DOMAIN handled : handled[i] = Units(i, sent[i])
      BY Zenon DEF HandledAsSent
    <2>1. DOMAIN handled = 1 .. Len(handled)
      BY LenProperties DEF Inv, TypeOK
    <2> QED
      BY <2>1, Zenon DEF Inv, InStep
  <1> QED
    BY <1>1, Invariant, PTL

\* While no write() is cut, the child reads the events that onmessage has passed on,
\* each a header and its event (us_send_event).
THEOREM EventsArriveWhole == Spec => []EventsWhole
  <1>1. Inv => EventsWhole
    BY Zenon DEF Inv
  <1> QED
    BY <1>1, Invariant, PTL

\* Only a cut read, or a child whose pixels the server cannot keep, has the server copy
\* pixels to where no shadow frame buffer is (us_on_client_data).
THEOREM PixelsFindTheirPlace == Spec => []NoCrash
  <1>1. Inv => NoCrash
    BY Zenon DEF Inv
  <1> QED
    BY <1>1, Invariant, PTL

\* Unless an event was dropped before the child had connected, or torn, the child gets a
\* movement only while the button is down and a key's release right after its press
\* (webdisplay.js, onmessage, us_send_event).
THEOREM GesturesArriveInOrder == Spec => []GesturesMakeSense
  <1>1. Init => Gestures
    <2>1. Init => undertaken = <<>> /\ messages = <<>> /\ mousedown = FALSE
      BY DEF Init
    <2>2. Len(<<>>) = 0 /\ 1 .. 0 = {}
      OBVIOUS
    <2> QED
      BY <2>1, <2>2 DEF Gestures, Sensible, Continues
  <1>2. Inv => TypeOK /\ EventsWhole
    BY Zenon DEF Inv
  <1>3. TypeOK /\ EventsWhole /\ Gestures => GesturesMakeSense
    BY GesturesReceived
  <1> QED
    BY <1>1, <1>2, <1>3, GestureSteps, Invariant, PTL DEF Spec
=============================================================================
