----------------------------- MODULE UsChannel -----------------------------
(***************************************************************************)
(* The UNIX socket between the server and one child (src/src/unixsocket.c) *)
(* with what the page sends for it (src/web/webdisplay.js, onmessage of    *)
(* src/src/wdserver.c).  The child writes its greeting and then pixels,    *)
(* the server writes events; both ends block, and neither goes on with a   *)
(* read() or write() that was cut short.                                   *)
(*                                                                         *)
(* What the child writes is a stream of units, two to a struct (header,    *)
(* description, rectangle, row of pixels), so that a read() may end inside *)
(* one; a unit is the place in a frame that it was written for.  The       *)
(* events are a stream of structs.                                         *)
(***************************************************************************)
EXTENDS Integers, Sequences

CONSTANTS
    MaxFrames,   \* bound: the frames the child sends, its greeting included
    MaxRows,     \* the rows of the largest rectangle
    PipeLimit,   \* the units that wait for the server in the socket
    MaxInputs,   \* bound: the messages of the page
    InputLimit,  \* the messages on their way from the page
    EventLimit   \* the structs that wait for the child in the socket

ASSUME ChannelAssumption ==
    /\ MaxFrames \in Nat /\ MaxRows \in Nat /\ MaxInputs \in Nat
    /\ PipeLimit \in Nat \ {0, 1} /\ EventLimit \in Nat \ {0} /\ InputLimit \in Nat \ {0}

VARIABLES
    pc,          \* which system call the server is in; "select" is the loop
    fd,          \* us_buddy->fd is a socket, not -1
    shadow_fb,   \* us_buddy->shadow_fb: NULL, of the child's size, or of a garbage one
    wild,        \* the rectangle us_on_client_data is copying to is garbage
    rows,        \* the rows us_on_client_data has still to read
    buffer,      \* what the handler has read of the frame
    writing,     \* the structs us_send_event has still to write
    kid,         \* the child is there
    pending,     \* what the child has still to write of a frame
    pipe,        \* what it has written and the server has not read
    reset,       \* the child went with events unread: the next read() fails
    events,      \* what the server has written and the child has not read
    mousedown,   \* this.mousedown, in the page
    messages,    \* the page's messages on their way to onmessage
    inputs,      \* how many messages the page has sent
    sent,        \* history: the frames the child has begun
    handled,     \* history: the units of each frame the server has handled
    mishap,      \* history: a read() of the server was short or failed
    undertaken,  \* history: the structs of the events onmessage has passed on
    received,    \* history: the structs the child has read
    torn,        \* history: a write() of the server failed
    early        \* history: an event was dropped for want of a socket

server == <<pc, fd, shadow_fb, wild, rows, buffer, handled, mishap>>
child == <<kid, pending, sent>>
page == <<mousedown, inputs>>
output == <<writing, events, undertaken, received, torn, early>>
vars == <<server, child, pipe, reset, page, messages, output>>

Types == {"VFBINFO", "DIRTYPIXELS", "PONG"}
Frame == [type : {"VFBINFO", "DIRTYPIXELS"}, rows : 0 .. MaxRows, supported : BOOLEAN]

Greetings == {[type |-> "VFBINFO", rows |-> 0, supported |-> s] : s \in BOOLEAN}
Drawings == {[type |-> "DIRTYPIXELS", rows |-> n, supported |-> TRUE] : n \in 0 .. MaxRows}

Unit == [frame : 1 .. MaxFrames, at : 1 .. 4 + 2 * MaxRows]
Units(f, frame) == [k \in 1 .. 4 + 2 * frame.rows |-> [frame |-> f, at |-> k]]

Kinds == {"MOUSEDOWN", "MOUSEMOVE", "MOUSEUP", "KEYDOWN", "KEYUP"}
Struct == {"header"} \cup Kinds
Event(kind) == <<"header", kind>>

Reading == {"greeting", "description", "rectangle", "row"}

TypeOK == /\ pc \in Reading \cup {"select", "event", "closed", "crashed"}
          /\ fd \in BOOLEAN /\ shadow_fb \in {"NULL", "fits", "garbage"} /\ wild \in BOOLEAN
          /\ rows \in 0 .. MaxRows
          /\ buffer \in Seq(Unit)
          /\ writing \in Seq(Struct)
          /\ kid \in BOOLEAN
          /\ pending \in Seq(Unit)
          /\ pipe \in Seq(Unit) /\ Len(pipe) <= PipeLimit
          /\ reset \in BOOLEAN
          /\ events \in Seq(Struct) /\ Len(events) <= EventLimit
          /\ mousedown \in BOOLEAN
          /\ messages \in Seq(Kinds)
          /\ inputs \in Nat
          /\ sent \in Seq(Frame)
          /\ handled \in Seq(Seq(Unit))
          /\ mishap \in BOOLEAN
          /\ undertaken \in Seq(Struct) /\ received \in Seq(Struct)
          /\ torn \in BOOLEAN /\ early \in BOOLEAN

\* The child has connected and waits to be accepted.
Init == /\ pc = "select"
        /\ fd = FALSE /\ shadow_fb = "NULL" /\ wild = FALSE
        /\ rows = 0 /\ buffer = <<>> /\ writing = <<>>
        /\ kid = TRUE /\ pending = <<>> /\ pipe = <<>> /\ reset = FALSE
        /\ events = <<>>
        /\ mousedown = FALSE /\ messages = <<>> /\ inputs = 0
        /\ sent = <<>> /\ handled = <<>> /\ mishap = FALSE
        /\ undertaken = <<>> /\ received = <<>> /\ torn = FALSE /\ early = FALSE

-----------------------------------------------------------------------------
(* The child *)

KidBegins(frame) ==
    /\ kid /\ pending = <<>>
    /\ Len(sent) < MaxFrames
    /\ sent' = Append(sent, frame)
    /\ pending' = Units(Len(sent'), frame)
    /\ UNCHANGED <<kid, server, pipe, reset, page, messages, output>>

KidGreets == sent = <<>> /\ \E frame \in Greetings : KidBegins(frame)
KidDraws == sent # <<>> /\ \E frame \in Drawings : KidBegins(frame)

\* Its write() blocks while the socket is full.
KidWrites ==
    /\ kid /\ pending # <<>>
    /\ Len(pipe) < PipeLimit
    /\ pipe' = Append(pipe, Head(pending))
    /\ pending' = Tail(pending)
    /\ UNCHANGED <<kid, sent, server, reset, page, messages, output>>

\* It has one thread, and reads no event in the middle of a frame.
KidReads ==
    /\ kid /\ pending = <<>>
    /\ events # <<>>
    /\ received' = Append(received, Head(events))
    /\ events' = Tail(events)
    /\ UNCHANGED <<child, server, pipe, reset, page, messages, writing, undertaken, torn, early>>

KidExits ==
    /\ kid
    /\ kid' = FALSE
    /\ pending' = <<>>
    /\ reset' = (events # <<>>)
    /\ UNCHANGED <<sent, server, pipe, page, messages, output>>

-----------------------------------------------------------------------------
(* The page *)

PageSends(kinds) ==
    /\ inputs + Len(kinds) <= MaxInputs
    /\ Len(messages) + Len(kinds) <= InputLimit
    /\ messages' = messages \o kinds
    /\ inputs' = inputs + Len(kinds)
    /\ UNCHANGED <<child, server, pipe, reset, output>>

onmousedown == PageSends(<<"MOUSEDOWN">>) /\ mousedown' = TRUE
onmouseup == PageSends(<<"MOUSEUP">>) /\ mousedown' = FALSE

\* Mutant: the page sends every movement.
onmousemove_Always == PageSends(<<"MOUSEMOVE">>) /\ UNCHANGED mousedown

onmousemove == mousedown /\ PageSends(<<"MOUSEMOVE">>) /\ UNCHANGED mousedown
sendkeyevent == PageSends(<<"KEYDOWN", "KEYUP">>) /\ UNCHANGED mousedown

-----------------------------------------------------------------------------
(* read() of a struct.  It returns what there is, up to the whole; it blocks *)
(* only when there is nothing.  It fails when the child went with events   *)
(* unread, and when the SIGCHLD of some child interrupts it: there is no   *)
(* SA_RESTART.                                                             *)

Lesser(a, b) == IF a < b THEN a ELSE b

ReadResults(want) ==
    IF pipe # <<>> THEN {[got |-> SubSeq(pipe, 1, Lesser(want, Len(pipe))), failed |-> FALSE]}
    ELSE {[got |-> <<>>, failed |-> kid \/ reset]}

Readable == pipe # <<>> \/ ~kid

\* The result is taken, and it may complete what the handler reads.  What was read is
\* remembered until the first read() that is not whole.
Taken(r, complete) ==
    /\ pipe' = SubSeq(pipe, Len(r.got) + 1, Len(pipe))
    /\ reset' = (reset /\ pipe # <<>>)
    /\ mishap' = (mishap \/ Len(r.got) < 2)
    /\ buffer' = IF complete \/ mishap' THEN <<>> ELSE buffer \o r.got
    /\ handled' = IF mishap' THEN <<>> ELSE IF complete THEN Append(handled, buffer \o r.got) ELSE handled

\* The comparison of -1 with an unsigned size.
Passes(r) == r.failed \/ Len(r.got) = 2

FrameOf(r) == sent[r.got[1].frame]

\* The struct that the child wrote at a place of its frames.
IsStruct(r, at) == Len(r.got) = 2 /\ r.got[1].at = at /\ r.got[2].at = at + 1

\* What the server takes for the type of a frame: garbage, if the read() failed or
\* what it read was not written as a header.
HeaderTypes(r) ==
    IF IsStruct(r, 1) THEN {FrameOf(r).type}
    ELSE IF Passes(r) THEN Types ELSE {"none"}

Return == pc' = "select"

-----------------------------------------------------------------------------
(* us_on_connected *)

handle_us_accept ==
    /\ pc = "select" /\ ~fd
    /\ fd' = TRUE
    /\ pc' = "greeting"
    /\ UNCHANGED <<shadow_fb, wild, rows, buffer, handled, mishap, child, pipe, reset, page, messages, output>>

ReadGreeting ==
    /\ pc = "greeting"
    /\ \E r \in ReadResults(2) :
          /\ Taken(r, FALSE)
          /\ \E type \in HeaderTypes(r) :
                IF type = "VFBINFO" THEN pc' = "description" ELSE Return
    /\ UNCHANGED <<fd, shadow_fb, wild, rows, child, page, messages, output>>

\* Mutant: the error path is taken on success, too.
ShadowOf_Freed(r) == {"NULL"}

\* What becomes of the shadow frame buffer: vfb_info was zero before the read(), and
\* anything may be in it if this was the wrong place to read it from.
ShadowOf(r) ==
    IF IsStruct(r, 3) /\ FrameOf(r).type = "VFBINFO"
    THEN {IF FrameOf(r).supported THEN "fits" ELSE "NULL"}
    ELSE IF mishap /\ r.got # <<>> THEN {"NULL", "garbage"} ELSE {"NULL"}

ReadDescription ==
    /\ pc = "description"
    /\ \E r \in ReadResults(2) : Taken(r, TRUE) /\ shadow_fb' \in ShadowOf(r)
    /\ Return
    /\ UNCHANGED <<fd, wild, rows, child, page, messages, output>>

-----------------------------------------------------------------------------
(* us_on_client_data *)

\* Mutant: a read() of 0 is taken for a short one.
ReadHeader_ZeroIsShort ==
    /\ pc = "select" /\ fd
    /\ Readable
    /\ \E r \in ReadResults(2) :
          /\ Taken(r, FALSE)
          /\ \E type \in HeaderTypes(r) :
                IF type = "DIRTYPIXELS" THEN pc' = "rectangle" ELSE Return
    /\ UNCHANGED <<fd, shadow_fb, wild, rows, child, page, messages, output>>

ReadHeader ==
    /\ pc = "select" /\ fd
    /\ Readable
    /\ \E r \in ReadResults(2) :
          /\ Taken(r, FALSE)
          /\ \/ /\ r.got = <<>> /\ ~r.failed
                /\ pc' = "closed"
             \/ /\ r.got # <<>> \/ r.failed
                /\ \E type \in HeaderTypes(r) :
                      IF type = "DIRTYPIXELS" THEN pc' = "rectangle" ELSE Return
    /\ UNCHANGED <<fd, shadow_fb, wild, rows, child, page, messages, output>>

IsRectangle(r) == IsStruct(r, 3) /\ FrameOf(r).type = "DIRTYPIXELS"

\* Mutant: the last row is left out.
RowsOf_ButLast(r) ==
    IF IsRectangle(r) /\ FrameOf(r).rows > 0 THEN {FrameOf(r).rows - 1} ELSE 0 .. MaxRows

RowsOf(r) == IF IsRectangle(r) THEN {FrameOf(r).rows} ELSE 0 .. MaxRows

ReadRectangle ==
    /\ pc = "rectangle"
    /\ \E r \in ReadResults(2) :
          \/ /\ ~Passes(r)
             /\ Taken(r, FALSE)
             /\ Return
             /\ UNCHANGED <<wild, rows>>
          \/ /\ Passes(r)
             /\ rows' \in RowsOf(r)
             /\ wild' = ~IsRectangle(r)
             /\ Taken(r, rows' = 0)
             /\ IF rows' = 0 THEN Return ELSE pc' = "row"
    /\ UNCHANGED <<fd, shadow_fb, child, page, messages, output>>

\* Mutant: the bottom row is read, too.
ReadRow_OneMore ==
    /\ pc = "row"
    /\ \E r \in ReadResults(2) : Taken(r, rows = 0)
    /\ rows' = rows - 1
    /\ \/ shadow_fb # "NULL" /\ IF rows = 0 THEN Return ELSE UNCHANGED pc
       \/ (shadow_fb # "fits" \/ wild) /\ pc' = "crashed"
    /\ UNCHANGED <<fd, shadow_fb, wild, child, page, messages, output>>

\* Nobody looks at what the read() of a row returned.  The copy goes to a shadow
\* frame buffer that may not be there, at a place that may be garbage.
ReadRow ==
    /\ pc = "row"
    /\ \E r \in ReadResults(2) : Taken(r, rows = 1)
    /\ rows' = rows - 1
    /\ \/ shadow_fb # "NULL" /\ IF rows' = 0 THEN Return ELSE UNCHANGED pc
       \/ (shadow_fb # "fits" \/ wild) /\ pc' = "crashed"
    /\ UNCHANGED <<fd, shadow_fb, wild, child, page, messages, output>>

-----------------------------------------------------------------------------
(* onmessage and us_send_event *)

onmessage ==
    /\ pc = "select"
    /\ messages # <<>>
    /\ messages' = Tail(messages)
    /\ \/ /\ fd
          /\ pc' = "event"
          /\ writing' = Event(Head(messages))
          /\ undertaken' = undertaken \o writing'
          /\ UNCHANGED early
       \/ /\ ~fd
          /\ early' = TRUE
          /\ UNCHANGED <<pc, writing, undertaken>>
    /\ UNCHANGED <<fd, shadow_fb, wild, rows, buffer, handled, mishap, child, pipe, reset, page,
                   events, received, torn>>

\* Mutant: the header is all that is written.
Written_Header == /\ writing' = <<>>
                  /\ pc' = "select"
                  /\ UNCHANGED <<fd, shadow_fb, wild, rows, buffer, handled, mishap, child, pipe, reset,
                                 page, messages, undertaken, received, early>>

\* Back to the loop after the second write().
Written == /\ writing' = Tail(writing)
           /\ pc' = IF writing' = <<>> THEN "select" ELSE "event"
           /\ UNCHANGED <<fd, shadow_fb, wild, rows, buffer, handled, mishap, child, pipe, reset, page,
                          messages, undertaken, received, early>>

Write == /\ pc = "event"
         /\ kid /\ Len(events) < EventLimit
         /\ events' = Append(events, Head(writing))
         /\ Written
         /\ UNCHANGED torn

\* The child is gone, or a SIGCHLD interrupts the write() of a struct that has to
\* wait: the other one is written all the same, and nobody looks at the result.
WriteFails == /\ pc = "event"
              /\ ~kid \/ Len(events) = EventLimit
              /\ torn' = TRUE
              /\ Written
              /\ UNCHANGED events

-----------------------------------------------------------------------------
Reads == ReadGreeting \/ ReadDescription \/ ReadHeader \/ ReadRectangle \/ ReadRow

\* The child and the page, as long as they have the server.
Ended == pc \in {"closed", "crashed"}
Others == /\ ~Ended
          /\ \/ KidGreets \/ KidDraws \/ KidWrites \/ KidReads \/ KidExits
             \/ onmousedown \/ onmouseup \/ onmousemove \/ sendkeyevent

Next == \/ Others
        \/ handle_us_accept \/ Reads
        \/ onmessage \/ Write \/ WriteFails

Spec == Init /\ [][Next]_vars

(***************************************************************************)
(* Fairness.  The server's system calls return when they can, and a child  *)
(* greets, ends the frames it begins and reads its events, when it can.    *)
(***************************************************************************)
FairSpec == /\ Spec
            /\ WF_vars(handle_us_accept)
            /\ WF_vars(Readable /\ Reads)
            /\ WF_vars(Write)
            /\ WF_vars(~kid /\ WriteFails)
            /\ WF_vars(KidGreets)
            /\ WF_vars(KidWrites)
            /\ WF_vars(KidReads)

-----------------------------------------------------------------------------
(* Safety *)

\* While every read() returned what it was asked for, the frames the server has
\* handled are the frames the child has sent, in order and each from its header to its
\* last row: no handler returns before the end of a frame, or reads into the next.
HandledAsSent == ~mishap => \A i \in DOMAIN handled : handled[i] = Units(i, sent[i])

\* While no write() was cut, what the child has read, what waits for it and what is
\* still being written are the events that were passed on, each a header and its event.
EventsWhole == ~torn => received \o events \o writing = undertaken

\* The child gets a movement only while the button is down, and a key's release right
\* after its press, whatever pixels are under way, unless an event was dropped before the
\* child connected or torn: from the page's handlers to the child's input queue.
Dragged(i) == \E j \in 1 .. i : received[j] = "MOUSEDOWN" /\ \A k \in j .. i : received[k] # "MOUSEUP"
GesturesMakeSense ==
    ~torn /\ ~early => \A i \in DOMAIN received :
        /\ received[i] = "MOUSEMOVE" => Dragged(i)
        /\ received[i] = "KEYUP" => i > 2 /\ received[i - 2] = "KEYDOWN"

\* A child with a frame buffer the server supports cannot bring the server down while
\* the reads are whole: its first pixels find the shadow frame buffer in place.
NoCrash == pc = "crashed" => mishap \/ ~sent[1].supported

-----------------------------------------------------------------------------
(* Liveness *)

\* Both wait for the other to read: the only way for the server to wait for ever on a
\* child that ends what it begins, as long as no read() or write() was cut.
MutualWait == /\ pc = "event" /\ Len(events) = EventLimit
              /\ pending # <<>> /\ Len(pipe) = PipeLimit
Waits == pc \in Reading \cup {"event"}
ServerReturns == Waits ~> (~Waits \/ mishap \/ MutualWait)

\* The server finds out that the child has exited, whatever it made of what the child
\* had written, and of the error that the first read() after that may return.
ExitSeen == ~kid ~> Ended
=============================================================================
