----------------------------- MODULE Connection -----------------------------
(***************************************************************************)
(* One WebSocket connection under the select loop of src/src/websocket.c.  *)
(* The loop reads it and its child, writes its queue or announces what the *)
(* child has drawn, in any order the descriptors and the timeouts allow;   *)
(* the other clients are seen only through server->closing, which their    *)
(* closes set and reset.                                                   *)
(*                                                                         *)
(* The loop watches the descriptors it chose before select(): a handler    *)
(* may run in a pass in which another client has just set closing.  That   *)
(* client's step and the handler's touch different variables, so the model *)
(* has them the other way round.                                           *)
(***************************************************************************)
EXTENDS WsClient, StatusEffects, SequencesExt

CONSTANT MaxLog     \* bound: how many bytes the server undertakes to send

ASSUME MaxLogAssumption == MaxLog \in Nat

VARIABLES
    client,   \* the WSClient
    open,     \* it is in server->colist
    closing,  \* server->closing
    dirty,    \* us_buddy->rc_dirty has pixels to announce
    others,   \* there are other clients; stays as it is
    log,      \* history: the bytes the server undertook to send to it
    wire,     \* history: the bytes the kernel took
    lost      \* history: a failed realloc() dropped queued bytes

vars == <<client, open, closing, dirty, others, log, wire, lost>>

TypeOK == /\ client \in WSClient
          /\ open \in BOOLEAN
          /\ closing \in BOOLEAN
          /\ dirty \in BOOLEAN
          /\ others \in BOOLEAN
          /\ log \in Seq(Bytes)
          /\ wire \in Seq(Bytes)
          /\ lost \in BOOLEAN

Init == /\ client = new_wsclient
        /\ open = TRUE
        /\ closing = FALSE
        /\ dirty = FALSE
        /\ others \in BOOLEAN
        /\ log = <<>>
        /\ wire = <<>>
        /\ lost = FALSE

-----------------------------------------------------------------------------
\* The bytes of a result join the history, within the bound.
Record(r) == /\ Len(log \o r.log) <= MaxLog
             /\ log' = log \o r.log
             /\ wire' = wire \o r.sent
             /\ lost' = (lost \/ r.lost)

Keep(c) == client' = c /\ UNCHANGED <<open, closing>>

\* Only an errored client's queue is cleared; then it is freed.
handle_tcp_close(c) == /\ client' = IF "ERR" \in c.status THEN ws_clear_queue(c) ELSE c
                       /\ open' = FALSE
                       /\ closing' = FALSE

handle_ws_read_close(c) ==
    \/ /\ "SENDING" \in c.status
       /\ client' = c
       /\ closing' = TRUE
       /\ UNCHANGED open
    \/ /\ "SENDING" \notin c.status
       /\ handle_tcp_close(c)

\* The descriptor is watched for reading while nobody is closing.
handle_ws_reads ==
    /\ open
    /\ ~closing
    /\ \E r \in read_client_data(client) :
          /\ Record(r)
          /\ \/ "CLOSE" \in r.client.status /\ handle_ws_read_close(r.client)
             \/ "CLOSE" \notin r.client.status /\ Keep(r.client)
    /\ UNCHANGED <<dirty, others>>

\* Mutant: a write closes without regard to the rest of the queue.
ToClose_Eagerly(c) == "CLOSE" \in c.status

ToClose(c) == "CLOSE" \in c.status /\ "SENDING" \notin c.status

Written(r) == /\ Record(r)
              /\ \/ ToClose(r.client) /\ handle_tcp_close(r.client)
                 \/ ~ToClose(r.client) /\ Keep(r.client)

\* The descriptor is watched for writing while SENDING.
handle_ws_writes ==
    /\ open
    /\ "SENDING" \in client.status
    /\ \E r \in SendBuffered(client) : Written(r)
    /\ UNCHANGED <<dirty, others>>

\* The child, launched by the end of the handshake, has drawn.  Its descriptor
\* is watched while nobody is closing.
handle_us_reads ==
    /\ open
    /\ client.stage # "handshake"
    /\ ~closing
    /\ dirty' = TRUE
    /\ UNCHANGED <<client, open, closing, others, log, wire, lost>>

\* The idle loop announces what has been drawn, and takes it for announced even if
\* ws_respond has dropped it; nobody looks at the status afterwards.
check_dirty_pixels ==
    /\ open
    /\ dirty
    /\ \E r \in ws_respond(client, Dirty) : Record(r) /\ Keep(r.client)
    /\ dirty' = FALSE
    /\ UNCHANGED others

\* check_buddy_client, and handle_us_reads when the child is gone, close a
\* client whatever its status.
BuddyGone == /\ open
             /\ client.stage # "handshake"
             /\ handle_tcp_close(client)
             /\ UNCHANGED <<dirty, others, log, wire, lost>>

\* Another client's close is deferred, or done.
OtherClient == /\ open
               /\ others
               /\ closing' \in BOOLEAN
               /\ UNCHANGED <<client, open, dirty, others, log, wire, lost>>

\* The peer shuts its side down.
PeerCloses == /\ open
              /\ client' = [client EXCEPT !.eof = TRUE]
              /\ UNCHANGED <<open, closing, dirty, others, log, wire, lost>>

Next == \/ handle_ws_reads
        \/ handle_ws_writes
        \/ handle_us_reads
        \/ check_dirty_pixels
        \/ BuddyGone
        \/ OtherClient
        \/ PeerCloses

Spec == Init /\ [][Next]_vars

-----------------------------------------------------------------------------
(***************************************************************************)
(* Fairness.  The loop does not stop, so a client that stays in the write  *)
(* set is written, and one that has reached the end of its input, which    *)
(* makes it readable for good, is read while the loop reads at all.  The   *)
(* peer keeps taking bytes or its connection breaks, so that writes get    *)
(* somewhere; and when a send() has failed, recv() comes to an end too.    *)
(***************************************************************************)
WriteProgress ==
    /\ open
    /\ "SENDING" \in client.status
    /\ \E r \in SendBuffered(client) : r.client # client /\ Written(r)
    /\ UNCHANGED <<dirty, others>>

ReadEnd == client.eof /\ handle_ws_reads

SocketDies == client.sock = "gone" /\ PeerCloses

FairSpec == /\ Spec
            /\ WF_vars(WriteProgress)
            /\ WF_vars(ReadEnd)
            /\ WF_vars(SocketDies)

-----------------------------------------------------------------------------
(* Safety *)

\* While memory lasts and the connection is up, what the kernel took followed
\* by what is queued is what the server undertook to send: partial sends, EAGAIN
\* and appends lose, repeat and reorder nothing (ws_respond and below).
NothingLost == (open /\ ~lost /\ client.sock = "up") => wire \o client.queued = log

\* The throttle does its work while the loop is sending the queue (SENDING):
\* whatever is appended, sent, cut or dropped, in whatever order, the queue passes the
\* threshold by less than one frame, and no throttle is left when the queue is gone,
\* which would make ws_respond drop the frames behind the next queue, however short.
Sending == open /\ "SENDING" \in client.status
Limited == \E f \in Frames : Len(client.queued) < Thld + Len(f)
ThrottleLimits ==
    /\ Sending => Limited
    /\ open /\ "THROTTLING" \in client.status => client.sockqueue

\* A close from the write side (handle_write_close) comes after the whole queue
\* went out, unless the connection broke: the comment at websocket.c:2257.
FlushedBeforeWriteClose ==
    [][ (handle_ws_writes /\ ~open') => (wire' = log' \/ lost' \/ client'.sock = "gone") ]_vars

\* The handlers leave the bits of the status that the loop looks at as
\* StatusEffects says, which is all that EventLoop keeps of them.
EffectsCovered ==
    LET bits == Seen(client.status)
        Leaves(results) == {Seen(r.client.status) : r \in results}
    IN  /\ Leaves(read_client_data(client)) \subseteq
             IF client.stage = "handshake" THEN HandshakeEffects ELSE FrameEffects(bits)
        /\ "SENDING" \in bits => Leaves(SendBuffered(client)) \subseteq WriteEffects(bits)
        /\ Leaves(ws_respond(client, Dirty)) \subseteq SendEffects(bits)

\* The abstract stream, with the history of this connection.
Stream == INSTANCE ByteStream WITH whole <- ~lost
ImplementsStream == Stream!Spec

-----------------------------------------------------------------------------
(* Liveness *)

\* A deferred close is brought to an end by the write side, while memory lasts.  With
\* other clients it may take another way out: the close of one of them sets the loop
\* reading again, and what is drawn then may let check_dirty_pixels send from a
\* throttled queue, which takes SENDING, and the client out of the write set.
Deferred == open /\ closing /\ {"CLOSE", "SENDING"} \subseteq client.status
Diverted == others /\ (~closing \/ "SENDING" \notin client.status)
DeferredCloseEnds == Deferred ~> (~open \/ lost \/ Diverted)

-----------------------------------------------------------------------------
(* What a comment of the code says and the code does not do. *)

\* websocket.c:1288 "client probably too slow, so stop queueing until everything is
\* sent": the queue of a client passes the threshold by less than one frame.
QueueIsLimited == open => Limited
=============================================================================
