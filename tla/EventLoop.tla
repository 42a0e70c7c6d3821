----------------------------- MODULE EventLoop -----------------------------
(***************************************************************************)
(* The select loop of src/src/websocket.c (ws_start) with all its clients  *)
(* and the child processes it launches for them.  A pass is: select(), one *)
(* accept, then a walk over the clients that were connected before it; or, *)
(* when select() times out, the closing of the clients whose child did not *)
(* come and the sending of dirty pixels.                                   *)
(*                                                                         *)
(* A WSClient is reduced to the two status bits the loop looks at and to   *)
(* its child; StatusEffects says what the handlers do to the bits.  The    *)
(* order of server->colist is left out: a walk visits in any order.        *)
(***************************************************************************)
EXTENDS StatusEffects, Naturals, FiniteSets

CONSTANTS
    Fds,             \* the descriptors accept() may return for a page
    Pids,            \* bound: the child processes that can be launched
    NoPid,           \* pid_buddy = 0
    MAX_WS_CLIENTS

ASSUME NoPidAssumption == NoPid \notin Pids
ASSUME LimitAssumption == MAX_WS_CLIENTS \in Nat \ {0}
ASSUME DescriptorsAssumption == Fds \cap Pids = {} /\ (Fds \cup Pids) \cap {"ws", "us"} = {}

VARIABLES
    pc,       \* where the loop is
    colist,   \* server->colist
    client,   \* the WSClient of each descriptor
    closing,  \* server->closing
    rfds,     \* fdstate.rfds as select() left it; a pid stands for its us_buddy->fd
    wfds,     \* fdstate.wfds
    todo,     \* the clients check_rfds_wfds has yet to visit
    greeted,  \* the child us_on_connected() is reading from
    kid,      \* the child processes
    backlog   \* the children in the queue of the UNIX socket listener

vars == <<pc, colist, client, closing, rfds, wfds, todo, greeted, kid, backlog>>

\* buddy is status_buddy (WS_BUDDY_EXITED is never assigned: ws_handle_buddy_exit
\* returns at once), late whether launched_time_buddy is over 10 s ago.
WSClient == [bits : SUBSET LoopBits, buddy : {"UNKNOWN", "LAUNCHED", "CONNECTED"},
             pid : Pids \cup {NoPid}, late : BOOLEAN]

new_wsclient == [bits |-> {}, buddy |-> "UNKNOWN", pid |-> NoPid, late |-> FALSE]

\* mute: connected, and the frame buffer's description not written yet;
\* gone: exited, and all it had written is read.
KidStates == {"none", "running", "mute", "talking", "gone"}

TypeOK == /\ pc \in {"select", "accept", "greet", "walk", "crashed"}
          /\ colist \subseteq Fds
          /\ client \in [Fds -> WSClient]
          /\ closing \in BOOLEAN
          /\ rfds \subseteq Fds \cup Pids \cup {"ws", "us"}
          /\ wfds \subseteq Fds
          /\ todo \subseteq Fds
          /\ greeted \in Pids \cup {NoPid}
          /\ kid \in [Pids -> KidStates]
          /\ backlog \subseteq Pids

Init == /\ pc = "select"
        /\ colist = {}
        /\ client = [fd \in Fds |-> new_wsclient]
        /\ closing = FALSE
        /\ rfds = {} /\ wfds = {} /\ todo = {}
        /\ greeted = NoPid
        /\ kid = [p \in Pids |-> "none"]
        /\ backlog = {}

-----------------------------------------------------------------------------
(* ws_start: select() *)

\* set_rfds_wfds: while a close is deferred nobody is watched for reading.
Watched == IF closing THEN {}
           ELSE colist \cup {client[fd].pid : fd \in {f \in colist : client[f].buddy = "CONNECTED"}}

Writing == {fd \in colist : "SENDING" \in client[fd].bits}

\* Mutant: the listener of the UNIX socket is not watched.
Pending_NoListener == {p \in Watched \cap Pids : kid[p] = "gone"}

\* What select() cannot miss: a child waiting to be accepted, and the end of the
\* file on a child's socket.
Pending == {p \in Watched \cap Pids : kid[p] = "gone"}
           \cup (IF backlog = {} THEN {} ELSE {"us"})

\* What else may be ready: pages may connect and send; only a child that has its
\* description behind it sends more.
MayRead == (Watched \cap Fds)
           \cup {p \in Watched \cap Pids : kid[p] = "talking"}
           \cup (IF colist = Fds THEN {} ELSE {"ws"})

Select ==
    /\ pc = "select"
    /\ \E r \in SUBSET MayRead, w \in SUBSET Writing :
          /\ rfds' = Pending \cup r
          /\ wfds' = w
          /\ rfds' \cup wfds' # {}
    /\ pc' = "accept"
    /\ UNCHANGED <<colist, client, closing, todo, greeted, kid, backlog>>

-----------------------------------------------------------------------------
(* Closing *)

\* A close frees the list node a walk is standing on, and the walk then reads
\* the node's next field: it is still there, or the allocator has overwritten it.
StaleNext(here) == pc' \in {here, "crashed"}

Overdue(c) == c.buddy = "LAUNCHED" /\ c.late

\* handle_tcp_close for some clients, which are then not connected; new_wsclient
\* stands for a client that is not there.
Closed(fds) == /\ colist' = colist \ fds
               /\ closing' = (closing /\ fds = {})

\* Mutant: the other clients that are to be closed go too.
handle_tcp_close_Others(fd) ==
    LET fds == {fd} \cup {g \in colist : "CLOSE" \in client[g].bits}
    IN  /\ Closed(fds)
        /\ client' = [g \in Fds |-> IF g \in fds THEN new_wsclient ELSE client[g]]

handle_tcp_close(fd) == /\ Closed({fd})
                        /\ client' = [client EXCEPT ![fd] = new_wsclient]

\* handle_ws_read_close, for a client with bits that has WS_CLOSE.
Deferred(bits) == "SENDING" \in bits

-----------------------------------------------------------------------------
(* check_rfds_wfds: the accepts.  A descriptor is dropped from the sets      *)
(* once nobody will look at it before the next FD_ZERO.                    *)

\* The walk starts from the list as it was before the accept.
StartWalk == todo' = colist /\ rfds' = rfds \ {"ws", "us"}

handle_ws_accept ==
    /\ pc = "accept"
    /\ "ws" \in rfds
    /\ \E fd \in Fds \ colist :
          \/ /\ Cardinality(colist) < MAX_WS_CLIENTS
             /\ colist' = colist \cup {fd}
             /\ UNCHANGED <<client, closing>>
          \/ /\ Cardinality(colist) >= MAX_WS_CLIENTS
             /\ \E bits \in RefuseEffects :
                   \/ /\ Deferred(bits)
                      /\ colist' = colist \cup {fd}
                      /\ client' = [client EXCEPT ![fd].bits = bits]
                      /\ closing' = TRUE
                   \/ /\ ~Deferred(bits)
                      /\ closing' = FALSE
                      /\ UNCHANGED <<colist, client>>
    /\ StartWalk
    /\ pc' = "walk"
    /\ UNCHANGED <<wfds, greeted, kid, backlog>>

\* Mutant: the child goes to a client that waits for one, not to its own.
handle_us_accept_Any ==
    /\ pc = "accept"
    /\ "ws" \notin rfds
    /\ "us" \in rfds
    /\ \E p \in backlog, fd \in colist :
          /\ client[fd].buddy = "LAUNCHED"
          /\ backlog' = backlog \ {p}
          /\ client' = [client EXCEPT ![fd].buddy = "CONNECTED"]
          /\ greeted' = p
          /\ pc' = "greet"
    /\ StartWalk
    /\ UNCHANGED <<colist, closing, wfds, kid>>

\* us_accept takes a child and, unless it rejects its socket file, the client
\* that launched it gets it and us_on_connected starts to read from it.
handle_us_accept ==
    /\ pc = "accept"
    /\ "ws" \notin rfds
    /\ "us" \in rfds
    /\ \E p \in backlog :
          /\ backlog' = backlog \ {p}
          /\ \/ /\ pc' = "walk"
                /\ UNCHANGED <<client, greeted>>
             \/ \E fd \in colist :
                   /\ client[fd].pid = p
                   /\ client' = [client EXCEPT ![fd].buddy = "CONNECTED"]
                   /\ greeted' = p
                   /\ pc' = "greet"
    /\ StartWalk
    /\ UNCHANGED <<colist, closing, wfds, kid>>

\* The reads of us_on_connected block until the child has written or is gone;
\* nothing depends on what they return.
us_on_connected ==
    /\ pc = "greet"
    /\ kid[greeted] # "mute"
    /\ greeted' = NoPid
    /\ pc' = "walk"
    /\ UNCHANGED <<colist, client, closing, rfds, wfds, todo, kid, backlog>>

NoAccept ==
    /\ pc = "accept"
    /\ rfds \cap {"ws", "us"} = {}
    /\ StartWalk
    /\ pc' = "walk"
    /\ UNCHANGED <<colist, client, closing, wfds, greeted, kid, backlog>>

-----------------------------------------------------------------------------
(* check_rfds_wfds: the walk.  A handler's outcome is the client and its   *)
(* fate: "keep" (retval >= 0), "defer" or "close" (retval < 0).            *)

Outcome(c, fate) == [client |-> c, fate |-> fate]

\* Mutant: the wrong status for the child.
Launched_Exited(c) == {Outcome([c EXCEPT !.bits = {}, !.buddy = "EXITED", !.pid = p], "keep")
                           : p \in {q \in Pids : kid[q] = "none"}}

\* onopen() has launched a child.
Launched(c) == {Outcome([c EXCEPT !.bits = {}, !.buddy = "LAUNCHED", !.pid = p], "keep")
                    : p \in {q \in Pids : kid[q] = "none"}}

ReadFate(bits) == IF "CLOSE" \notin bits THEN "keep"
                  ELSE IF Deferred(bits) THEN "defer" ELSE "close"

handle_ws_reads(c) ==
    { Outcome([c EXCEPT !.bits = b], ReadFate(b))
        : b \in IF c.buddy = "UNKNOWN" THEN HandshakeEffects ELSE FrameEffects(c.bits) }
    \cup IF c.buddy = "UNKNOWN" THEN Launched(c) ELSE {}

handle_ws_writes(c) ==
    { Outcome([c EXCEPT !.bits = b], IF b = {"CLOSE"} THEN "close" ELSE "keep")
        : b \in WriteEffects(c.bits) }

\* Mutant: the client waits for its child to come back.
handle_us_reads_Waits(o) ==
    LET c == o.client
    IN  IF o.fate = "keep" /\ c.buddy = "CONNECTED" /\ c.pid \in rfds /\ kid[c.pid] = "gone"
        THEN Outcome([c EXCEPT !.buddy = "LAUNCHED"], "keep") ELSE o

\* Mutant: the end of the child is taken for an error to live with.
handle_us_reads_Ignores(o) == o

\* The child of a client that was kept is read in the same visit; its end closes
\* the client (us_on_client_data returns < 0).
handle_us_reads(o) ==
    LET c == o.client
    IN  IF o.fate = "keep" /\ c.buddy = "CONNECTED" /\ c.pid \in rfds /\ kid[c.pid] = "gone"
        THEN Outcome(c, "close") ELSE o

\* Mutant: the walk leaves the clients without a child to the timeouts.
Visited_NoCheck(fd) ==
    LET c == client[fd]
    IN  {handle_us_reads(o) : o \in IF fd \in rfds THEN handle_ws_reads(c)
                                     ELSE IF fd \in wfds THEN handle_ws_writes(c)
                                     ELSE {Outcome(c, "keep")}}

Visited(fd) ==
    LET c == client[fd]
    IN  IF Overdue(c) THEN {Outcome(c, "close")}
        ELSE {handle_us_reads(o) : o \in IF fd \in rfds THEN handle_ws_reads(c)
                                         ELSE IF fd \in wfds THEN handle_ws_writes(c)
                                         ELSE {Outcome(c, "keep")}}

Visit(fd) ==
    /\ pc = "walk"
    /\ fd \in todo
    /\ todo' = todo \ {fd}
    /\ \E o \in Visited(fd) :
          /\ \/ /\ o.fate = "close"
                /\ handle_tcp_close(fd)
                /\ StaleNext("walk")
             \/ /\ o.fate # "close"
                /\ client' = [client EXCEPT ![fd] = o.client]
                /\ closing' = (closing \/ o.fate = "defer")
                /\ UNCHANGED <<pc, colist>>
          /\ kid' = [p \in Pids |-> IF p = o.client.pid /\ p # client[fd].pid
                                    THEN "running" ELSE kid[p]]
    /\ rfds' = rfds \ {fd, client[fd].pid}
    /\ wfds' = wfds \ {fd}
    /\ UNCHANGED <<greeted, backlog>>

\* The end of the list; the next pass begins with FD_ZERO.
EndWalk ==
    /\ pc = "walk"
    /\ todo = {}
    /\ pc' = "select"
    /\ rfds' = {} /\ wfds' = {}
    /\ UNCHANGED <<colist, client, closing, todo, greeted, kid, backlog>>

-----------------------------------------------------------------------------
(* ws_start: select() timed out *)

\* check_buddy_client closes the clients whose child has not come; then
\* check_dirty_pixels sends a frame to clients whose connected child has drawn.
check_dirty_pixels(c) == IF c.buddy = "CONNECTED" THEN {c.bits} \cup SendEffects(c.bits)
                         ELSE {c.bits}

Timeout ==
    /\ pc = "select"
    /\ Pending = {}
    /\ LET late == {fd \in colist : Overdue(client[fd])}
       IN  /\ Closed(late)
           /\ \E bits \in [Fds -> SUBSET LoopBits] :
                 /\ \A fd \in Fds : bits[fd] \in check_dirty_pixels(client[fd])
                 /\ client' = [fd \in Fds |-> IF fd \in late THEN new_wsclient
                                              ELSE [client[fd] EXCEPT !.bits = bits[fd]]]
           /\ IF late = {} THEN pc' = "select" ELSE StaleNext("select")
    /\ UNCHANGED <<rfds, wfds, todo, greeted, kid, backlog>>

-----------------------------------------------------------------------------
(* The children, and time, while the server lives *)

KidStep(p, from, to) ==
    /\ pc # "crashed"
    /\ kid[p] = from
    /\ kid' = [kid EXCEPT ![p] = to]
    /\ UNCHANGED <<pc, colist, client, closing, rfds, wfds, todo, greeted>>

KidConnects(p) == KidStep(p, "running", "mute") /\ backlog' = backlog \cup {p}
KidTalks(p) == KidStep(p, "mute", "talking") /\ UNCHANGED backlog
KidExits(p) == /\ \E s \in {"running", "mute", "talking"} : KidStep(p, s, "gone")
               /\ UNCHANGED backlog

\* Ten seconds have passed since the launch.
TimePasses(fd) ==
    /\ pc # "crashed"
    /\ client[fd].buddy = "LAUNCHED"
    /\ client' = [client EXCEPT ![fd].late = TRUE]
    /\ UNCHANGED <<pc, colist, closing, rfds, wfds, todo, greeted, kid, backlog>>

\* A process that has crashed stays so.
Dead == pc = "crashed" /\ UNCHANGED vars

-----------------------------------------------------------------------------
Loop == \/ Select
        \/ handle_ws_accept
        \/ handle_us_accept
        \/ us_on_connected
        \/ NoAccept
        \/ \E fd \in Fds : Visit(fd)
        \/ EndWalk
        \/ Timeout

Next == \/ Loop
        \/ \E p \in Pids : KidConnects(p) \/ KidTalks(p) \/ KidExits(p)
        \/ \E fd \in Fds : TimePasses(fd)
        \/ Dead

Spec == Init /\ [][Next]_vars

(***************************************************************************)
(* Fairness.  The loop runs.  A child that has connected writes its        *)
(* description or exits: us_on_connected() waits for it, with everybody    *)
(* else.  Pages do not connect in every pass: while they do, no child is   *)
(* accepted.                                                               *)
(***************************************************************************)
QuietPass == Select /\ "ws" \notin rfds'

FairSpec == /\ Spec
            /\ WF_vars(Loop)
            /\ SF_vars(QuietPass)
            /\ \A p \in Pids : WF_vars(KidTalks(p))

-----------------------------------------------------------------------------
(* Safety *)

\* No handler frees a client other than the one it was called for, so the rest of
\* a walk never stands on a freed node, whatever the handlers close.
WalkIsLive == todo \subseteq colist

\* A child belongs to at most one client, and a client that counts as connected
\* has a child whose connection was accepted: the pid in the name of the socket
\* file never pairs a client with another client's child.
Paired ==
    /\ \A f, g \in colist : client[f].pid = client[g].pid => f = g \/ client[f].pid = NoPid
    /\ \A fd \in colist : client[fd].buddy = "CONNECTED" =>
          client[fd].pid \in Pids \ backlog /\ kid[client[fd].pid] \in {"mute", "talking", "gone"}

\* The life of the sessions, child by child.
SessionOf(p) ==
    IF kid[p] = "none" THEN "none"
    ELSE IF \E fd \in colist : client[fd].pid = p /\ client[fd].buddy = "CONNECTED" THEN "serving"
    ELSE IF \E fd \in colist : client[fd].pid = p THEN "waiting"
    ELSE "over"

Sessions == INSTANCE Pairing WITH session <- [p \in Pids |-> SessionOf(p)]
ImplementsPairing == Sessions!Spec

-----------------------------------------------------------------------------
(* Liveness *)

\* A client whose child does not come within ten seconds is closed, by the walk or
\* by the timeout: however busy the loop is, one of them gets to it.
LaunchEnds ==
    \A fd \in Fds : Overdue(client[fd]) ~> (~Overdue(client[fd]) \/ pc = "crashed")

\* A client whose child has exited is closed, unless a close is being deferred.
Bereaved(fd) == client[fd].buddy = "CONNECTED" /\ kid[client[fd].pid] = "gone"
ExitEnds == \A fd \in Fds : Bereaved(fd) ~> (~Bereaved(fd) \/ closing \/ pc = "crashed")

\* A child that connects is accepted.
ChildAccepted == \A p \in Pids : p \in backlog ~> (p \notin backlog \/ pc = "crashed")

-----------------------------------------------------------------------------
(* What the code's comments say and the code does not do. *)

\* websocket.c:2367 "As long as we are not closing a connection, we assume we always
\* check a client for reading": when no connected client waits to be closed, the
\* clients are watched.
ReadsUnlessClosing ==
    (pc = "select" /\ \A fd \in colist : "CLOSE" \notin client[fd].bits) => colist \subseteq Watched
=============================================================================
