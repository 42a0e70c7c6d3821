---------------------------- MODULE ClientList ----------------------------
(***************************************************************************)
(* server->colist as what it is: nodes of src/src/gslist.c in memory that  *)
(* is allocated and freed, with the WSClient each node owns, the walks of  *)
(* src/src/websocket.c over it, and SIGINT, whose handler (handle_signal_  *)
(* action of src/src/wdserver.c, ws_stop) frees the list from wherever the *)
(* loop has been interrupted.                                              *)
(*                                                                         *)
(* Freed memory keeps what was in it, or the allocator has used it: to     *)
(* read it is a choice between going on and a crash.  To free it again is  *)
(* a crash, the allocator sees that.  The memory is what the handler comes *)
(* to: the nodes, the clients, their headers and their send queues.  A     *)
(* malloc(), realloc() or free() is one step, and so is the part of a      *)
(* realloc() that moves the block.                                         *)
(***************************************************************************)
EXTENDS Naturals, FiniteSets, Sequences

CONSTANTS
    Nodes,    \* addresses of list nodes
    Clients,  \* addresses of WSClients
    Slow,     \* bound: the clients that are ever sent more than the kernel takes
    NULL

ASSUME AddressAssumption == IsFiniteSet(Nodes) /\ Nodes \cap Clients = {} /\ NULL \notin Nodes \cup Clients
ASSUME SlowAssumption == Slow \subseteq Clients

VARIABLES
    pc,       \* where the process is
    colist,   \* server->colist
    node,     \* the nodes
    client,   \* the WSClients
    cursor,   \* client_node of the walk
    target,   \* the node list_insert_prepend makes, or list_remove_node removes
    saved,    \* list_remove_node's next
    resume,   \* what follows the removal: the rest of the visit or the walk
    p,        \* list_foreach's and list_remove_nodes' pointer, in the signal handler
    hit       \* history: in which statements SIGINT has come, or elsewhere in the loop

vars == <<pc, colist, node, client, cursor, target, saved, resume, p, hit>>

Pointer == Nodes \cup {NULL}

\* What a pointer points to: NULL, or allocated, or freed and not reset.
Memory == {"NULL", "live", "freed"}

\* headers and sockqueue are those of WSClient, queued is the buffer of the queue.
Node == [live : BOOLEAN, data : Clients \cup {NULL}, next : Pointer]
WSClient == [live : BOOLEAN, headers : Memory, sockqueue : Memory, queued : Memory]
Client(live) == [live |-> live, headers |-> "NULL", sockqueue |-> "NULL", queued |-> "NULL"]

Inserting == {"insert"}
Removing == {"remove", "freeData", "freeNode", "unlink"}
Queueing == {"setQueued", "resetQueued", "freeQueue", "resetQueue"}
Stopping == {"each", "free"}
Working == {"loop", "accept", "accepted", "walk", "visited"} \cup Inserting \cup Removing \cup Queueing

TypeOK == /\ pc \in Working \cup Stopping \cup {"stopped", "crashed"}
          /\ colist \in Pointer
          /\ node \in [Nodes -> Node]
          /\ client \in [Clients -> WSClient]
          /\ cursor \in Pointer /\ target \in Pointer /\ saved \in Pointer /\ p \in Pointer
          /\ resume \in {"walk", "visited"}
          /\ hit \in Inserting \cup Removing \cup Queueing \cup {"loop", "no"}

Init == /\ pc = "loop"
        /\ colist = NULL
        /\ node = [n \in Nodes |-> [live |-> FALSE, data |-> NULL, next |-> NULL]]
        /\ client = [c \in Clients |-> Client(FALSE)]
        /\ cursor = NULL /\ target = NULL /\ saved = NULL /\ p = NULL
        /\ resume = "walk"
        /\ hit = "no"

Data(n) == node[n].data

\* malloc() and free()
AllocHeaders(c) == [client EXCEPT ![c].headers = "live"]
FreeHeaders(c) ==
    IF client[c].headers = "live" THEN [client EXCEPT ![c].headers = "freed"] ELSE client
FreeClient(c) == [client EXCEPT ![c].live = FALSE]
FreeSlot(n) == [node EXCEPT ![n].live = FALSE]
SetQueue(c, sockqueue, queued) == [client EXCEPT ![c].sockqueue = sockqueue, ![c].queued = queued]

\* After an access to memory the process goes on, or, if the memory has been freed,
\* it may not.
Touch(live, then) == pc' \in (IF live THEN {then} ELSE {then, "crashed"})

-----------------------------------------------------------------------------
(* check_rfds_wfds, and check_buddy_client which accepts nobody *)

StartPass == /\ pc = "loop"
             /\ cursor' = colist
             /\ pc' \in {"accept", "walk"}
             /\ UNCHANGED <<colist, node, client, target, saved, resume, p, hit>>

NoAccept == /\ pc = "accept"
            /\ pc' = "walk"
            /\ UNCHANGED <<colist, node, client, cursor, target, saved, resume, p, hit>>

\* Mutant: the arguments of list_insert_prepend swapped.
NewNode_Swapped(c) == [live |-> TRUE, data |-> colist, next |-> c]

\* Mutant: list_create, without the next.
NewNode_Alone(c) == [live |-> TRUE, data |-> c, next |-> NULL]

NewNode(c) == [live |-> TRUE, data |-> c, next |-> colist]

\* accept_client: new_wsclient, list_insert_prepend ...
accept_client == /\ pc = "accept"
                 /\ \E c \in Clients, n \in Nodes :
                       /\ ~client[c].live /\ ~node[n].live
                       /\ client' = [client EXCEPT ![c] = Client(TRUE)]
                       /\ node' = [node EXCEPT ![n] = NewNode(c)]
                       /\ target' = n
                 /\ pc' = "insert"
                 /\ UNCHANGED <<colist, cursor, saved, resume, p, hit>>

\* ... and the assignment of its result.
Link == /\ pc = "insert"
        /\ colist' = target
        /\ pc' = "accepted"
        /\ UNCHANGED <<node, client, cursor, target, saved, resume, p, hit>>

\* handle_ws_accept: the page stays, if need be until an error page has gone out,
\* or there are too many.
Accepted ==
    /\ pc = "accepted"
    /\ \/ /\ pc' = "walk"
          /\ target' = NULL
          /\ \/ client' = client
             \/ Data(target) \in Slow /\ client' = SetQueue(Data(target), "live", "live")
       \/ /\ pc' = "remove"
          /\ UNCHANGED <<target, client>>
    /\ UNCHANGED <<colist, node, cursor, saved, resume, p, hit>>

\* The handlers keep the client; the handshake reader allocates the headers.
Keep == /\ pc = "walk" /\ cursor # NULL
        /\ client' \in {client, AllocHeaders(Data(cursor))}
        /\ Touch(node[cursor].live /\ client[Data(cursor)].live, "visited")
        /\ UNCHANGED <<colist, node, cursor, target, saved, resume, p, hit>>

\* The handlers close it: handle_tcp_close, ws_remove_client_from_list.
Close == /\ pc = "walk" /\ cursor # NULL
         /\ Touch(node[cursor].live /\ client[Data(cursor)].live, "remove")
         /\ target' = cursor
         /\ resume' = "visited"
         /\ UNCHANGED <<colist, node, client, cursor, saved, p, hit>>

\* The visit has freed the node the walk stands on, and the client.
Stale == ~node[cursor].live \/ ~client[Data(cursor)].live

\* Mutant: after each visit the walk begins again, the list may have changed.
Advance_Restart == /\ pc = "visited"
                   /\ cursor' = colist
                   /\ pc' = "walk"
                   /\ UNCHANGED <<colist, node, client, target, saved, resume, p, hit>>

\* client_node = client_node->next, and before it the status of the client's child.
Advance == /\ pc = "visited"
           /\ \/ pc' = "walk" /\ cursor' = node[cursor].next
              \/ Stale /\ pc' = "crashed" /\ cursor' = cursor
           /\ UNCHANGED <<colist, node, client, target, saved, resume, p, hit>>

EndWalk == /\ pc = "walk" /\ cursor = NULL
           /\ pc' = "loop"
           /\ UNCHANGED <<colist, node, client, cursor, target, saved, resume, p, hit>>

-----------------------------------------------------------------------------
(* The send queue of the client that is visited: ws_respond, and below *)

QueueStep(at, to, sockqueue, queued) ==
    /\ pc = at /\ cursor # NULL
    /\ pc' = to
    /\ client' = SetQueue(Data(cursor), sockqueue, queued)
    /\ UNCHANGED <<colist, node, cursor, target, saved, resume, p, hit>>

Sockqueue == client[Data(cursor)].sockqueue

\* The queue is filled before client->sockqueue points to it.
ws_queue_sockbuf == /\ QueueStep("walk", "walk", "live", "live")
                    /\ Sockqueue = "NULL" /\ Data(cursor) \in Slow

\* ws_realloc_send_buf: realloc() moves the buffer, and then queue->queued is set.
MoveQueued == QueueStep("walk", "setQueued", "live", "freed") /\ Sockqueue = "live"
SetQueued == QueueStep("setQueued", "walk", "live", "live")

\* ws_clear_queue, line by line: free(), NULL, free(), NULL.
FreeQueued == QueueStep("walk", "resetQueued", "live", "freed") /\ Sockqueue = "live"
ResetQueued == QueueStep("resetQueued", "freeQueue", "live", "NULL")
FreeQueue == QueueStep("freeQueue", "resetQueue", "freed", "NULL")

\* Mutant: the function's own copy of the pointer is reset.
ResetQueue_Copy == QueueStep("resetQueue", "walk", "freed", "NULL")

ResetQueue == QueueStep("resetQueue", "walk", "NULL", "NULL")

-----------------------------------------------------------------------------
(* ws_remove_client_from_list *)

\* ws_clear_handshake_headers resets its own copy of the pointer only, and the fields not at
\* all: a SIGINT between its frees would free again what one after the last of them does.
RemoveHeaders == /\ pc = "remove"
                 /\ client' = FreeHeaders(Data(target))
                 /\ pc' = "freeData"
                 /\ UNCHANGED <<colist, node, cursor, target, saved, resume, p, hit>>

\* list_remove_node: free the data, free the node, and then take it out.
FreeData == /\ pc = "freeData"
            /\ saved' = node[target].next
            /\ client' = FreeClient(Data(target))
            /\ pc' = "freeNode"
            /\ UNCHANGED <<colist, node, cursor, target, resume, p, hit>>

FreeNode == /\ pc = "freeNode"
            /\ node' = FreeSlot(target)
            /\ pc' = "unlink"
            /\ UNCHANGED <<colist, client, cursor, target, saved, resume, p, hit>>

\* *current = next, where current is the head of the list or a node's next.
Unlink == /\ pc = "unlink"
          /\ colist' = IF colist = target THEN saved ELSE colist
          /\ node' = [n \in Nodes |-> IF node[n].live /\ node[n].next = target
                                      THEN [node[n] EXCEPT !.next = saved] ELSE node[n]]
          /\ pc' = resume
          /\ target' = NULL /\ saved' = NULL /\ resume' = "walk"
          /\ UNCHANGED <<client, cursor, p, hit>>

-----------------------------------------------------------------------------
(* SIGINT, at any time: ws_stop *)

\* The loop does not go on after it: what the walk holds in its hands is forgotten.
SIGINT == /\ pc \in Working
          /\ hit' = IF pc \in Inserting \cup Removing \cup Queueing THEN pc ELSE "loop"
          /\ p' = colist
          /\ pc' = "each"
          /\ cursor' = NULL /\ saved' = NULL /\ resume' = "walk"
          /\ UNCHANGED <<colist, node, client, target>>

\* What the handler would free a second time: the buffer is found by way of the queue.
LostQueue(c) == \/ client[c].sockqueue = "freed"
                \/ client[c].sockqueue = "live" /\ client[c].queued = "freed"
Dangles(c) == client[c].headers = "freed" \/ LostQueue(c)

\* ws_clear_handshake_headers, and the whole of ws_clear_queue.
Release(c) == [FreeHeaders(c) EXCEPT ![c].sockqueue = "NULL", ![c].queued = "NULL"]

\* list_foreach (ws_remove_dangling_clients)
Dangling == /\ pc = "each" /\ p # NULL
            /\ client' = Release(Data(p))
            /\ p' = node[p].next
            /\ IF Dangles(Data(p)) THEN pc' = "crashed"
               ELSE Touch(node[p].live /\ client[Data(p)].live, "each")
            /\ UNCHANGED <<colist, node, cursor, target, saved, resume, hit>>

DanglingEnds == /\ pc = "each" /\ p = NULL
                /\ p' = colist
                /\ pc' = "free"
                /\ UNCHANGED <<colist, node, client, cursor, target, saved, resume, hit>>

\* Mutant: the nodes are freed without their data.
list_remove_nodes_Nodes ==
    /\ pc = "free" /\ p # NULL
    /\ p' = node[p].next
    /\ node' = FreeSlot(p)
    /\ pc' = IF node[p].live THEN "free" ELSE "crashed"
    /\ UNCHANGED <<colist, client, cursor, target, saved, resume, hit>>

list_remove_nodes ==
    /\ pc = "free" /\ p # NULL
    /\ p' = node[p].next
    /\ client' = FreeClient(Data(p))
    /\ node' = FreeSlot(p)
    /\ pc' = IF node[p].live /\ client[Data(p)].live THEN "free" ELSE "crashed"
    /\ UNCHANGED <<colist, cursor, target, saved, resume, hit>>

Exit == /\ pc = "free" /\ p = NULL
        /\ pc' = "stopped"
        /\ UNCHANGED <<colist, node, client, cursor, target, saved, resume, p, hit>>

-----------------------------------------------------------------------------
Ended == pc \in {"stopped", "crashed"} /\ UNCHANGED vars

Handler == Dangling \/ DanglingEnds \/ list_remove_nodes \/ Exit
Visit == Keep \/ Close
Walk == Visit \/ Advance \/ EndWalk
Sending == \/ ws_queue_sockbuf
           \/ MoveQueued \/ SetQueued
           \/ FreeQueued \/ ResetQueued \/ FreeQueue \/ ResetQueue
Removal == RemoveHeaders \/ FreeData \/ FreeNode \/ Unlink

Next == \/ StartPass \/ NoAccept \/ accept_client \/ Link \/ Accepted
        \/ Walk \/ Sending \/ Removal
        \/ SIGINT \/ Handler
        \/ Ended

Spec == Init /\ [][Next]_vars

\* The process runs, and a visit, whose handlers send a few frames at most, ends.
FairSpec == /\ Spec
            /\ WF_vars(Walk \/ Sending \/ Removal \/ NoAccept \/ Link \/ Accepted)
            /\ SF_vars(Visit)
            /\ WF_vars(Handler)

-----------------------------------------------------------------------------
(* The list as a sequence: the pointer i steps from q.  A node that is being *)
(* removed, or on which the walk still stands, keeps its next.             *)

From(q) ==
    LET chain[i \in 0 .. Cardinality(Nodes)] ==
            IF i = 0 THEN q ELSE IF chain[i - 1] = NULL THEN NULL ELSE node[chain[i - 1]].next
    IN  chain
ClientsFrom(q) == {Data(n) : n \in {From(q)[i] : i \in 0 .. Cardinality(Nodes)} \cap Nodes}

Listed == {c \in ClientsFrom(colist) : client[c].live}
ToVisit == IF pc = "loop" \/ cursor = NULL THEN {}
           ELSE IF pc = "visited" \/ (pc \in Removing /\ resume = "visited")
           THEN ClientsFrom(node[cursor].next)
           ELSE ClientsFrom(cursor)
Up == pc \in Working

-----------------------------------------------------------------------------
(* Safety *)

\* However the nodes are prepended, removed under the walk's feet, freed and used again,
\* a walk visits each client that was connected when it began once: the set that
\* EventLoop has instead of the list is enough.
AsSet == INSTANCE ClientSet WITH
    members <- IF Up THEN Listed ELSE {}, todo <- IF Up THEN ToVisit ELSE {}, up <- Up
ImplementsClientSet == AsSet!Spec

\* Between a free() and what takes the pointer to it away, or out of the list: in
\* ws_remove_client_from_list, ws_clear_queue and ws_realloc_send_buf.
Torn == {"freeData", "freeNode", "unlink"} \cup {"setQueued", "resetQueued", "resetQueue"}

\* The memory of nodes, clients, headers and queues is read after it has been freed, or
\* freed again, only when the walk has closed the client it stands on, or SIGINT has come
\* where something is torn: anywhere else, halfway through the insertion of a client or
\* with queues and headers in any state, ws_stop (websocket.c:517 too) is safe.
CrashCause ==
    pc = "crashed" => IF hit = "no" THEN Stale ELSE hit \in Torn

\* A SIGINT that comes neither where something is torn nor in an insertion leaves no client
\* and no node behind: all of them are in the list then.
CleanStop ==
    pc = "stopped" /\ hit \notin Torn \cup Inserting =>
        /\ \A n \in Nodes : ~node[n].live
        /\ \A c \in Clients : ~client[c].live

-----------------------------------------------------------------------------
(* Liveness *)

\* A walk comes to the end of the list, whoever leaves meanwhile.
WalkEnds == pc \in {"walk", "visited"} ~> pc \notin {"walk", "visited"} \cup Removing \cup Queueing
=============================================================================
