-------------------------- MODULE ClientListProofs --------------------------
(***************************************************************************)
(* TypeOK, CrashCause and CleanStop of ClientList, and that it implements  *)
(* ClientSet, for any number of nodes and clients.                         *)
(*                                                                         *)
(* The inductive invariant says of the list that its nodes can be numbered *)
(* so that each node's next has the greatest number below its own, and the *)
(* head of the list the greatest of all.  That makes it a chain through    *)
(* all its nodes without induction on its length.  The pointer of a walk   *)
(* comes to the nodes whose number is not above that of where it begins    *)
(* (ReachedBelow): that is by induction on its steps.                      *)
(***************************************************************************)
EXTENDS ClientList, FiniteSetTheorems, SetInduction, TLAPS

\* r numbers the nodes L of the list that begins at top.
Chain(r, L, next, top) ==
    /\ \A n, m \in L : r[n] = r[m] => n = m
    /\ \A n \in L : /\ next[n] \in L \cup {NULL}
                    /\ next[n] # NULL => r[next[n]] < r[n]
    /\ \A n, m \in L : r[m] < r[n] => next[n] # NULL /\ r[m] <= r[next[n]]
    /\ top \in L \cup {NULL}
    /\ \A m \in L : top # NULL /\ r[m] <= r[top]

\* Where the loop is, or has been interrupted.
Where == IF hit = "no" THEN pc ELSE hit

\* The nodes of the list: one that is made is not in it yet, and one that has been
\* freed is not out of it at once.
Linked == {n \in Nodes : \/ node[n].live /\ ~(Where = "insert" /\ n = target)
                         \/ Where = "unlink" /\ n = target}

nexts == [n \in Nodes |-> node[n].next]

\* What is left of the list when the handler has freed its beginning.
Top == IF pc \in {"free", "stopped"} THEN p ELSE colist

\* list_foreach has not freed anything of the clients it comes to.
Ahead(r) ==
    pc = "each" =>
        /\ p \in Linked \cup {NULL}
        /\ \A n \in Linked : p # NULL /\ r[n] <= r[p] => ~Dangles(Data(n))

Heap == \E r \in [Nodes -> Nat] : Chain(r, Linked, nexts, Top) /\ Ahead(r)

\* Each node in use owns a client in use, which no other node does, and the pointers of
\* the client are good but for the statements that free what they point to.
Owned ==
    /\ \A n \in Nodes : node[n].live =>
          /\ Data(n) \in Clients
          /\ client[Data(n)].live \/ (pc = "freeNode" /\ n = target)
    /\ \A n, m \in Nodes : node[n].live /\ node[m].live /\ Data(n) = Data(m) => n = m
    /\ \A c \in Clients : client[c].live => \E n \in Nodes : node[n].live /\ Data(n) = c
    /\ hit = "no" => \A n \in Nodes : node[n].live =>
          /\ client[Data(n)].headers = "freed" => pc \in {"freeData", "freeNode"} /\ n = target
          /\ LostQueue(Data(n)) => pc \in {"setQueued", "resetQueued", "resetQueue"} /\ n = cursor

Phase ==
    /\ pc \in Working => hit = "no"
    /\ pc \in Stopping \cup {"stopped"} => hit # "no"
    /\ pc = "stopped" => p = NULL
    /\ pc \in {"visited"} \cup Queueing => cursor \in Nodes
    /\ pc \in {"insert", "accepted"} \cup Removing => target \in Nodes
    /\ pc \in Working \ Removing => resume = "walk"
    /\ pc \in Removing /\ resume = "visited" => cursor \in Nodes

\* What the walk and the removal hold in their hands.
InHand ==
    /\ pc = "insert" => node[target].live /\ node[target].next = colist
    /\ pc = "accepted" => target \in Linked /\ cursor # target
    /\ pc \in Removing => target \in Linked
    /\ pc \in {"remove", "freeData", "freeNode"} => node[target].live
    /\ pc = "freeNode" => ~client[Data(target)].live
    /\ pc = "unlink" => ~node[target].live
    /\ pc \in {"freeNode", "unlink"} => saved = node[target].next
    /\ pc \in {"accept", "insert", "accepted", "walk"} \cup Queueing => cursor \in Linked \cup {NULL}
    /\ pc \in Removing /\ resume = "walk" => cursor \in Linked \cup {NULL} /\ cursor # target
    /\ pc \in Removing /\ resume = "visited" => cursor = target
    /\ pc = "visited" => node[cursor].next \in Linked \cup {NULL}

\* SIGINT has not come where something is torn.
Sound == pc # "crashed" /\ hit \notin Torn

Inv == TypeOK /\ Phase /\ CrashCause /\ (Sound => Heap /\ Owned /\ InHand)

-----------------------------------------------------------------------------
(* Chains *)

\* The nexts of other nodes do not matter: what list_create writes to a node that is
\* not in the list.
LEMMA ChainElsewhere ==
    ASSUME NEW r, NEW L, NEW next, NEW next2, NEW top, Chain(r, L, next, top),
           \A n \in L : next2[n] = next[n]
    PROVE  Chain(r, L, next2, top)
  BY DEF Chain

\* list_insert_prepend: a node before the head gets a number above its own.
LEMMA ChainPrepend ==
    ASSUME NEW L \in SUBSET Nodes, NEW r \in [Nodes -> Nat], NEW next \in [Nodes -> Pointer],
           NEW top, NEW t \in Nodes \ L, Chain(r, L, next, top), next[t] = top
    PROVE  \E s \in [Nodes -> Nat] : Chain(s, L \cup {t}, next, t)
  <1> DEFINE s == [r EXCEPT ![t] = IF top = NULL THEN 0 ELSE r[top] + 1]
  <1>1. top \in L \cup {NULL} /\ NULL \notin Nodes
    BY AddressAssumption DEF Chain
  <1>2. s \in [Nodes -> Nat] /\ \A n \in L : s[n] = r[n] /\ s[n] \in Nat
    BY <1>1
  <1>3. s[t] = IF top = NULL THEN 0 ELSE r[top] + 1
    OBVIOUS
  <1>4. \A m \in L : s[m] < s[t] /\ top # NULL
    BY <1>1, <1>2, <1>3 DEF Chain
  <1>5. Chain(s, L \cup {t}, next, t)
    <2> HIDE DEF s
    <2>1. \A n, m \in L \cup {t} : s[n] = s[m] => n = m
      BY <1>2, <1>4 DEF Chain
    <2>2. \A n \in L \cup {t} : /\ next[n] \in L \cup {t} \cup {NULL}
                                /\ next[n] # NULL => s[next[n]] < s[n]
      BY <1>1, <1>2, <1>4 DEF Chain
    <2>3. \A n, m \in L \cup {t} : s[m] < s[n] => next[n] # NULL /\ s[m] <= s[next[n]]
      BY <1>1, <1>2, <1>4 DEF Chain
    <2>4. \A m \in L \cup {t} : t # NULL /\ s[m] <= s[t]
      BY <1>1, <1>2, <1>4
    <2> QED
      BY <2>1, <2>2, <2>3, <2>4 DEF Chain
  <1> QED
    BY <1>2, <1>5

\* list_remove_node: the node's next takes its place.
LEMMA ChainRemove ==
    ASSUME NEW L \in SUBSET Nodes, NEW r \in [Nodes -> Nat], NEW next \in [Nodes -> Pointer],
           NEW next2, NEW top, NEW t \in L, Chain(r, L, next, top),
           \A n \in L \ {t} : next2[n] = IF next[n] = t THEN next[t] ELSE next[n]
    PROVE  Chain(r, L \ {t}, next2, IF top = t THEN next[t] ELSE top)
  <1> DEFINE top2 == IF top = t THEN next[t] ELSE top
  <1>1. NULL \notin L /\ \A n \in L : r[n] \in Nat
    BY AddressAssumption
  <1>2. next[t] \in (L \ {t}) \cup {NULL}
    BY <1>1 DEF Chain
  <1>3. \A n, m \in L \ {t} : r[n] = r[m] => n = m
    BY DEF Chain
  <1>4. \A n \in L \ {t} : /\ next2[n] \in (L \ {t}) \cup {NULL}
                           /\ next2[n] # NULL => r[next2[n]] < r[n]
    BY <1>1, <1>2 DEF Chain
  <1>5. ASSUME NEW n \in L \ {t}, NEW m \in L \ {t}, r[m] < r[n]
        PROVE  next2[n] # NULL /\ r[m] <= r[next2[n]]
    <2>1. CASE next[n] # t
      BY <1>1, <1>5, <2>1 DEF Chain
    <2>2. CASE next[n] = t
      <3>1. r[m] < r[t]
        BY <1>1, <1>5, <2>2 DEF Chain
      <3> QED
        BY <1>1, <3>1, <2>2 DEF Chain
    <2> QED
      BY <2>1, <2>2
  <1>6. top2 \in (L \ {t}) \cup {NULL}
    BY <1>2 DEF Chain
  <1>7. ASSUME NEW m \in L \ {t}
        PROVE  top2 # NULL /\ r[m] <= r[top2]
    <2>1. CASE top # t
      BY <2>1 DEF Chain
    <2>2. CASE top = t
      <3>1. r[m] < r[t]
        BY <1>1, <2>2 DEF Chain
      <3> QED
        BY <1>1, <3>1, <2>2 DEF Chain
    <2> QED
      BY <2>1, <2>2
  <1> QED
    BY <1>3, <1>4, <1>5, <1>6, <1>7 DEF Chain

\* list_remove_nodes: without its head the list begins at the head's next.
LEMMA ChainBehead ==
    ASSUME NEW L \in SUBSET Nodes, NEW r \in [Nodes -> Nat], NEW next \in [Nodes -> Pointer],
           NEW top \in L, Chain(r, L, next, top)
    PROVE  Chain(r, L \ {top}, next, next[top])
  <1>1. \A n \in L \ {top} : next[n] # top
    BY AddressAssumption DEF Chain
  <1> QED
    BY <1>1, ChainRemove

-----------------------------------------------------------------------------
(* The type *)

LEMMA TypeInit == Init => TypeOK /\ Phase
  BY DEF Init, TypeOK, Phase, Working, Inserting, Removing, Queueing, Stopping, Pointer, Node,
         WSClient, Client, Memory

\* What malloc() and free() leave.
LEMMA AllocatedHeaders ==
    ASSUME TypeOK, NEW c
    PROVE  /\ AllocHeaders(c) \in [Clients -> WSClient]
           /\ \A d \in Clients :
                 /\ AllocHeaders(c)[d].live = client[d].live
                 /\ AllocHeaders(c)[d].headers = IF d = c THEN "live" ELSE client[d].headers
                 /\ AllocHeaders(c)[d].sockqueue = client[d].sockqueue
                 /\ AllocHeaders(c)[d].queued = client[d].queued
  BY DEF TypeOK, AllocHeaders, WSClient, Memory

\* ... and a visit that keeps its client.
LEMMA KeptClients ==
    ASSUME TypeOK, Keep
    PROVE  /\ client' \in [Clients -> WSClient]
           /\ \A d \in Clients : /\ client'[d].live = client[d].live
                                 /\ client'[d].headers = "freed" => client[d].headers = "freed"
                                 /\ client'[d].sockqueue = client[d].sockqueue
                                 /\ client'[d].queued = client[d].queued
  <1>1. client' = client \/ client' = AllocHeaders(Data(cursor))
    BY Zenon DEF Keep
  <1>2. CASE client' = client
    BY <1>2 DEF TypeOK
  <1>3. CASE client' = AllocHeaders(Data(cursor))
    BY <1>3, AllocatedHeaders
  <1> QED
    BY <1>1, <1>2, <1>3

LEMMA FreedHeaders ==
    ASSUME TypeOK, NEW c
    PROVE  /\ FreeHeaders(c) \in [Clients -> WSClient]
           /\ \A d \in Clients :
                 /\ FreeHeaders(c)[d].live = client[d].live
                 /\ d # c => FreeHeaders(c)[d].headers = client[d].headers
                 /\ FreeHeaders(c)[d].sockqueue = client[d].sockqueue
                 /\ FreeHeaders(c)[d].queued = client[d].queued
  BY DEF TypeOK, FreeHeaders, WSClient, Memory

\* ... and what the handler does with a client.
LEMMA Released ==
    ASSUME TypeOK, NEW c
    PROVE  /\ Release(c) \in [Clients -> WSClient]
           /\ \A d \in Clients :
                 /\ Release(c)[d].live = client[d].live
                 /\ d # c => Release(c)[d] = client[d]
  <1>1. FreeHeaders(c) \in [Clients -> WSClient]
    BY FreedHeaders
  <1>2. \A d \in Clients : /\ FreeHeaders(c)[d].live = client[d].live
                           /\ d # c => FreeHeaders(c)[d] = client[d]
    BY DEF TypeOK, FreeHeaders, WSClient
  <1>3. PICK f : f = FreeHeaders(c)
    OBVIOUS
  <1>4. Release(c) = [f EXCEPT ![c].sockqueue = "NULL", ![c].queued = "NULL"]
    BY <1>3 DEF Release
  <1>5. Release(c) \in [Clients -> WSClient]
    BY <1>1, <1>3, <1>4 DEF WSClient, Memory
  <1>6. \A d \in Clients : /\ Release(c)[d].live = f[d].live
                           /\ d # c => Release(c)[d] = f[d]
    BY <1>1, <1>3, <1>4 DEF WSClient
  <1> QED
    BY <1>2, <1>3, <1>5, <1>6

LEMMA QueueSet ==
    ASSUME TypeOK, NEW c, NEW sockqueue \in Memory, NEW queued \in Memory
    PROVE  /\ SetQueue(c, sockqueue, queued) \in [Clients -> WSClient]
           /\ \A d \in Clients :
                 /\ SetQueue(c, sockqueue, queued)[d].live = client[d].live
                 /\ SetQueue(c, sockqueue, queued)[d].headers = client[d].headers
                 /\ d # c => SetQueue(c, sockqueue, queued)[d] = client[d]
           /\ c \in Clients => /\ SetQueue(c, sockqueue, queued)[c].sockqueue = sockqueue
                               /\ SetQueue(c, sockqueue, queued)[c].queued = queued
  BY DEF TypeOK, SetQueue, WSClient

LEMMA FreedClient ==
    ASSUME TypeOK, NEW c
    PROVE  /\ FreeClient(c) \in [Clients -> WSClient]
           /\ \A d \in Clients : /\ FreeClient(c)[d].live = IF d = c THEN FALSE ELSE client[d].live
                                 /\ FreeClient(c)[d].headers = client[d].headers
                                 /\ FreeClient(c)[d].sockqueue = client[d].sockqueue
                                 /\ FreeClient(c)[d].queued = client[d].queued
  BY DEF TypeOK, FreeClient, WSClient

LEMMA FreedSlot ==
    ASSUME TypeOK, NEW n
    PROVE  /\ FreeSlot(n) \in [Nodes -> Node]
           /\ \A m \in Nodes : /\ FreeSlot(n)[m].live = IF m = n THEN FALSE ELSE node[m].live
                               /\ FreeSlot(n)[m].data = node[m].data
                               /\ FreeSlot(n)[m].next = node[m].next
  BY DEF TypeOK, FreeSlot, Node

LEMMA TypeStep ==
    ASSUME TypeOK, Phase, [Next]_vars
    PROVE  TypeOK' /\ Phase'
  <1>1. CASE UNCHANGED vars
    BY <1>1 DEF vars, TypeOK, Phase, Data
  <1>2. CASE accept_client
    BY <1>2 DEF accept_client, NewNode, Node, WSClient, Client, Memory, TypeOK, Phase, Working,
                Inserting, Removing, Queueing, Stopping, Pointer
  <1>3. CASE Keep
    <2>1. client' \in [Clients -> WSClient]
      BY <1>3, KeptClients
    <2>2. pc' \in {"visited", "crashed"} /\ cursor \in Nodes /\ hit = "no" /\ resume = "walk"
      BY <1>3 DEF Keep, Touch, TypeOK, Pointer, Phase, Working, Removing, Queueing
    <2> QED
      BY <1>3, <2>1, <2>2
         DEF Keep, TypeOK, Phase, Working, Inserting, Removing, Queueing, Stopping, Pointer
  <1>13. CASE Sending \/ Accepted
    <2>1. client' \in [Clients -> WSClient]
      <3>1. PICK c, sockqueue, queued :
               /\ sockqueue \in Memory /\ queued \in Memory
               /\ client' = client \/ client' = SetQueue(c, sockqueue, queued)
        BY <1>13, Zenon DEF Sending, ws_queue_sockbuf, MoveQueued, SetQueued, FreeQueued, ResetQueued,
               FreeQueue, ResetQueue, QueueStep, Accepted, Memory
      <3>2. client \in [Clients -> WSClient]
        BY DEF TypeOK
      <3>3. SetQueue(c, sockqueue, queued) \in [Clients -> WSClient]
        BY <3>1, QueueSet
      <3> QED
        BY <3>1, <3>2, <3>3
    <2>2. /\ pc \in {"accepted", "walk"} \cup Queueing
          /\ pc' \in {"walk", "remove"} \cup Queueing
          /\ colist' = colist /\ node' = node /\ cursor' = cursor /\ saved' = saved
          /\ resume' = resume /\ p' = p /\ hit' = hit
          /\ target' \in {target, NULL}
          /\ pc' \in Queueing => cursor # NULL
          /\ pc' = "remove" => pc = "accepted" /\ target' = target
      BY <1>13 DEF Sending, ws_queue_sockbuf, MoveQueued, SetQueued, FreeQueued, ResetQueued,
               FreeQueue, ResetQueue, QueueStep, Accepted, Queueing
    <2> QED
      BY <2>1, <2>2 DEF TypeOK, Phase, Working, Inserting, Removing, Queueing, Stopping, Pointer
  <1> USE DEF TypeOK, Phase, Working, Inserting, Removing, Queueing, Stopping, Pointer, Touch
  <1>4. CASE StartPass \/ NoAccept \/ Link \/ Close \/ EndWalk
    BY <1>4 DEF StartPass, NoAccept, Link, Close, EndWalk
  <1>5. CASE Advance
    BY <1>5 DEF Advance, Node
  <1>6. CASE RemoveHeaders
    BY <1>6, FreedHeaders DEF RemoveHeaders
  <1>7. CASE FreeData
    BY <1>7, FreedClient DEF FreeData, Node
  <1>8. CASE FreeNode
    BY <1>8, FreedSlot DEF FreeNode
  <1>9. CASE Unlink
    <2>1. node' \in [Nodes -> Node]
      BY <1>9 DEF Unlink, Node
    <2> QED
      BY <1>9, <2>1 DEF Unlink
  <1>10. CASE SIGINT \/ DanglingEnds \/ Exit
    BY <1>10 DEF SIGINT, DanglingEnds, Exit
  <1>11. CASE Dangling
    BY <1>11, Released DEF Dangling, Node
  <1>12. CASE list_remove_nodes
    BY <1>12, FreedClient, FreedSlot DEF list_remove_nodes, Node
  <1> QED
    BY <1>1, <1>2, <1>3, <1>4, <1>5, <1>6, <1>7, <1>8, <1>9, <1>10, <1>11, <1>12, <1>13
       DEF Next, Walk, Visit, Removal, Handler, Ended

-----------------------------------------------------------------------------
(* The steps of the loop *)

Good == TypeOK /\ Phase /\ Sound /\ Heap /\ Owned /\ InHand
Kept == CrashCause /\ (Sound => Heap /\ Owned /\ InHand)

\* A step that leaves the nodes and the list alone.
LEMMA SameHeap ==
    ASSUME Heap, node' = node, Linked' = Linked, Top' = Top, pc' # "each"
    PROVE  Heap'
  <1>1. PICK r \in [Nodes -> Nat] : Chain(r, Linked, nexts, Top)
    BY DEF Heap
  <1>2. nexts' = nexts
    BY DEF nexts
  <1>3. Chain(r, Linked', nexts', Top') /\ Ahead(r)'
    BY <1>1, <1>2 DEF Ahead
  <1> QED
    BY <1>3 DEF Heap

\* Passes begin and end, and the walk goes on.
LEMMA PassKeeps ==
    ASSUME Good, TypeOK', Phase',
           StartPass \/ NoAccept \/ Accepted \/ Close \/ EndWalk \/ Advance,
           client' = client
    PROVE  Kept'
  <1> USE DEF Good, Working, Inserting, Removing, Queueing, Stopping, Where, Torn
  <1>1. /\ node' = node /\ client' = client /\ colist' = colist /\ hit' = hit
        /\ pc \in {"loop", "accept", "accepted", "walk", "visited"} /\ hit = "no"
    BY DEF StartPass, NoAccept, Accepted, Close, EndWalk, Advance, Phase
  <1>2. \A n \in Linked : node[n].live /\ client[Data(n)].live /\ Data(n) \in Clients
    BY <1>1 DEF Linked, Owned
  <1>3. pc' \in Working \/ (pc' = "crashed" /\ Stale')
    BY <1>1, <1>2 DEF StartPass, NoAccept, Accepted, Close, EndWalk, Advance, Touch, Stale, InHand, Data
  <1>4. CASE pc' = "crashed"
    BY <1>1, <1>3, <1>4 DEF Kept, CrashCause, Sound
  <1>5. CASE pc' # "crashed"
    <2>1. pc' \in {"loop", "accept", "walk", "remove"} /\ Linked' = Linked /\ Top' = Top
      BY <1>1, <1>5 DEF StartPass, NoAccept, Accepted, Close, EndWalk, Advance, Touch, Linked, Top
    <2>2. Heap'
      BY <1>1, <2>1, SameHeap
    <2>3. Owned'
      BY <1>1, <2>1 DEF Owned, Data, LostQueue
    <2>4. InHand'
      <3>1. colist \in Linked \cup {NULL}
        BY <1>1 DEF Heap, Chain, Top
      <3> QED
        BY <1>1, <1>2, <2>1, <3>1
           DEF StartPass, NoAccept, Accepted, Close, EndWalk, Advance, Touch, InHand, Phase, TypeOK, Pointer
    <2> QED
      BY <1>5, <2>2, <2>3, <2>4 DEF Kept, CrashCause
  <1> QED
    BY <1>4, <1>5

\* A visit that keeps its client.
LEMMA KeepKeeps ==
    ASSUME Good, TypeOK', Phase', Keep
    PROVE  Kept'
  <1> USE DEF Good, Working, Inserting, Removing, Queueing, Stopping, Where, Torn
  <1>1. /\ node' = node /\ colist' = colist /\ hit' = hit /\ target' = target /\ saved' = saved
        /\ resume' = resume /\ cursor' = cursor
        /\ pc = "walk" /\ hit = "no" /\ cursor \in Linked
    BY DEF Keep, Phase, InHand
  <1>2. node[cursor].live /\ client[Data(cursor)].live /\ Data(cursor) \in Clients
    BY <1>1 DEF Linked, Owned
  <1>3. pc' = "visited"
    BY <1>1, <1>2 DEF Keep, Touch
  <1>4. \A c \in Clients : /\ client'[c].live = client[c].live
                           /\ client'[c].headers = "freed" => client[c].headers = "freed"
                           /\ client'[c].sockqueue = client[c].sockqueue
                           /\ client'[c].queued = client[c].queued
    BY KeptClients
  <1>6. Linked' = Linked /\ Top' = Top
    BY <1>1, <1>3 DEF Linked, Top
  <1>7. Heap'
    BY <1>1, <1>3, <1>6, SameHeap
  <1>8. Owned'
    BY <1>1, <1>3, <1>4 DEF Owned, Data, TypeOK, Node, LostQueue
  <1>9. nexts[cursor] \in Linked \cup {NULL}
    BY <1>1 DEF Heap, Chain
  <1>10. InHand'
    BY <1>1, <1>3, <1>6, <1>9 DEF InHand, nexts, TypeOK, Phase
  <1> QED
    BY <1>3, <1>7, <1>8, <1>10 DEF Kept, CrashCause

\* The queue of a client of the list is made, moved or freed, a statement at a time.
LEMMA QueueKeeps ==
    ASSUME Good, TypeOK', Phase', NEW n \in Linked, NEW sockqueue \in Memory, NEW queued \in Memory,
           client' = SetQueue(Data(n), sockqueue, queued),
           node' = node, colist' = colist, hit' = hit, cursor' = cursor, saved' = saved,
           resume' = resume,
           pc \in {"accepted", "walk"} \cup Queueing, pc' \in {"walk"} \cup Queueing,
           pc \in Queueing => n = cursor,
           sockqueue = "freed" \/ (sockqueue = "live" /\ queued = "freed") =>
              pc' \in {"setQueued", "resetQueued", "resetQueue"} /\ n = cursor
    PROVE  Kept'
  <1>1. hit = "no" /\ Where = pc /\ Where' = pc'
    BY DEF Good, Phase, Working, Where
  <1>2. Linked' = Linked /\ Top' = Top
    BY <1>1 DEF Linked, Top, Queueing
  <1>3. n \in Nodes /\ node[n].live /\ Data(n) \in Clients
    BY <1>1 DEF Linked, Good, Owned, Queueing
  <1>4. /\ \A d \in Clients : /\ client'[d].live = client[d].live
                              /\ client'[d].headers = client[d].headers
                              /\ d # Data(n) => client'[d] = client[d]
        /\ client'[Data(n)].sockqueue = sockqueue /\ client'[Data(n)].queued = queued
    BY <1>3, QueueSet DEF Good
  <1>5. Heap'
    BY <1>1, <1>2, SameHeap DEF Good, Queueing
  <1>6. Owned'
    <2>1. /\ \A m \in Nodes : node[m].live => Data(m) \in Clients /\ client[Data(m)].live
          /\ \A m, o \in Nodes : node[m].live /\ node[o].live /\ Data(m) = Data(o) => m = o
          /\ \A c \in Clients : client[c].live => \E m \in Nodes : node[m].live /\ Data(m) = c
          /\ \A m \in Nodes : node[m].live =>
                /\ client[Data(m)].headers # "freed"
                /\ LostQueue(Data(m)) => pc \in Queueing /\ m = cursor
      BY <1>1 DEF Good, Owned, Queueing
    <2>2. \A m \in Nodes : Data(m)' = Data(m)
      BY DEF Data
    <2>3. \A m \in Nodes : node[m].live => client'[Data(m)].live /\ client'[Data(m)].headers # "freed"
      BY <1>4, <2>1
    <2>4. \A c \in Clients : client'[c].live => \E m \in Nodes : node[m].live /\ Data(m) = c
      BY <1>4, <2>1
    <2>5. ASSUME NEW m \in Nodes, node[m].live, LostQueue(Data(m))'
          PROVE  pc' \in {"setQueued", "resetQueued", "resetQueue"} /\ m = cursor
      <3>1. CASE m = n
        BY <1>4, <2>2, <2>5, <3>1 DEF LostQueue
      <3>2. CASE m # n
        <4>1. Data(m) # Data(n) /\ client'[Data(m)] = client[Data(m)]
          BY <1>3, <1>4, <2>1, <2>5, <3>2
        <4>2. LostQueue(Data(m))
          BY <2>2, <2>5, <4>1 DEF LostQueue
        <4> QED
          BY <2>1, <2>5, <3>2, <4>2
      <3> QED
        BY <3>1, <3>2
    <2> QED
      BY <2>1, <2>2, <2>3, <2>4, <2>5 DEF Owned
  <1>7. InHand'
    BY <1>2 DEF Good, InHand, Queueing, Removing
  <1> QED
    BY <1>5, <1>6, <1>7 DEF Kept, CrashCause, Queueing

\* One statement of ws_respond and below, on the client under the walk.
LEMMA QueueStepKeeps ==
    ASSUME Good, TypeOK', Phase', NEW at \in {"walk"} \cup Queueing, NEW to \in {"walk"} \cup Queueing,
           NEW sockqueue \in Memory, NEW queued \in Memory, QueueStep(at, to, sockqueue, queued),
           sockqueue = "freed" \/ (sockqueue = "live" /\ queued = "freed") =>
              to \in {"setQueued", "resetQueued", "resetQueue"}
    PROVE  Kept'
  <1>1. cursor \in Linked
    BY DEF QueueStep, Good, InHand
  <1> QED
    BY <1>1, QueueKeeps DEF QueueStep

LEMMA SendKeeps ==
    ASSUME Good, TypeOK', Phase', Sending
    PROVE  Kept'
  <1> USE DEF Queueing, Memory
  <1>1. CASE ws_queue_sockbuf
    BY <1>1, QueueStepKeeps DEF ws_queue_sockbuf
  <1>2. CASE MoveQueued
    BY <1>2, QueueStepKeeps DEF MoveQueued
  <1>3. CASE SetQueued
    BY <1>3, QueueStepKeeps DEF SetQueued
  <1>4. CASE FreeQueued
    BY <1>4, QueueStepKeeps DEF FreeQueued
  <1>5. CASE ResetQueued
    BY <1>5, QueueStepKeeps DEF ResetQueued
  <1>6. CASE FreeQueue
    BY <1>6, QueueStepKeeps DEF FreeQueue
  <1>7. CASE ResetQueue
    BY <1>7, QueueStepKeeps DEF ResetQueue
  <1> QED
    BY <1>1, <1>2, <1>3, <1>4, <1>5, <1>6, <1>7 DEF Sending

\* The error page of a client that is one too many is queued, or not.
LEMMA AcceptedKeeps ==
    ASSUME Good, TypeOK', Phase', Accepted
    PROVE  Kept'
  <1>1. CASE client' = client
    BY <1>1, PassKeeps
  <1>2. CASE client' # client
    <2>1. client' = SetQueue(Data(target), "live", "live") /\ pc' = "walk" /\ target \in Linked
      BY <1>2 DEF Accepted, Good, InHand
    <2> QED
      BY <2>1, QueueKeeps DEF Accepted, Memory, Queueing
  <1> QED
    BY <1>1, <1>2

\* accept_client makes a client, and a node that owns it.
LEMMA AcceptKeeps ==
    ASSUME Good, TypeOK', Phase', accept_client
    PROVE  Kept'
  <1> USE DEF Good, Working, Inserting, Removing, Queueing, Stopping, Where, Torn
  <1>1. PICK c \in Clients, n \in Nodes :
           /\ ~client[c].live /\ ~node[n].live
           /\ client' = [client EXCEPT ![c] = Client(TRUE)]
           /\ node' = [node EXCEPT ![n] = NewNode(c)]
           /\ target' = n
    BY DEF accept_client
  <1>2. /\ pc = "accept" /\ pc' = "insert" /\ hit = "no" /\ hit' = "no"
        /\ colist' = colist /\ cursor' = cursor /\ saved' = saved /\ resume' = resume
    BY DEF accept_client, Phase
  <1>3. /\ node'[n] = [live |-> TRUE, data |-> c, next |-> colist]
        /\ \A m \in Nodes \ {n} : node'[m] = node[m]
        /\ client'[c] = Client(TRUE)
        /\ \A d \in Clients \ {c} : client'[d] = client[d]
    BY <1>1 DEF TypeOK, NewNode
  <1>4. Linked' = Linked /\ Top' = Top /\ n \notin Linked
    BY <1>1, <1>2, <1>3 DEF Linked, Top
  <1>5. Heap'
    <2>1. PICK r \in [Nodes -> Nat] : Chain(r, Linked, nexts, Top)
      BY DEF Heap
    <2>2. \A m \in Linked : nexts'[m] = nexts[m]
      BY <1>3, <1>4 DEF nexts, Linked
    <2>3. Chain(r, Linked', nexts', Top')
      BY <1>4, <2>1, <2>2, ChainElsewhere
    <2> QED
      BY <1>2, <2>3 DEF Heap, Ahead
  <1>6. Owned'
    <2>1. \A m \in Nodes : node[m].live => Data(m) \in Clients \ {c}
      BY <1>1, <1>2 DEF Owned
    <2> QED
      BY <1>1, <1>2, <1>3, <2>1 DEF Owned, Data, LostQueue, Client
  <1>7. InHand'
    BY <1>1, <1>2, <1>3, <1>4 DEF InHand, TypeOK, Pointer
  <1> QED
    BY <1>2, <1>5, <1>6, <1>7 DEF Kept, CrashCause

\* The node gets into the list.
LEMMA LinkKeeps ==
    ASSUME Good, TypeOK', Phase', Link
    PROVE  Kept'
  <1> USE DEF Good, Working, Inserting, Removing, Queueing, Stopping, Where, Torn
  <1>1. /\ node' = node /\ client' = client /\ hit' = hit /\ target' = target /\ cursor' = cursor
        /\ saved' = saved /\ resume' = resume /\ colist' = target
        /\ pc = "insert" /\ pc' = "accepted" /\ hit = "no"
        /\ target \in Nodes /\ node[target].live /\ node[target].next = colist
    BY DEF Link, Phase, InHand
  <1>2. target \notin Linked /\ Linked' = Linked \cup {target}
    BY <1>1 DEF Linked
  <1>3. Heap'
    <2>1. PICK r \in [Nodes -> Nat] : Chain(r, Linked, nexts, colist)
      BY <1>1 DEF Heap, Top
    <2>2. nexts \in [Nodes -> Pointer] /\ nexts' = nexts /\ nexts[target] = colist
      BY <1>1 DEF nexts, TypeOK, Node
    <2>3. PICK s \in [Nodes -> Nat] : Chain(s, Linked \cup {target}, nexts, target)
      BY <1>1, <1>2, <2>1, <2>2, ChainPrepend DEF Linked
    <2>4. Top' = target
      BY <1>1 DEF Top
    <2> QED
      BY <1>1, <1>2, <2>2, <2>3, <2>4 DEF Heap, Ahead
  <1>4. Owned'
    BY <1>1 DEF Owned, Data, LostQueue
  <1>5. InHand'
    BY <1>1, <1>2, AddressAssumption DEF InHand, TypeOK
  <1> QED
    BY <1>1, <1>3, <1>4, <1>5 DEF Kept, CrashCause

\* While a client is removed the others are whole.
LEMMA OthersWhole ==
    ASSUME Good, pc \in {"remove", "freeData", "freeNode"}
    PROVE  /\ Data(target) \in Clients
           /\ pc # "freeNode" => client[Data(target)].live
           /\ \A n \in Nodes \ {target} : node[n].live =>
                 /\ Data(n) \in Clients \ {Data(target)}
                 /\ client[Data(n)].live /\ client[Data(n)].headers # "freed"
           /\ \A n \in Nodes : node[n].live => ~LostQueue(Data(n))
           /\ \A c \in Clients \ {Data(target)} : client[c].live =>
                 \E n \in Nodes \ {target} : node[n].live /\ Data(n) = c
  <1>1. target \in Nodes /\ node[target].live /\ hit = "no"
    BY DEF Good, Phase, InHand, Working, Removing
  <1>2. ASSUME NEW n \in Nodes, node[n].live
        PROVE  /\ Data(n) \in Clients
               /\ client[Data(n)].live \/ (pc = "freeNode" /\ n = target)
               /\ Data(n) = Data(target) => n = target
               /\ client[Data(n)].headers = "freed" => n = target
               /\ ~LostQueue(Data(n))
    BY <1>1, <1>2 DEF Good, Owned
  <1>3. \A c \in Clients \ {Data(target)} : client[c].live =>
                 \E n \in Nodes \ {target} : node[n].live /\ Data(n) = c
    BY <1>1 DEF Good, Owned
  <1> QED
    BY <1>1, <1>2, <1>3

\* The first steps of a removal leave the list as it is.
LEMMA RemoveHeadersKeeps ==
    ASSUME Good, TypeOK', Phase', RemoveHeaders
    PROVE  Kept'
  <1>1. /\ node' = node /\ colist' = colist /\ hit' = hit /\ target' = target /\ cursor' = cursor
        /\ saved' = saved /\ resume' = resume
        /\ pc = "remove" /\ pc' = "freeData" /\ hit = "no"
        /\ target \in Nodes /\ node[target].live /\ target \in Linked
    BY DEF Good, RemoveHeaders, Phase, InHand, Working, Removing
  <1>2. \A d \in Clients : /\ client'[d].live <=> client[d].live
                           /\ d # Data(target) => client'[d].headers = client[d].headers
                           /\ client'[d].sockqueue = client[d].sockqueue
                           /\ client'[d].queued = client[d].queued
    BY FreedHeaders DEF Good, RemoveHeaders
  <1>3. Linked' = Linked /\ Top' = Top
    BY <1>1 DEF Linked, Top, Where
  <1>4. Heap'
    BY <1>1, <1>3, SameHeap DEF Good
  <1>5. Owned'
    <2>1. \A n \in Nodes : node[n].live => Data(n) \in Clients /\ client'[Data(n)].live
      BY <1>1, <1>2, OthersWhole
    <2>2. \A c \in Clients : client'[c].live => \E n \in Nodes : node[n].live /\ Data(n) = c
      BY <1>1, <1>2, OthersWhole
    <2>3. \A n \in Nodes : node[n].live /\ client'[Data(n)].headers = "freed" => n = target
      BY <1>1, <1>2, OthersWhole
    <2>4. \A n, m \in Nodes : node[n].live /\ node[m].live /\ Data(n) = Data(m) => n = m
      BY DEF Good, Owned
    <2>5. \A n \in Nodes : Data(n)' = Data(n)
      BY <1>1 DEF Data
    <2>6. \A n \in Nodes : node[n].live => ~LostQueue(Data(n))'
      BY <1>1, <1>2, <2>1, <2>5, OthersWhole DEF LostQueue
    <2> QED
      BY <1>1, <2>1, <2>2, <2>3, <2>4, <2>5, <2>6 DEF Owned, Data
  <1>6. InHand'
    BY <1>1, <1>3 DEF Good, InHand, Removing, Queueing
  <1> QED
    BY <1>1, <1>4, <1>5, <1>6 DEF Good, Kept, CrashCause

LEMMA FreeDataKeeps ==
    ASSUME Good, TypeOK', Phase', FreeData
    PROVE  Kept'
  <1>1. /\ node' = node /\ colist' = colist /\ hit' = hit /\ target' = target /\ cursor' = cursor
        /\ saved' = node[target].next /\ resume' = resume
        /\ pc = "freeData" /\ pc' = "freeNode" /\ hit = "no"
        /\ target \in Nodes /\ node[target].live /\ target \in Linked
    BY DEF Good, FreeData, Phase, InHand, Working, Removing
  <1>2. \A d \in Clients : /\ client'[d].live <=> client[d].live /\ d # Data(target)
                           /\ client'[d].headers = client[d].headers
                           /\ client'[d].sockqueue = client[d].sockqueue
                           /\ client'[d].queued = client[d].queued
    <2>1. TypeOK /\ client' = FreeClient(Data(target))
      BY DEF Good, FreeData
    <2>2. \A d \in Clients : /\ client'[d].live = IF d = Data(target) THEN FALSE ELSE client[d].live
                             /\ client'[d].headers = client[d].headers
                             /\ client'[d].sockqueue = client[d].sockqueue
                             /\ client'[d].queued = client[d].queued
      BY <2>1, FreedClient, Zenon
    <2> QED
      BY <2>2
  <1>3. Linked' = Linked /\ Top' = Top
    BY <1>1 DEF Linked, Top, Where
  <1>4. Heap'
    BY <1>1, <1>3, SameHeap DEF Good
  <1>5. Owned'
    <2>1. \A n \in Nodes : node[n].live => /\ Data(n) \in Clients
                                           /\ client'[Data(n)].live \/ n = target
      BY <1>1, <1>2, OthersWhole
    <2>2. \A c \in Clients : client'[c].live => \E n \in Nodes : node[n].live /\ Data(n) = c
      BY <1>1, <1>2, OthersWhole
    <2>3. \A n \in Nodes : node[n].live /\ client'[Data(n)].headers = "freed" => n = target
      BY <1>1, <1>2, OthersWhole
    <2>4. \A n, m \in Nodes : node[n].live /\ node[m].live /\ Data(n) = Data(m) => n = m
      BY DEF Good, Owned
    <2>5. \A n \in Nodes : Data(n)' = Data(n)
      BY <1>1 DEF Data
    <2>6. \A n \in Nodes : node[n].live => ~LostQueue(Data(n))'
      BY <1>1, <1>2, <2>1, <2>5, OthersWhole DEF LostQueue
    <2> QED
      BY <1>1, <2>1, <2>2, <2>3, <2>4, <2>5, <2>6 DEF Owned, Data
  <1>6. InHand'
    <2>1. ~client'[Data(target)].live /\ Data(target)' = Data(target)
      BY <1>1, <1>2, OthersWhole DEF Data
    <2> QED
      BY <1>1, <1>3, <2>1 DEF Good, InHand, Removing, Queueing
  <1> QED
    BY <1>1, <1>4, <1>5, <1>6 DEF Good, Kept, CrashCause

LEMMA FreeNodeKeeps ==
    ASSUME Good, TypeOK', Phase', FreeNode
    PROVE  Kept'
  <1>1. /\ client' = client /\ colist' = colist /\ hit' = hit /\ target' = target /\ cursor' = cursor
        /\ saved' = saved /\ resume' = resume
        /\ pc = "freeNode" /\ pc' = "unlink" /\ hit = "no"
        /\ target \in Nodes /\ node[target].live /\ target \in Linked
        /\ saved = node[target].next /\ ~client[Data(target)].live
    BY DEF Good, FreeNode, Phase, InHand, Working, Removing
  <1>2. \A n \in Nodes : /\ node'[n].live <=> node[n].live /\ n # target
                         /\ node'[n].data = node[n].data
                         /\ node'[n].next = node[n].next
    BY FreedSlot DEF Good, FreeNode
  <1>3. Linked' = Linked /\ Top' = Top
    BY <1>1, <1>2 DEF Linked, Top, Where
  <1>4. Heap'
    <2>1. PICK r \in [Nodes -> Nat] : Chain(r, Linked, nexts, Top)
      BY DEF Good, Heap
    <2>2. nexts' = nexts
      BY <1>2 DEF nexts
    <2> QED
      BY <1>1, <1>3, <2>1, <2>2 DEF Heap, Ahead
  <1>5. Owned'
    <2>1. \A n \in Nodes \ {target} : node[n].live =>
             /\ Data(n) \in Clients /\ client[Data(n)].live
             /\ client[Data(n)].headers # "freed" /\ ~LostQueue(Data(n))
      BY <1>1, OthersWhole
    <2>2. \A c \in Clients : client[c].live => \E n \in Nodes \ {target} : node[n].live /\ Data(n) = c
      BY <1>1, OthersWhole
    <2>4. \A n, m \in Nodes : node[n].live /\ node[m].live /\ Data(n) = Data(m) => n = m
      BY DEF Good, Owned
    <2>5. \A n \in Nodes : Data(n)' = Data(n)
      BY <1>2 DEF Data
    <2>6. ASSUME NEW n \in Nodes, node'[n].live
          PROVE  /\ node'[n].data \in Clients
                 /\ client'[node'[n].data].live /\ client'[node'[n].data].headers # "freed"
                 /\ ~LostQueue(Data(n))'
      <3>1. node[n].live /\ n # target /\ node'[n].data = Data(n)
        BY <1>2, <2>6 DEF Data
      <3> QED
        BY <1>1, <2>1, <2>5, <3>1 DEF LostQueue
    <2>7. \A n, m \in Nodes : node'[n].live /\ node'[m].live /\ node'[n].data = node'[m].data => n = m
      BY <1>2, <2>1, <2>4, <2>5 DEF Data
    <2>8. ASSUME NEW c \in Clients, client'[c].live
          PROVE  \E n \in Nodes : node'[n].live /\ node'[n].data = c
      <3>1. PICK n \in Nodes \ {target} : node[n].live /\ Data(n) = c
        BY <1>1, <2>2, <2>8
      <3> QED
        BY <1>2, <3>1 DEF Data
    <2> QED
      BY <1>1, <1>2, <2>6, <2>7, <2>8 DEF Owned, Data
  <1>6. InHand'
    BY <1>1, <1>2, <1>3 DEF Good, InHand, Removing, Queueing
  <1> QED
    BY <1>1, <1>4, <1>5, <1>6 DEF Good, Kept, CrashCause

\* The freed node is taken out.
LEMMA UnlinkKeeps ==
    ASSUME Good, TypeOK', Phase', Unlink
    PROVE  Kept'
  <1> USE DEF Good, Working, Inserting, Removing, Queueing, Stopping, Where, Torn
  <1>1. /\ client' = client /\ hit' = hit /\ cursor' = cursor
        /\ pc = "unlink" /\ hit = "no" /\ pc' = resume /\ resume' = "walk"
        /\ colist' = IF colist = target THEN saved ELSE colist
        /\ target \in Nodes /\ ~node[target].live /\ target \in Linked
        /\ saved = node[target].next
    BY DEF Unlink, Phase, InHand
  <1>2. pc' \in {"walk", "visited"}
    BY <1>1 DEF TypeOK
  <1>3. \A n \in Nodes : /\ node'[n].live = node[n].live /\ node'[n].data = node[n].data
                         /\ node'[n].next = IF node[n].live /\ node[n].next = target
                                            THEN saved ELSE node[n].next
    BY DEF Unlink, TypeOK, Node
  <1>4. Linked' = Linked \ {target}
    BY <1>1, <1>2, <1>3 DEF Linked
  <1>5. Heap'
    <2>1. PICK r \in [Nodes -> Nat] : Chain(r, Linked, nexts, colist)
      BY <1>1 DEF Heap, Top
    <2>2. nexts \in [Nodes -> Pointer]
      BY DEF nexts, TypeOK, Node
    <2>3. \A n \in Linked \ {target} :
             nexts'[n] = IF nexts[n] = target THEN nexts[target] ELSE nexts[n]
      BY <1>1, <1>3 DEF nexts, Linked
    <2>4. Chain(r, Linked', nexts', IF colist = target THEN nexts[target] ELSE colist)
      <3>1. Linked \in SUBSET Nodes
        BY DEF Linked
      <3> QED
        BY <1>1, <1>4, <2>1, <2>2, <2>3, <3>1, ChainRemove, Zenon
    <2>5. Top' = IF colist = target THEN nexts[target] ELSE colist
      BY <1>1, <1>2 DEF Top, nexts
    <2> QED
      BY <1>2, <2>4, <2>5 DEF Heap, Ahead
  <1>6. Owned'
    <2>1. \A n \in Nodes : Data(n)' = Data(n) /\ (node'[n].live <=> node[n].live)
      BY <1>3 DEF Data
    <2>2. \A n \in Nodes : node[n].live => /\ Data(n) \in Clients /\ client[Data(n)].live
                                           /\ client[Data(n)].headers # "freed"
                                           /\ ~LostQueue(Data(n))
      BY <1>1 DEF Owned
    <2>4. \A n, m \in Nodes : node[n].live /\ node[m].live /\ Data(n) = Data(m) => n = m
      BY DEF Owned
    <2>5. \A c \in Clients : client[c].live => \E n \in Nodes : node[n].live /\ Data(n) = c
      BY DEF Owned
    <2> HIDE DEF Good
    <2>6. \A n \in Nodes : node'[n].live =>
             /\ node'[n].data \in Clients
             /\ client'[node'[n].data].live /\ client'[node'[n].data].headers # "freed"
             /\ ~LostQueue(Data(n))'
      BY <1>1, <1>2, <2>1, <2>2, <2>5 DEF Data, LostQueue
    <2>7. \A n, m \in Nodes : node'[n].live /\ node'[m].live /\ node'[n].data = node'[m].data => n = m
      BY <1>2, <2>1, <2>4, <2>5 DEF Data
    <2>8. \A c \in Clients : client'[c].live => \E n \in Nodes : node'[n].live /\ node'[n].data = c
      BY <1>1, <2>1, <2>5 DEF Data
    <2> QED
      BY <1>1, <1>2, <2>6, <2>7, <2>8 DEF Owned, Data
  <1>7. saved \in Linked'  \cup {NULL}
    <2>1. PICK r \in [Nodes -> Nat] : Chain(r, Linked, nexts, Top)
      BY DEF Heap
    <2>2. nexts[target] = saved /\ r[target] \in Nat
      BY <1>1 DEF nexts
    <2>3. saved \in Linked \cup {NULL} /\ (saved # NULL => saved # target)
      BY <1>1, <2>1, <2>2 DEF Chain
    <2> QED
      BY <1>4, <2>3
  <1>8. InHand'
    BY <1>1, <1>2, <1>3, <1>4, <1>7 DEF InHand, TypeOK
  <1> QED
    BY <1>2, <1>6, <1>5, <1>8, <1>1 DEF Kept, CrashCause

-----------------------------------------------------------------------------
(* The signal and its handler *)

\* The handler starts from the list as the loop has left it.
LEMMA SignalKeeps ==
    ASSUME Good, TypeOK', Phase', SIGINT
    PROVE  Kept'
  <1>1. /\ node' = node /\ client' = client /\ colist' = colist /\ target' = target
        /\ pc \in Working /\ hit = "no" /\ p' = colist /\ pc' = "each"
        /\ hit' = IF pc \in Inserting \cup Removing \cup Queueing THEN pc ELSE "loop"
    BY DEF Good, SIGINT, Phase
  <1>2. CASE pc \in Torn
    <2>1. hit' = pc
      BY <1>1, <1>2 DEF Torn, Removing, Queueing
    <2> QED
      BY <1>1, <1>2, <2>1 DEF Kept, CrashCause, Sound
  <1>3. CASE pc \notin Torn
    <2>1. Where = pc /\ Where' = hit' /\ hit' \notin {"no", "unlink"} /\ (hit' = "insert" <=> pc = "insert")
      BY <1>1, <1>3 DEF Where, Working, Inserting, Removing, Queueing, Torn
    <2>2. Linked' = Linked /\ Top = colist /\ Top' = colist
      BY <1>1, <1>3, <2>1 DEF Linked, Top, Working, Inserting, Removing, Queueing, Torn
    <2>3. \A n \in Nodes : node[n].live => ~Dangles(Data(n))
      BY <1>1, <1>3 DEF Good, Owned, Dangles, Torn
    <2>4. Heap'
      <3>1. PICK r \in [Nodes -> Nat] : Chain(r, Linked, nexts, Top)
        BY DEF Good, Heap
      <3>2. nexts' = nexts /\ colist \in Linked \cup {NULL}
        BY <1>1, <2>2, <3>1 DEF nexts, Chain
      <3>3. \A n \in Linked : n \in Nodes /\ node[n].live
        BY <1>3, <2>1 DEF Linked, Torn
      <3>4. \A n \in Linked : ~Dangles(Data(n))'
        BY <1>1, <2>3, <3>3 DEF Dangles, LostQueue, Data
      <3>5. Ahead(r)'
        BY <1>1, <2>2, <3>2, <3>4 DEF Ahead
      <3> QED
        BY <2>2, <3>1, <3>2, <3>5 DEF Heap
    <2>5. Owned'
      BY <1>1, <1>3, <2>1 DEF Good, Owned, Data, Torn
    <2>6. InHand'
      BY <1>1 DEF InHand, Removing, Queueing
    <2> QED
      BY <1>1, <2>4, <2>5, <2>6 DEF Kept, CrashCause
  <1> QED
    BY <1>2, <1>3

\* What list_foreach and list_remove_nodes come to is in use.
LEMMA PointerWhole ==
    ASSUME Good, pc \in Stopping
    PROVE  /\ hit # "no" /\ Where = hit /\ Where # "unlink"
           /\ \A n \in Linked : /\ node[n].live /\ Data(n) \in Clients /\ client[Data(n)].live
                                /\ \A m \in Nodes \ {n} : node[m].live => Data(m) # Data(n)
  <1>1. hit # "no" /\ Where = hit /\ Where # "unlink"
    BY DEF Good, Phase, Sound, Where, Stopping, Torn
  <1>2. \A n \in Linked : n \in Nodes /\ node[n].live
    BY <1>1 DEF Linked
  <1>3. pc # "freeNode"
    BY DEF Stopping
  <1> QED
    BY <1>1, <1>2, <1>3 DEF Good, Owned

\* list_foreach goes down the numbers.
LEMMA DanglingKeeps ==
    ASSUME Good, TypeOK', Phase', Dangling
    PROVE  Kept'
  <1>1. /\ node' = node /\ colist' = colist /\ target' = target /\ hit' = hit
        /\ pc = "each" /\ p # NULL /\ p' = node[p].next /\ client' = Release(Data(p))
    BY DEF Dangling
  <1>2. PICK r \in [Nodes -> Nat] : Chain(r, Linked, nexts, Top) /\ Ahead(r)
    BY DEF Good, Heap
  <1>3. p \in Linked /\ p \in Nodes /\ ~Dangles(Data(p))
    BY <1>1, <1>2 DEF Ahead, Linked
  <1>4. pc' = "each"
    BY <1>1, <1>3, PointerWhole DEF Dangling, Touch, Stopping
  <1>5. \A d \in Clients : /\ client'[d].live <=> client[d].live
                           /\ d # Data(p) => client'[d] = client[d]
    BY <1>1, Released DEF Good
  <1>6. Linked' = Linked /\ Top' = Top
    BY <1>1, <1>4 DEF Linked, Top, Where
  <1>7. Heap'
    <2>1. nexts' = nexts /\ nexts[p] = p'
      BY <1>1, <1>3 DEF nexts
    <2>2. p' \in Linked \cup {NULL} /\ (p' # NULL => r[p'] < r[p])
      BY <1>2, <1>3, <2>1 DEF Chain
    <2>3. \A n \in Nodes : Data(n)' = Data(n)
      BY <1>1 DEF Data
    <2>4. ASSUME NEW n \in Linked, p' # NULL, r[n] <= r[p']
          PROVE  ~Dangles(Data(n))'
      <3>1. p' \in Nodes /\ n \in Nodes /\ r[p'] < r[p]
        BY <2>2, <2>4 DEF Linked
      <3>2. r[n] < r[p] /\ r[n] <= r[p] /\ n # p
        BY <1>3, <2>4, <3>1
      <3>3. Data(n) # Data(p) /\ Data(n) \in Clients /\ ~Dangles(Data(n))
        BY <1>1, <1>2, <1>3, <3>1, <3>2, PointerWhole DEF Ahead, Stopping
      <3> QED
        BY <1>5, <2>3, <3>1, <3>3 DEF Dangles, LostQueue
    <2>5. Ahead(r)'
      BY <1>6, <2>2, <2>4 DEF Ahead
    <2> QED
      BY <1>2, <1>6, <2>1, <2>5 DEF Heap
  <1>8. Owned'
    BY <1>1, <1>4, <1>5, PointerWhole DEF Good, Owned, Data, Stopping
  <1>9. InHand'
    BY <1>4 DEF InHand, Removing, Queueing
  <1> QED
    BY <1>4, <1>7, <1>8, <1>9 DEF Kept, CrashCause

\* Between the two, and after them.
LEMMA BetweenKeeps ==
    ASSUME Good, TypeOK', Phase', DanglingEnds \/ Exit
    PROVE  Kept'
  <1>1. /\ node' = node /\ client' = client /\ colist' = colist /\ target' = target /\ hit' = hit
        /\ pc \in Stopping /\ pc' \in {"free", "stopped"}
    BY DEF DanglingEnds, Exit, Stopping
  <1>2. Linked' = Linked /\ Top' = Top
    BY <1>1, PointerWhole DEF DanglingEnds, Exit, Linked, Top, Where
  <1>3. Heap'
    BY <1>1, <1>2, SameHeap DEF Good
  <1>4. Owned'
    BY <1>1, PointerWhole DEF Good, Owned, Data, Stopping
  <1>5. InHand'
    BY <1>1 DEF InHand, Removing, Queueing
  <1> QED
    BY <1>1, <1>3, <1>4, <1>5 DEF Kept, CrashCause

\* list_remove_nodes takes the list's head, whatever the number of the others.
LEMMA FreeKeeps ==
    ASSUME Good, TypeOK', Phase', list_remove_nodes
    PROVE  Kept'
  <1>1. /\ colist' = colist /\ target' = target /\ hit' = hit
        /\ pc = "free" /\ p # NULL /\ p' = node[p].next /\ Top = p
        /\ client' = FreeClient(Data(p)) /\ node' = FreeSlot(p)
    BY DEF list_remove_nodes, Top
  <1>2. PICK r \in [Nodes -> Nat] : Chain(r, Linked, nexts, Top)
    BY DEF Good, Heap
  <1>3. p \in Linked /\ p \in Nodes
    BY <1>1, <1>2 DEF Chain, Linked
  <1>4. pc' = "free" /\ Top' = p'
    BY <1>1, <1>3, PointerWhole DEF list_remove_nodes, Top, Stopping
  <1>5. \A d \in Clients : client'[d].live <=> client[d].live /\ d # Data(p)
    BY <1>1, FreedClient DEF Good
  <1>6. \A n \in Nodes : /\ node'[n].live <=> node[n].live /\ n # p
                         /\ node'[n].data = node[n].data /\ node'[n].next = node[n].next
    BY <1>1, FreedSlot DEF Good
  <1>7. Linked' = Linked \ {p}
    BY <1>1, <1>4, <1>6, PointerWhole DEF Linked, Where, Stopping
  <1>8. Heap'
    <2>1. nexts' = nexts /\ nexts[p] = p' /\ Linked \in SUBSET Nodes
      BY <1>1, <1>3, <1>6 DEF nexts, Linked
    <2>2. nexts \in [Nodes -> Pointer]
      BY DEF Good, TypeOK, Node, nexts
    <2>3. Chain(r, Linked \ {p}, nexts, nexts[p])
      BY <1>1, <1>2, <1>3, <2>1, <2>2, ChainBehead
    <2> QED
      BY <1>4, <1>7, <2>1, <2>3 DEF Heap, Ahead
  <1>9. Owned'
    <2>1. /\ node[p].live /\ hit' # "no" /\ hit # "no"
          /\ \A m \in Nodes \ {p} : node[m].live => Data(m) # Data(p)
      BY <1>1, <1>3, PointerWhole DEF Stopping
    <2>2. ASSUME NEW n \in Nodes, node'[n].live
          PROVE  node'[n].data \in Clients /\ client'[node'[n].data].live
      <3>1. node[n].live /\ n # p /\ node'[n].data = Data(n)
        BY <1>6, <2>2 DEF Data
      <3>2. Data(n) \in Clients /\ client[Data(n)].live /\ Data(n) # Data(p)
        BY <1>1, <2>1, <3>1 DEF Good, Owned
      <3> QED
        BY <1>5, <3>1, <3>2
    <2>3. \A n, m \in Nodes : node'[n].live /\ node'[m].live /\ node'[n].data = node'[m].data => n = m
      BY <1>6 DEF Good, Owned, Data
    <2>4. ASSUME NEW c \in Clients, client'[c].live
          PROVE  \E n \in Nodes : node'[n].live /\ node'[n].data = c
      <3>1. client[c].live /\ c # Data(p)
        BY <1>5, <2>4
      <3>2. PICK n \in Nodes : node[n].live /\ Data(n) = c
        BY <3>1 DEF Good, Owned
      <3> QED
        BY <1>6, <3>1, <3>2 DEF Data
    <2> QED
      BY <2>1, <2>2, <2>3, <2>4 DEF Owned, Data
  <1>10. InHand'
    BY <1>4 DEF InHand, Removing, Queueing
  <1> QED
    BY <1>4, <1>8, <1>9, <1>10 DEF Kept, CrashCause

LEMMA StepsOfTheLoop ==
    ASSUME \/ StartPass \/ NoAccept \/ accept_client \/ Link \/ Accepted
           \/ Walk \/ Sending \/ Removal \/ SIGINT
    PROVE  pc \in Working
  <1>1. CASE StartPass \/ NoAccept \/ accept_client \/ Link \/ Accepted \/ Walk \/ SIGINT
    BY <1>1 DEF Walk, Visit, StartPass, NoAccept, accept_client, Link, Accepted, Keep, Close, Advance,
                EndWalk, SIGINT, Working, Inserting
  <1>2. CASE Sending
    BY <1>2 DEF Sending, ws_queue_sockbuf, MoveQueued, SetQueued, FreeQueued, ResetQueued, FreeQueue,
                ResetQueue, QueueStep, Working, Queueing
  <1>3. CASE Removal
    BY <1>3 DEF Removal, RemoveHeaders, FreeData, FreeNode, Unlink, Working, Removing
  <1> QED
    BY <1>1, <1>2, <1>3

LEMMA StepsOfTheHandler == Handler => pc \in Stopping /\ hit' = hit
  BY DEF Handler, Dangling, DanglingEnds, list_remove_nodes, Exit, Stopping

\* After a SIGINT where something is torn nothing is known of the list.
LEMMA UnsoundKeeps ==
    ASSUME TypeOK, Phase, CrashCause, ~Sound, Next
    PROVE  Kept'
  <1>1. CASE pc = "crashed"
    <2>1. pc \notin Working \cup Stopping
      BY <1>1 DEF Working, Inserting, Removing, Queueing, Stopping
    <2>2. UNCHANGED vars
      BY <1>1, <2>1, StepsOfTheLoop, StepsOfTheHandler DEF Next, Ended
    <2> QED
      BY <1>1, <2>2 DEF vars, Kept, CrashCause, Sound, Stale, Data
  <1>2. CASE pc # "crashed"
    <2>1. hit \in Torn /\ hit # "no" /\ pc \notin Working
      BY <1>2 DEF Sound, Phase, Torn
    <2>2. hit' = hit
      BY <2>1, StepsOfTheLoop, StepsOfTheHandler DEF Next, Ended, vars
    <2> QED
      BY <2>1, <2>2 DEF Kept, CrashCause, Sound
  <1> QED
    BY <1>1, <1>2

-----------------------------------------------------------------------------
(* The theorems *)

LEMMA InvInit == Init => Inv
  <1> SUFFICES ASSUME Init PROVE Inv
    OBVIOUS
  <1>1. TypeOK /\ Phase
    BY TypeInit
  <1>2. /\ pc = "loop" /\ hit = "no" /\ colist = NULL
        /\ \A n \in Nodes : ~node[n].live
        /\ \A c \in Clients : ~client[c].live
    BY DEF Init, Client
  <1>3. Linked = {} /\ Top = NULL
    BY <1>2 DEF Linked, Where, Top
  <1>4. Heap
    <2>1. [n \in Nodes |-> 0] \in [Nodes -> Nat]
      OBVIOUS
    <2>2. \A r : Chain(r, Linked, nexts, Top) /\ Ahead(r)
      BY <1>2, <1>3 DEF Chain, Ahead
    <2> QED
      BY <2>1, <2>2 DEF Heap
  <1>5. Owned
    BY <1>2 DEF Owned
  <1>6. InHand
    BY <1>2 DEF InHand, Removing, Queueing
  <1> QED
    BY <1>1, <1>2, <1>4, <1>5, <1>6 DEF Inv, CrashCause

LEMMA InvStep ==
    ASSUME Inv, [Next]_vars
    PROVE  Inv'
  <1>1. TypeOK' /\ Phase'
    BY TypeStep DEF Inv
  <1>2. CASE UNCHANGED vars
    <2>1. CrashCause' /\ Sound' = Sound
      BY <1>2 DEF Inv, vars, CrashCause, Sound, Stale, Data
    <2>2. Where' = Where /\ nexts' = nexts /\ Top' = Top
      BY <1>2 DEF vars, Where, nexts, Top
    <2>3. Linked' = Linked
      BY <1>2, <2>2 DEF vars, Linked
    <2>4. Heap => Heap'
      BY <1>2, <2>2, <2>3 DEF vars, Heap, Ahead, Data, Dangles, LostQueue
    <2>5. Owned => Owned'
      BY <1>2 DEF vars, Owned, Data, LostQueue
    <2>6. InHand => InHand'
      BY <1>2, <2>3 DEF vars, InHand, Data
    <2> QED
      BY <1>1, <2>1, <2>4, <2>5, <2>6 DEF Inv
  <1>3. CASE Next /\ ~Sound
    BY <1>1, <1>3, UnsoundKeeps DEF Inv, Kept
  <1>4. CASE Next /\ Sound /\ ~Ended
    <2>1. Good
      BY <1>4 DEF Inv, Good
    <2>2. Kept'
      <3>1. CASE StartPass \/ NoAccept \/ Close \/ EndWalk \/ Advance
        <4>1. client' = client
          BY <3>1 DEF StartPass, NoAccept, Close, EndWalk, Advance
        <4> QED
          BY <1>1, <2>1, <3>1, <4>1, PassKeeps
      <3> QED
        BY <1>1, <1>4, <2>1, <3>1, AcceptedKeeps, KeepKeeps, SendKeeps, AcceptKeeps, LinkKeeps,
           RemoveHeadersKeeps, FreeDataKeeps, FreeNodeKeeps, UnlinkKeeps, SignalKeeps, DanglingKeeps,
           BetweenKeeps, FreeKeeps
           DEF Next, Walk, Visit, Removal, Handler
    <2> QED
      BY <1>1, <2>2 DEF Inv, Kept
  <1>5. CASE Ended
    BY <1>2, <1>5 DEF Ended
  <1> QED
    BY <1>2, <1>3, <1>4, <1>5

LEMMA Invariance == Spec => []Inv
  <1> QED
    BY InvInit, InvStep, PTL DEF Spec

\* The nodes and clients keep their type, and a pointer is NULL or the address of a
\* node: no step of src/src/gslist.c, nor a signal handler's, makes another.
THEOREM HeapTypeCorrect == Spec => []TypeOK
  <1>1. Inv => TypeOK
    BY DEF Inv
  <1> QED
    BY <1>1, Invariance, PTL

\* The memory of nodes, clients, headers and queues is read after it has been freed, or
\* freed again, only when the walk has closed the client it stands on, or SIGINT has come
\* between a free() and what takes the pointer away: within ws_remove_client_from_list,
\* and within ws_clear_queue or the realloc() of a send queue in the loop itself.
\* list_foreach with ws_clear_queue, and list_remove_nodes, are safe at any other time,
\* with any number of clients.
THEOREM CrashOnlyStale == Spec => []CrashCause
  <1>1. Inv => CrashCause
    BY DEF Inv
  <1> QED
    BY <1>1, Invariance, PTL

\* When ws_stop has interrupted neither an insertion nor what is torn, it has freed every
\* node and every client.
THEOREM StopFreesAll == Spec => []CleanStop
  <1>1. Inv => CleanStop
    <2> SUFFICES ASSUME Inv, pc = "stopped", hit \notin Torn \cup Inserting
                 PROVE  /\ \A n \in Nodes : ~node[n].live
                        /\ \A c \in Clients : ~client[c].live
      BY DEF CleanStop
    <2>1. Sound /\ Top = NULL
      BY DEF Inv, Phase, Sound, Top
    <2>2. Heap /\ Owned
      BY <2>1 DEF Inv
    <2>3. Linked = {}
      BY <2>1, <2>2 DEF Heap, Chain
    <2>4. Where # "insert"
      BY DEF Where, Inv, Phase, Stopping, Inserting
    <2>5. \A n \in Nodes : ~node[n].live
      BY <2>3, <2>4 DEF Linked
    <2> QED
      BY <2>2, <2>5 DEF Owned
  <1> QED
    BY <1>1, Invariance, PTL

-----------------------------------------------------------------------------
(* The pointer's way through the list *)

Length == Cardinality(Nodes)

\* One step of the pointer, in a memory nd.
Step(nd, q, chain, i) ==
    IF i = 0 THEN q ELSE IF chain[i - 1] = NULL THEN NULL ELSE nd[chain[i - 1]].next

\* From, in a memory nd.
ChainFrom(nd, q) == CHOOSE chain : chain = [i \in 0 .. Length |-> Step(nd, q, chain, i)]
Reached(nd, q) == {ChainFrom(nd, q)[i] : i \in 0 .. Length} \cap Nodes

LEMMA LengthType == Length \in Nat
  BY AddressAssumption, FS_CardinalityType DEF Length

\* The pointer's way is defined: it is for no step, and for one more whenever it is for some.
LEMMA ChainDefined ==
    ASSUME NEW nd, NEW q
    PROVE  \A k \in Nat : \E chain : chain = [i \in 0 .. k |-> Step(nd, q, chain, i)]
  <1> DEFINE T == {k \in Nat : \E chain : chain = [i \in 0 .. k |-> Step(nd, q, chain, i)]}
  <1>1. 0 \in T
    <2>1. [i \in 0 .. 0 |-> q] = [i \in 0 .. 0 |-> Step(nd, q, [j \in 0 .. 0 |-> q], i)]
      BY DEF Step
    <2> QED
      BY <2>1
  <1>2. ASSUME NEW k \in Nat, k \in T
        PROVE  k + 1 \in T
    <2>1. PICK chain : chain = [i \in 0 .. k |-> Step(nd, q, chain, i)]
      BY <1>2
    <2> DEFINE more == [i \in 0 .. k + 1 |-> IF i = k + 1 THEN Step(nd, q, chain, i) ELSE chain[i]]
    <2>2. \A i \in 0 .. k : more[i] = chain[i]
      OBVIOUS
    <2>3. ASSUME NEW i \in 0 .. k + 1
          PROVE  more[i] = Step(nd, q, more, i)
      <3>1. i # 0 => i - 1 \in 0 .. k
        OBVIOUS
      <3>2. Step(nd, q, more, i) = Step(nd, q, chain, i)
        BY <2>2, <3>1 DEF Step
      <3>3. i # k + 1 => chain[i] = Step(nd, q, chain, i)
        <4>1. i # k + 1 => i \in 0 .. k
          OBVIOUS
        <4> QED
          BY <2>1, <4>1
      <3> QED
        BY <3>2, <3>3
    <2>4. more = [i \in 0 .. k + 1 |-> more[i]]
      OBVIOUS
    <2> HIDE DEF more
    <2>5. more = [i \in 0 .. k + 1 |-> Step(nd, q, more, i)]
      BY <2>3, <2>4
    <2> QED
      BY <2>5
  <1> HIDE DEF T
  <1>3. \A k \in Nat : k \in T
    BY <1>1, <1>2, Upwards
  <1> QED
    BY <1>3 DEF T

LEMMA ChainSteps ==
    ASSUME NEW nd, NEW q
    PROVE  /\ ChainFrom(nd, q)[0] = q
           /\ \A i \in 0 .. Length : i + 1 \in 0 .. Length =>
                 ChainFrom(nd, q)[i + 1] =
                    IF ChainFrom(nd, q)[i] = NULL THEN NULL ELSE nd[ChainFrom(nd, q)[i]].next
  <1> DEFINE f == ChainFrom(nd, q)
  <1>1. \E chain : chain = [i \in 0 .. Length |-> Step(nd, q, chain, i)]
    BY LengthType, ChainDefined
  <1>2. f = [i \in 0 .. Length |-> Step(nd, q, f, i)]
    BY <1>1 DEF ChainFrom
  <1> HIDE DEF f
  <1>3. \A i \in 0 .. Length : f[i] = Step(nd, q, f, i)
    BY <1>2
  <1>4. f[0] = q
    BY <1>3, LengthType DEF Step
  <1>5. ASSUME NEW i \in 0 .. Length, i + 1 \in 0 .. Length
        PROVE  f[i + 1] = IF f[i] = NULL THEN NULL ELSE nd[f[i]].next
    <2>1. i + 1 # 0 /\ (i + 1) - 1 = i
      BY LengthType
    <2> QED
      BY <1>3, <1>5, <2>1 DEF Step
  <1> QED
    BY <1>4, <1>5 DEF f

LEMMA FromIsChain == /\ \A q : From(q) = ChainFrom(node, q)
                     /\ \A q : ClientsFrom(q) = {Data(n) : n \in Reached(node, q)}
  BY DEF From, ChainFrom, Step, ClientsFrom, Reached, Length

\* From a node of the list, the pointer comes to those whose number is not above its own.
LEMMA ReachedBelow ==
    ASSUME NEW nd, NEW L \in SUBSET Nodes, NEW r \in [Nodes -> Nat], NEW top,
           Chain(r, L, [n \in Nodes |-> nd[n].next], top), NEW q \in L \cup {NULL}
    PROVE  Reached(nd, q) = {n \in L : q # NULL /\ r[n] <= r[q]}
  <1> DEFINE f == ChainFrom(nd, q)
             B == {n \in L : q # NULL /\ r[n] <= r[q]}
  <1>1. NULL \notin Nodes /\ Length \in Nat /\ \A n \in L : r[n] \in Nat
    BY AddressAssumption, LengthType
  <1>2. /\ f[0] = q
        /\ \A i \in 0 .. Length : i + 1 \in 0 .. Length =>
              f[i + 1] = IF f[i] = NULL THEN NULL ELSE nd[f[i]].next
    BY ChainSteps
  <1>3. \A n \in L : /\ nd[n].next \in L \cup {NULL}
                     /\ nd[n].next # NULL => r[nd[n].next] < r[n]
                     /\ \A m \in L : r[m] < r[n] => nd[n].next # NULL /\ r[m] <= r[nd[n].next]
    BY DEF Chain
  <1> HIDE DEF f
  <1>4. \A i \in 0 .. Length : f[i] \in B \cup {NULL}
    <2> DEFINE T == {i \in Nat : i \in 0 .. Length => f[i] \in B \cup {NULL}}
    <2>1. 0 \in T
      BY <1>1, <1>2
    <2>2. ASSUME NEW i \in Nat, i \in T
          PROVE  i + 1 \in T
      <3>1. SUFFICES ASSUME i + 1 \in 0 .. Length
                     PROVE  f[i + 1] \in B \cup {NULL}
        OBVIOUS
      <3>2. i \in 0 .. Length
        BY <1>1, <3>1
      <3>3. f[i] \in B \cup {NULL}
        BY <2>2, <3>2
      <3>4. CASE f[i] = NULL
        BY <1>2, <3>1, <3>2, <3>4
      <3>5. CASE f[i] \in B
        <4>1. f[i + 1] = nd[f[i]].next /\ q # NULL /\ r[q] \in Nat
          BY <1>1, <1>2, <3>1, <3>2, <3>5
        <4> QED
          BY <1>1, <1>3, <3>5, <4>1
      <3> QED
        BY <3>3, <3>4, <3>5
    <2> HIDE DEF T
    <2>3. \A i \in Nat : i \in T
      BY <2>1, <2>2, Upwards
    <2> QED
      BY <1>1, <2>3 DEF T
  <1>5. ASSUME NEW n \in B, \A i \in 0 .. Length : f[i] # n
        PROVE  FALSE
    <2>1. \A i \in 0 .. Length : f[i] \in L /\ r[n] < r[f[i]]
      <3> DEFINE T == {i \in Nat : i \in 0 .. Length => f[i] \in L /\ r[n] < r[f[i]]}
      <3>1. ASSUME NEW m \in L, m # n, r[n] <= r[m]
            PROVE  r[n] < r[m]
        BY <1>1, <3>1 DEF Chain
      <3>2. 0 \in T
        BY <1>1, <1>2, <1>5, <3>1
      <3>3. ASSUME NEW i \in Nat, i \in T
            PROVE  i + 1 \in T
        <4>1. SUFFICES ASSUME i + 1 \in 0 .. Length
                       PROVE  f[i + 1] \in L /\ r[n] < r[f[i + 1]]
          OBVIOUS
        <4>2. i \in 0 .. Length
          BY <1>1, <4>1
        <4>3. f[i] \in L /\ r[n] < r[f[i]] /\ f[i] # NULL
          BY <1>1, <3>3, <4>2
        <4>4. f[i + 1] = nd[f[i]].next
          BY <1>2, <4>1, <4>2, <4>3
        <4>5. f[i + 1] \in L /\ r[n] <= r[f[i + 1]]
          BY <1>1, <1>3, <4>3, <4>4
        <4> QED
          BY <1>5, <3>1, <4>1, <4>5
      <3> HIDE DEF T
      <3>4. \A i \in Nat : i \in T
        BY <3>2, <3>3, Upwards
      <3> QED
        BY <1>1, <3>4 DEF T
    <2>2. ASSUME NEW i \in 0 .. Length, NEW j \in 0 .. Length, i < j
          PROVE  r[f[j]] < r[f[i]]
      <3> DEFINE T == {d \in Nat : i + 1 + d \in 0 .. Length => r[f[i + 1 + d]] < r[f[i]]}
      <3>1. \A k \in 0 .. Length : k + 1 \in 0 .. Length => r[f[k + 1]] < r[f[k]]
        BY <1>1, <1>2, <1>3, <2>1
      <3>2. 0 \in T
        BY <1>1, <3>1
      <3>3. ASSUME NEW d \in Nat, d \in T
            PROVE  d + 1 \in T
        <4>1. SUFFICES ASSUME i + 1 + (d + 1) \in 0 .. Length
                       PROVE  r[f[i + 1 + (d + 1)]] < r[f[i]]
          OBVIOUS
        <4> DEFINE k == i + 1 + d
        <4>2. k \in 0 .. Length /\ k + 1 \in 0 .. Length /\ k + 1 = i + 1 + (d + 1)
          BY <1>1, <4>1
        <4>3. r[f[k + 1]] < r[f[k]]
          BY <3>1, <4>2
        <4>4. r[f[k]] < r[f[i]]
          BY <3>3, <4>2
        <4>5. r[f[k + 1]] \in Nat /\ r[f[k]] \in Nat /\ r[f[i]] \in Nat
          BY <1>1, <2>1, <4>2
        <4> HIDE DEF k
        <4> QED
          BY <4>2, <4>3, <4>4, <4>5
      <3> HIDE DEF T
      <3>4. \A d \in Nat : d \in T
        BY <3>2, <3>3, Upwards
      <3>5. j - i - 1 \in Nat /\ i + 1 + (j - i - 1) = j
        BY <1>1, <2>2
      <3>6. j - i - 1 \in T
        BY <3>4, <3>5
      <3>7. i + 1 + (j - i - 1) \in 0 .. Length => r[f[i + 1 + (j - i - 1)]] < r[f[i]]
        BY <3>6 DEF T
      <3> QED
        BY <3>5, <3>7
    <2>3. IsFiniteSet(0 .. Length) /\ Cardinality(0 .. Length) = Length + 1
      <3>1. 0 \in Int /\ Length \in Int /\ ~(0 > Length) /\ Length - 0 + 1 = Length + 1
        BY <1>1
      <3>2. /\ IsFiniteSet(0 .. Length)
            /\ Cardinality(0 .. Length) = IF 0 > Length THEN 0 ELSE Length - 0 + 1
        BY <3>1, FS_Interval
      <3> QED
        BY <3>1, <3>2
    <2> DEFINE g == [i \in 0 .. Length |-> f[i]]
    <2>4. g \in [0 .. Length -> Nodes]
      BY <2>1
    <2>5. Cardinality(Nodes) < Cardinality(0 .. Length)
      BY <1>1, <2>3 DEF Length
    <2>6. \E i, j \in 0 .. Length : i # j /\ g[i] = g[j]
      <3> HIDE DEF g
      <3>1. IsFiniteSet(Nodes)
        BY AddressAssumption
      <3> QED
        BY <2>3, <2>4, <2>5, <3>1, FS_PigeonHole, Zenon
    <2>7. PICK i \in 0 .. Length, j \in 0 .. Length : i # j /\ f[i] = f[j]
      BY <2>6
    <2>8. i < j \/ j < i
      BY <1>1, <2>7
    <2>9. r[f[i]] \in Nat
      BY <1>1, <2>1
    <2> QED
      BY <2>2, <2>7, <2>8, <2>9
  <1>6. Reached(nd, q) = {f[i] : i \in 0 .. Length} \cap Nodes
    BY DEF Reached, f
  <1> QED
    BY <1>1, <1>4, <1>5, <1>6

\* The pointer's way from the head is the list, and from a node the node and its next's way.
LEMMA ReachedSteps ==
    ASSUME NEW nd, NEW L \in SUBSET Nodes, NEW r \in [Nodes -> Nat], NEW top,
           Chain(r, L, [n \in Nodes |-> nd[n].next], top)
    PROVE  /\ Reached(nd, top) = L
           /\ Reached(nd, NULL) = {}
           /\ \A q \in L : /\ nd[q].next \in L \cup {NULL}
                           /\ Reached(nd, q) = {q} \cup Reached(nd, nd[q].next)
                           /\ q \notin Reached(nd, nd[q].next)
                           /\ q # top => top \notin Reached(nd, q)
  <1>1. NULL \notin Nodes /\ \A n \in L : r[n] \in Nat
    BY AddressAssumption
  <1>2. \A q \in L \cup {NULL} : Reached(nd, q) = {n \in L : q # NULL /\ r[n] <= r[q]}
    BY ReachedBelow
  <1>3. top \in L \cup {NULL} /\ \A n \in L : top # NULL /\ r[n] <= r[top]
    BY DEF Chain
  <1>4. Reached(nd, top) = L
    <2>1. top \in L \cup {NULL}
      BY <1>3
    <2>2. Reached(nd, top) = {n \in L : top # NULL /\ r[n] <= r[top]}
      BY <1>2, <2>1
    <2> QED
      BY <1>3, <2>2
  <1>5. Reached(nd, NULL) = {}
    BY <1>2
  <1>6. ASSUME NEW q \in L
        PROVE  /\ nd[q].next \in L \cup {NULL}
               /\ Reached(nd, q) = {q} \cup Reached(nd, nd[q].next)
               /\ q \notin Reached(nd, nd[q].next)
               /\ q # top => top \notin Reached(nd, q)
    <2>1. /\ nd[q].next \in L \cup {NULL}
          /\ nd[q].next # NULL => r[nd[q].next] < r[q]
          /\ \A m \in L : r[m] < r[q] => nd[q].next # NULL /\ r[m] <= r[nd[q].next]
          /\ \A m \in L : r[m] = r[q] => m = q
      BY DEF Chain
    <2>2. PICK next : next = nd[q].next
      OBVIOUS
    <2>3. Reached(nd, next) = {n \in L : next # NULL /\ r[n] <= r[next]}
      BY <1>2, <2>1, <2>2
    <2>4. Reached(nd, q) = {n \in L : r[n] <= r[q]}
      BY <1>1, <1>2
    <2>5. q \notin Reached(nd, next)
      BY <1>1, <2>1, <2>2, <2>3
    <2>6. ASSUME NEW n \in L
          PROVE  r[n] <= r[q] <=> (n = q \/ (next # NULL /\ r[n] <= r[next]))
      BY <1>1, <2>1, <2>2
    <2>7. Reached(nd, q) = {q} \cup Reached(nd, next)
      BY <2>3, <2>4, <2>6, Zenon
    <2>8. q # top => top \notin Reached(nd, q)
      BY <1>1, <1>3, <2>1, <2>4
    <2> QED
      BY <2>1, <2>2, <2>5, <2>7, <2>8
  <1> QED
    BY <1>4, <1>5, <1>6

\* Two memories with one numbering of the nodes that the pointer comes to.
LEMMA ReachedSame ==
    ASSUME NEW nd, NEW nd2, NEW L \in SUBSET Nodes, NEW r \in [Nodes -> Nat], NEW top, NEW top2,
           NEW t, Chain(r, L, [n \in Nodes |-> nd[n].next], top),
           Chain(r, L \ {t}, [n \in Nodes |-> nd2[n].next], top2),
           NEW q \in (L \ {t}) \cup {NULL}, t \notin Reached(nd, q)
    PROVE  Reached(nd2, q) = Reached(nd, q)
  <1>1. Reached(nd, q) = {n \in L : q # NULL /\ r[n] <= r[q]}
    BY ReachedBelow
  <1>2. Reached(nd2, q) = {n \in L \ {t} : q # NULL /\ r[n] <= r[q]}
    <2>1. L \ {t} \in SUBSET Nodes
      OBVIOUS
    <2> QED
      BY <2>1, ReachedBelow
  <1> QED
    BY <1>1, <1>2

-----------------------------------------------------------------------------
(* The list as a set *)

\* The client that Accepted removes is the head of the list; the client of a node that is
\* freed has been freed.
Newest ==
    /\ pc = "accepted" => target = colist
    /\ pc \in Removing /\ resume = "walk" => target = colist
    /\ pc = "unlink" => Data(target) \in Clients /\ ~client[Data(target)].live

WalkInv == Inv /\ Newest

LEMMA NewestStep ==
    ASSUME WalkInv, [Next]_vars
    PROVE  Newest'
  <1> USE DEF Newest, WalkInv, Removing
  <1>1. CASE UNCHANGED vars
    BY <1>1 DEF vars, Data
  <1>2. CASE pc' \notin {"accepted"} \cup Removing
    BY <1>2
  <1>3. CASE Link
    BY <1>3 DEF Link
  <1>4. CASE Accepted
    BY <1>4 DEF Accepted
  <1>5. CASE Close
    BY <1>5 DEF Close, Touch
  <1>6. CASE RemoveHeaders
    BY <1>6 DEF RemoveHeaders
  <1>7. CASE FreeData
    BY <1>7 DEF FreeData
  <1>8. CASE FreeNode
    <2>1. hit = "no" /\ pc = "freeNode" /\ target \in Nodes
      BY <1>8 DEF FreeNode, Inv, Phase, Working
    <2>2. Good
      BY <2>1 DEF Inv, Sound, Good, Torn
    <2>3. TypeOK /\ Data(target) \in Clients /\ ~client[Data(target)].live
      BY <2>1, <2>2, OthersWhole DEF Good, InHand
    <2>4. Data(target)' = Data(target)
      BY <1>8, <2>1, <2>3, FreedSlot DEF FreeNode, Data
    <2> QED
      BY <1>8, <2>3, <2>4 DEF FreeNode
  <1>9. CASE StartPass \/ NoAccept \/ accept_client \/ Keep \/ Advance \/ EndWalk \/ Sending
             \/ Unlink \/ SIGINT \/ Handler
    <2>1. resume \in {"walk", "visited"}
      BY DEF Inv, TypeOK
    <2>2. pc' \notin {"accepted"} \cup Removing
      BY <1>9, <2>1 DEF StartPass, NoAccept, accept_client, Keep, Advance, EndWalk, Unlink, SIGINT, Handler,
                 Dangling, DanglingEnds, list_remove_nodes, Exit, Touch, Sending, ws_queue_sockbuf,
                 MoveQueued, SetQueued, FreeQueued, ResetQueued, FreeQueue, ResetQueue, QueueStep
    <2> QED
      BY <1>2, <2>2
  <1> QED
    BY <1>1, <1>3, <1>4, <1>5, <1>6, <1>7, <1>8, <1>9 DEF Next, Walk, Visit, Removal, Ended

\* The clients of some nodes, in a memory nd.
DataOf(nd, S) == {nd[n].data : n \in S}

LEMMA ClientsAreReached ==
    /\ \A q : ClientsFrom(q) = DataOf(node, Reached(node, q))
    /\ \A q : ClientsFrom(q)' = DataOf(node', Reached(node', q))
  <1>1. \A q : ClientsFrom(q) = DataOf(node, Reached(node, q))
    BY FromIsChain DEF Data, DataOf
  <1>2. \A q : ClientsFrom(q)' = DataOf(node', Reached(node', q))
    BY DEF From, ChainFrom, Step, ClientsFrom, Reached, Length, Data, DataOf
  <1> QED
    BY <1>1, <1>2

\* The list while the loop has it; the members are the data of its nodes.
Held ==
    /\ Good /\ hit = "no" /\ Where = pc
    /\ Linked \in SUBSET Nodes /\ NULL \notin Nodes
    /\ \E r \in [Nodes -> Nat] : Chain(r, Linked, [n \in Nodes |-> node[n].next], colist)
    /\ \A n \in Linked : node[n].live \/ (pc = "unlink" /\ n = target)
    /\ \A n, m \in Nodes : node[n].live /\ node[m].live /\ node[n].data = node[m].data => n = m
    /\ \A n \in Linked : node[n].data \in Clients
    /\ ClientsFrom(colist) = DataOf(node, Linked)

LEMMA ListHeld == WalkInv /\ Up => Held
  <1> SUFFICES ASSUME WalkInv, Up PROVE Held
    OBVIOUS
  <1>1. hit = "no" /\ Sound
    BY DEF WalkInv, Inv, Phase, Up, Sound, Working, Inserting, Removing, Queueing, Torn
  <1>2. Good
    BY <1>1 DEF WalkInv, Inv, Good
  <1>3. Top = colist
    BY DEF Up, Top, Working, Inserting, Removing, Queueing
  <1>4. PICK r \in [Nodes -> Nat] : Chain(r, Linked, [n \in Nodes |-> node[n].next], colist)
    BY <1>2, <1>3 DEF Good, Heap, nexts
  <1>5. Linked \in SUBSET Nodes
    BY DEF Linked
  <1>6. Reached(node, colist) = Linked
    BY <1>4, <1>5, ReachedSteps
  <1>7. ClientsFrom(colist) = DataOf(node, Linked)
    BY <1>6, ClientsAreReached
  <1>8. \A n \in Linked : node[n].data \in Clients
    BY <1>1, <1>2 DEF WalkInv, Newest, Good, Owned, Linked, Where, Data
  <1> QED
    BY <1>1, <1>2, <1>4, <1>5, <1>7, <1>8, AddressAssumption DEF Held, Good, Linked, Where, Owned, Data

LEMMA ListWillBeHeld == WalkInv' /\ Up' => Held'
  BY ListHeld, PTL

-----------------------------------------------------------------------------
(* Each step of the loop is one of ClientSet, or none. *)

\* The steps that leave the list and its clients as they are, and the nodes the walk has
\* still to come to.
LEMMA SameClients ==
    ASSUME Held, node' = node, colist' = colist,
           \A c \in Clients : client'[c].live = client[c].live
    PROVE  /\ Listed' = Listed
           /\ \A q : ClientsFrom(q)' = ClientsFrom(q)
  <1>1. \A q : ClientsFrom(q)' = ClientsFrom(q)
    BY ClientsAreReached
  <1>2. \A c \in ClientsFrom(colist) : c \in Clients
    BY DEF Held, DataOf
  <1>3. Listed' = {c \in ClientsFrom(colist) : client'[c].live}
    BY <1>1 DEF Listed
  <1> QED
    BY <1>1, <1>2, <1>3 DEF Listed

LEMMA BeginStep ==
    ASSUME WalkInv, StartPass
    PROVE  ToVisit = {} /\ ToVisit' = Listed /\ Listed' = Listed
  <1>1. pc = "loop" /\ pc' \in {"accept", "walk"} /\ cursor' = colist
        /\ node' = node /\ colist' = colist /\ client' = client
    BY DEF StartPass
  <1>2. Held
    BY <1>1, ListHeld DEF Up, Working
  <1>3. PICK r \in [Nodes -> Nat] : Chain(r, Linked, [n \in Nodes |-> node[n].next], colist)
    BY <1>2 DEF Held
  <1>4. Linked \in SUBSET Nodes
    BY <1>2 DEF Held
  <1>5. Reached(node, NULL) = {}
    BY <1>3, <1>4, ReachedSteps
  <1>6. Listed = ClientsFrom(colist)
    <2>1. \A c \in DataOf(node, Linked) : client[c].live
      BY <1>1, <1>2 DEF Held, Good, Owned, DataOf, Data
    <2> QED
      BY <1>2, <2>1 DEF Held, Listed
  <1>7. Listed' = Listed /\ ClientsFrom(colist)' = ClientsFrom(colist)
    BY <1>1, <1>2, SameClients
  <1>8. ClientsFrom(NULL) = {}
    BY <1>5, ClientsAreReached DEF DataOf
  <1>9. ToVisit' = IF colist = NULL THEN {} ELSE ClientsFrom(colist)
    BY <1>1, <1>7, ClientsAreReached DEF ToVisit, Removing
  <1> QED
    BY <1>1, <1>6, <1>7, <1>8, <1>9 DEF ToVisit

LEMMA PassStep ==
    ASSUME WalkInv, NoAccept \/ Accepted \/ EndWalk \/ RemoveHeaders
    PROVE  ToVisit' = ToVisit /\ Listed' = Listed
  <1>1. node' = node /\ colist' = colist /\ cursor' = cursor /\ resume' = resume /\ Up
    BY DEF NoAccept, Accepted, EndWalk, RemoveHeaders, Up, Working, Removing
  <1>2. Held /\ TypeOK
    BY <1>1, ListHeld DEF WalkInv, Inv
  <1>3. \A c \in Clients : client'[c].live = client[c].live
    <2>1. CASE Accepted
      <3>1. client' = client \/ client' = SetQueue(Data(target), "live", "live")
        BY <2>1 DEF Accepted
      <3> QED
        BY <1>2, <3>1, QueueSet DEF Memory
    <2>2. CASE ~Accepted
      BY <1>2, <2>2, FreedHeaders DEF NoAccept, EndWalk, RemoveHeaders
    <2> QED
      BY <2>1, <2>2
  <1>4. Listed' = Listed /\ \A q : ClientsFrom(q)' = ClientsFrom(q)
    BY <1>1, <1>2, <1>3, SameClients
  <1>5. resume = "walk" \/ RemoveHeaders
    BY <1>2 DEF NoAccept, Accepted, EndWalk, Held, Good, Phase, Working, Removing, Inserting
  <1> QED
    BY <1>1, <1>4, <1>5 DEF ToVisit, NoAccept, Accepted, EndWalk, RemoveHeaders, Removing

\* What is done to a send queue takes no client from the walk.
LEMMA SendStep ==
    ASSUME WalkInv, Sending
    PROVE  ToVisit' = ToVisit /\ Listed' = Listed
  <1>1. PICK sockqueue \in Memory, queued \in Memory :
           \E at, to \in {"walk"} \cup Queueing : QueueStep(at, to, sockqueue, queued)
    BY DEF Sending, ws_queue_sockbuf, MoveQueued, SetQueued, FreeQueued, ResetQueued, FreeQueue,
           ResetQueue, Queueing, Memory
  <1>2. /\ pc \in {"walk"} \cup Queueing /\ pc' \in {"walk"} \cup Queueing
        /\ node' = node /\ colist' = colist /\ cursor' = cursor /\ resume' = resume
        /\ client' = SetQueue(Data(cursor), sockqueue, queued)
    BY <1>1 DEF QueueStep
  <1>3. Held /\ TypeOK
    BY <1>2, ListHeld DEF WalkInv, Inv, Up, Working
  <1>4. \A c \in Clients : client'[c].live = client[c].live
    <2>1. TypeOK /\ sockqueue \in Memory /\ queued \in Memory
      BY <1>1, <1>3
    <2>2. PICK d : d = Data(cursor)
      OBVIOUS
    <2>3. \A c \in Clients : SetQueue(d, sockqueue, queued)[c].live = client[c].live
      BY <2>1 DEF SetQueue, TypeOK, WSClient
    <2> QED
      BY <1>2, <2>2, <2>3
  <1>5. Listed' = Listed /\ \A q : ClientsFrom(q)' = ClientsFrom(q)
    BY <1>2, <1>3, <1>4, SameClients
  <1> QED
    BY <1>2, <1>5 DEF ToVisit, Removing, Queueing

LEMMA VisitStep ==
    ASSUME WalkInv, Keep \/ Close, Up'
    PROVE  /\ Data(cursor) \in ToVisit
           /\ ToVisit' = ToVisit \ {Data(cursor)}
           /\ Listed' = Listed
           /\ Data(cursor) \in Clients
  <1>1. /\ pc = "walk" /\ cursor # NULL
        /\ node' = node /\ colist' = colist /\ cursor' = cursor
        /\ (pc' = "visited") \/ (pc' \in Removing /\ resume' = "visited")
    BY DEF Keep, Close, Touch, Up, Working, Inserting, Removing, Queueing
  <1>2. Held /\ TypeOK
    BY <1>1, ListHeld DEF WalkInv, Inv, Up, Working
  <1>3. cursor \in Linked
    BY <1>1, <1>2 DEF Held, Good, InHand
  <1>4. \A c \in Clients : client'[c].live = client[c].live
    BY <1>2, KeptClients DEF Close
  <1>5. Listed' = Listed /\ \A q : ClientsFrom(q)' = ClientsFrom(q)
    BY <1>1, <1>2, <1>4, SameClients
  <1>6. PICK r \in [Nodes -> Nat] : Chain(r, Linked, [n \in Nodes |-> node[n].next], colist)
    BY <1>2 DEF Held
  <1>7. Linked \in SUBSET Nodes
    BY <1>2 DEF Held
  <1>8. PICK next : next = node[cursor].next
    OBVIOUS
  <1>9. /\ Reached(node, cursor) = {cursor} \cup Reached(node, next)
        /\ cursor \notin Reached(node, next)
    <2>1. \A q \in Linked : /\ Reached(node, q) = {q} \cup Reached(node, node[q].next)
                             /\ q \notin Reached(node, node[q].next)
      BY <1>6, <1>7, ReachedSteps
    <2> QED
      BY <1>3, <1>8, <2>1
  <1>10. Reached(node, next) \subseteq Linked
    <2>1. next \in Linked \cup {NULL}
      BY <1>3, <1>6, <1>7, <1>8, ReachedSteps
    <2> QED
      BY <1>6, <1>7, <2>1, ReachedBelow
  <1>11. \A n \in Linked : node[n].live /\ (node[n].data = node[cursor].data => n = cursor)
    BY <1>1, <1>2, <1>3 DEF Held
  <1>12. /\ node[cursor].data \in DataOf(node, Reached(node, cursor))
         /\ DataOf(node, Reached(node, next)) =
               DataOf(node, Reached(node, cursor)) \ {node[cursor].data}
    BY <1>9, <1>10, <1>11 DEF DataOf
  <1>13. ToVisit = ClientsFrom(cursor) /\ ToVisit' = ClientsFrom(next)
    <2>1. ToVisit' = ClientsFrom(node[cursor].next)'
      BY <1>1 DEF ToVisit, Removing
    <2>2. ToVisit' = ClientsFrom(next)
      BY <1>1, <1>5, <1>8, <2>1, ClientsAreReached
    <2> QED
      BY <1>1, <2>2 DEF ToVisit, Removing
  <1>14. Data(cursor) \in Clients
    BY <1>2, <1>3 DEF Held, Data
  <1> QED
    BY <1>5, <1>12, <1>13, <1>14, ClientsAreReached DEF Data

\* The pointer takes the step that the visit has already counted.
LEMMA AdvanceStep ==
    ASSUME WalkInv, Advance, Up'
    PROVE  ToVisit' = ToVisit /\ Listed' = Listed
  <1>1. /\ pc = "visited" /\ pc' = "walk" /\ cursor' = node[cursor].next
        /\ node' = node /\ colist' = colist /\ client' = client
    BY DEF Advance, Up, Working, Inserting, Removing, Queueing
  <1>2. Held
    BY <1>1, ListHeld DEF Up, Working
  <1>3. cursor # NULL
    BY <1>1, <1>2 DEF Held, Good, Phase
  <1>4. Listed' = Listed /\ \A q : ClientsFrom(q)' = ClientsFrom(q)
    BY <1>1, <1>2, SameClients
  <1>5. PICK r \in [Nodes -> Nat] : Chain(r, Linked, [n \in Nodes |-> node[n].next], colist)
    BY <1>2 DEF Held
  <1>6. ClientsFrom(NULL) = {}
    <2>1. Linked \in SUBSET Nodes
      BY <1>2 DEF Held
    <2>2. Reached(node, NULL) = {}
      BY <1>5, <2>1, ReachedSteps
    <2> QED
      BY <2>2, ClientsAreReached DEF DataOf
  <1>7. ToVisit = ClientsFrom(node[cursor].next)
    BY <1>1, <1>3 DEF ToVisit
  <1>8. PICK next : next = cursor'
    OBVIOUS
  <1>9. ToVisit' = IF next = NULL THEN {} ELSE ClientsFrom(next)
    <2>1. ClientsFrom(cursor)' = ClientsFrom(next)
      BY <1>1, <1>8, ClientsAreReached
    <2> QED
      BY <1>1, <1>8, <2>1 DEF ToVisit, Removing
  <1> QED
    BY <1>1, <1>4, <1>6, <1>7, <1>8, <1>9

\* A node that is not in the list is written to.
LEMMA AcceptStep ==
    ASSUME WalkInv, WalkInv', accept_client
    PROVE  ToVisit' = ToVisit /\ Listed' = Listed
  <1>1. PICK c \in Clients, n \in Nodes :
           /\ ~client[c].live /\ ~node[n].live
           /\ client' = [client EXCEPT ![c] = Client(TRUE)]
           /\ node' = [node EXCEPT ![n] = NewNode(c)]
           /\ target' = n
    BY DEF accept_client
  <1>2. /\ pc = "accept" /\ pc' = "insert" /\ colist' = colist /\ cursor' = cursor
        /\ hit' = hit
    BY DEF accept_client
  <1>3. Held /\ TypeOK
    BY <1>2, ListHeld DEF WalkInv, Inv, Up, Working
  <1>4. n \notin Linked /\ \A m \in Linked : node'[m] = node[m] /\ node[m].live
    BY <1>1, <1>2, <1>3 DEF Held, TypeOK
  <1>5. PICK r \in [Nodes -> Nat] : Chain(r, Linked, [m \in Nodes |-> node[m].next], colist)
    BY <1>3 DEF Held
  <1>6. Linked \in SUBSET Nodes /\ NULL \notin Linked
    BY <1>3 DEF Held
  <1>7. Chain(r, Linked \ {NULL}, [m \in Nodes |-> node'[m].next], colist)
    <2>1. \A m \in Linked :
             [k \in Nodes |-> node'[k].next][m] = [k \in Nodes |-> node[k].next][m]
      BY <1>4, <1>6
    <2>2. Chain(r, Linked, [m \in Nodes |-> node'[m].next], colist)
      BY <1>5, <2>1, ChainElsewhere
    <2> QED
      BY <1>6, <2>2
  <1>8. \A q \in Linked \cup {NULL} : /\ Reached(node', q) = Reached(node, q)
                                      /\ Reached(node, q) \subseteq Linked
    <2>1. \A q \in Linked \cup {NULL} : Reached(node, q) \subseteq Linked
      BY <1>5, <1>6, ReachedBelow
    <2>2. ASSUME NEW q \in Linked \cup {NULL}
          PROVE  Reached(node', q) = Reached(node, q)
      <3>1. NULL \notin Reached(node, q) /\ q \in (Linked \ {NULL}) \cup {NULL}
        BY <1>6, <2>1
      <3> QED
        BY <1>5, <1>6, <1>7, <3>1, ReachedSame
    <2> QED
      BY <2>1, <2>2
  <1>9. \A S \in SUBSET Linked : DataOf(node', S) = DataOf(node, S)
    BY <1>4 DEF DataOf
  <1>10. \A q \in Linked \cup {NULL} : ClientsFrom(q)' = ClientsFrom(q)
    BY <1>8, <1>9, ClientsAreReached
  <1>11. colist \in Linked \cup {NULL} /\ cursor \in Linked \cup {NULL}
    BY <1>2, <1>3, <1>5 DEF Chain, Held, Good, InHand
  <1>12. Listed' = Listed
    <2>1. \A d \in ClientsFrom(colist) : d \in Clients /\ client[d].live
      BY <1>2, <1>3 DEF Held, DataOf, Good, Owned, Data
    <2>2. Listed' = {d \in ClientsFrom(colist) : client'[d].live}
      BY <1>2, <1>10, <1>11, ClientsAreReached DEF Listed
    <2> QED
      BY <1>1, <1>3, <2>1, <2>2 DEF Listed, TypeOK
  <1>13. ToVisit' = ToVisit
    BY <1>2, <1>10, <1>11, ClientsAreReached DEF ToVisit, Removing
  <1> QED
    BY <1>12, <1>13

LEMMA JoinStep ==
    ASSUME WalkInv, WalkInv', Link
    PROVE  /\ Data(target) \in Clients \ Listed
           /\ Listed' = Listed \cup {Data(target)}
           /\ ToVisit' = ToVisit
  <1>1. /\ pc = "insert" /\ pc' = "accepted" /\ colist' = target /\ cursor' = cursor
        /\ node' = node /\ client' = client /\ hit' = hit /\ target' = target /\ resume' = resume
    BY DEF Link
  <1>2. Held /\ Held'
    BY <1>1, ListHeld, ListWillBeHeld DEF Up, Working, Inserting
  <1>3. target \in Nodes /\ node[target].live /\ target \notin Linked /\ hit = "no"
    BY <1>1, <1>2 DEF Held, Good, Phase, InHand, Linked
  <1>4. Linked' = Linked \cup {target}
    BY <1>1, <1>3 DEF Linked, Where
  <1>5. /\ \A n \in Linked : node[n].live /\ node[n].data # node[target].data
        /\ node[target].data \in Clients /\ client[node[target].data].live
    BY <1>1, <1>2, <1>3 DEF Held, Good, Owned, Data
  <1>6. \A q : ClientsFrom(q)' = ClientsFrom(q)
    BY <1>1, ClientsAreReached
  <1>7. ClientsFrom(colist)' = DataOf(node, Linked \cup {target})
    BY <1>1, <1>2, <1>4 DEF Held
  <1>8. Listed' = {c \in DataOf(node, Linked \cup {target}) : client[c].live}
    BY <1>1, <1>7 DEF Listed
  <1>9. Listed = {c \in DataOf(node, Linked) : client[c].live}
    BY <1>2 DEF Held, Listed
  <1>10. ToVisit' = ToVisit
    BY <1>1, <1>6, ClientsAreReached DEF ToVisit, Removing
  <1> QED
    BY <1>5, <1>8, <1>9, <1>10 DEF DataOf, Data

\* Where the walk will go on when the removal is over.
Rest == IF resume = "visited" THEN node[target].next ELSE cursor

\* It comes neither to the node that is removed nor to those before it.
RestIs == /\ ToVisit = ClientsFrom(Rest)
          /\ Rest \in Linked \cup {NULL}
          /\ target \in Linked
          /\ target \notin Reached(node, Rest)
          /\ Reached(node, Rest) \subseteq Linked

LEMMA RestOfWalk == WalkInv /\ pc \in Removing => RestIs
  <1> SUFFICES ASSUME WalkInv, pc \in Removing PROVE RestIs
    OBVIOUS
  <1>1. Held
    BY ListHeld DEF Up, Working
  <1>2. PICK r \in [Nodes -> Nat] : Chain(r, Linked, [n \in Nodes |-> node[n].next], colist)
    BY <1>1 DEF Held
  <1>3. Linked \in SUBSET Nodes /\ NULL \notin Nodes
    BY <1>1 DEF Held
  <1>4. target \in Linked
    BY <1>1 DEF Held, Good, InHand
  <1>5. \A q \in Linked : /\ node[q].next \in Linked \cup {NULL}
                          /\ q \notin Reached(node, node[q].next)
                          /\ q # colist => colist \notin Reached(node, q)
    BY <1>2, <1>3, ReachedSteps
  <1>6. Reached(node, NULL) = {} /\ ClientsFrom(NULL) = {}
    <2>1. Reached(node, NULL) = {}
      BY <1>2, <1>3, ReachedSteps
    <2> QED
      BY <2>1, ClientsAreReached DEF DataOf
  <1>7. \A q \in Linked \cup {NULL} : Reached(node, q) \subseteq Linked
    BY <1>2, <1>3, ReachedBelow
  <1>8. CASE resume = "visited"
    <2>1. cursor = target /\ cursor # NULL
      BY <1>1, <1>3, <1>4, <1>8 DEF Held, Good, InHand
    <2>2. ToVisit = ClientsFrom(node[target].next)
      BY <1>8, <2>1 DEF ToVisit, Removing
    <2> QED
      BY <1>4, <1>5, <1>7, <1>8, <2>2 DEF RestIs, Rest
  <1>9. CASE resume = "walk"
    <2>1. cursor \in Linked \cup {NULL} /\ cursor # target /\ target = colist
      BY <1>1, <1>9 DEF Held, Good, InHand, WalkInv, Newest
    <2>2. ToVisit = ClientsFrom(cursor)
      BY <1>6, <1>9 DEF ToVisit, Removing
    <2>3. target \notin Reached(node, cursor)
      BY <1>5, <1>6, <2>1
    <2> QED
      BY <1>4, <1>7, <1>9, <2>1, <2>2, <2>3 DEF RestIs, Rest
  <1> QED
    BY <1>8, <1>9 DEF WalkInv, Inv, TypeOK

LEMMA RestOfWalkLater == WalkInv' /\ (pc \in Removing)' => RestIs'
  BY RestOfWalk, PTL

LEMMA LeaveStep ==
    ASSUME WalkInv, FreeData
    PROVE  /\ Data(target) \in Listed \ ToVisit
           /\ Listed' = Listed \ {Data(target)}
           /\ ToVisit' = ToVisit
           /\ Data(target) \in Clients
  <1>1. /\ node' = node /\ colist' = colist /\ cursor' = cursor /\ resume' = resume
        /\ pc = "freeData" /\ pc' = "freeNode" /\ client' = FreeClient(Data(target))
    BY DEF FreeData
  <1>2. Held /\ Good /\ pc \in Removing
    BY <1>1, ListHeld DEF Held, Up, Working, Removing
  <1>3. RestIs /\ target \in Linked
    BY <1>2, RestOfWalk DEF RestIs
  <1>4. Data(target) \in Clients /\ client[Data(target)].live
    BY <1>1, <1>2, OthersWhole
  <1>5. \A d \in Clients : client'[d].live <=> client[d].live /\ d # Data(target)
    BY <1>1, <1>2, FreedClient DEF Good
  <1>6. \A n \in Linked : n \in Nodes /\ node[n].live
    BY <1>1, <1>2 DEF Held
  <1>7. Data(target) \in Listed
    BY <1>2, <1>3, <1>4 DEF Held, Listed, DataOf, Data
  <1>8. Data(target) \notin ToVisit
    <2>1. \A n \in Reached(node, Rest) : node[n].data # node[target].data
      BY <1>2, <1>3, <1>6 DEF Held, RestIs
    <2>2. ToVisit = DataOf(node, Reached(node, Rest))
      BY <1>3, ClientsAreReached DEF RestIs
    <2> QED
      BY <2>1, <2>2 DEF DataOf, Data
  <1>9. \A s : ClientsFrom(s)' = ClientsFrom(s)
    BY <1>1, ClientsAreReached
  <1>10. ToVisit' = ToVisit
    BY <1>1, <1>9, ClientsAreReached DEF ToVisit, Removing
  <1>11. Listed' = Listed \ {Data(target)}
    <2>1. Listed' = {c \in ClientsFrom(colist) : client'[c].live}
      BY <1>1, <1>9 DEF Listed
    <2>2. \A c \in ClientsFrom(colist) : c \in Clients
      BY <1>2 DEF Held, DataOf
    <2> QED
      BY <1>5, <2>1, <2>2 DEF Listed
  <1> QED
    BY <1>4, <1>7, <1>8, <1>10, <1>11

\* The node goes when nobody is to come to it any more.
LEMMA FreeNodeStep ==
    ASSUME WalkInv, WalkInv', FreeNode
    PROVE  ToVisit' = ToVisit /\ Listed' = Listed
  <1>1. /\ client' = client /\ colist' = colist /\ cursor' = cursor /\ resume' = resume
        /\ target' = target /\ pc = "freeNode" /\ pc' = "unlink" /\ hit' = hit
        /\ node' = FreeSlot(target)
    BY DEF FreeNode
  <1>2. Held /\ Held' /\ Good /\ TypeOK
    BY <1>1, ListHeld, ListWillBeHeld DEF Held, Good, Up, Working, Removing
  <1>3. \A n \in Nodes : node'[n].data = node[n].data /\ node'[n].next = node[n].next
                         /\ (node'[n].live <=> node[n].live /\ n # target)
    BY <1>1, <1>2, FreedSlot
  <1>4. [n \in Nodes |-> node'[n].next] = [n \in Nodes |-> node[n].next]
    BY <1>3
  <1>5. Linked' = Linked
    BY <1>1, <1>2, <1>3 DEF Linked, Where, Held, Good, InHand, Removing
  <1>6. PICK r \in [Nodes -> Nat] : Chain(r, Linked, [n \in Nodes |-> node[n].next], colist)
    BY <1>2 DEF Held
  <1>7. Linked \in SUBSET Nodes /\ NULL \notin Nodes /\ colist \in Linked \cup {NULL}
    BY <1>2, <1>6 DEF Held, Chain
  <1>8. \A q \in Linked \cup {NULL} : Reached(node, q) \subseteq Linked
    BY <1>6, <1>7, ReachedBelow
  <1>9. ASSUME NEW q \in Linked \cup {NULL}
        PROVE  ClientsFrom(q)' = ClientsFrom(q)
    <2>1. NULL \notin Reached(node, q) /\ q \in (Linked \ {NULL}) \cup {NULL} /\ Linked \ {NULL} = Linked
      BY <1>7, <1>8
    <2>2. Chain(r, Linked \ {NULL}, [n \in Nodes |-> node'[n].next], colist)
      BY <1>4, <1>6, <2>1
    <2>3. Reached(node', q) = Reached(node, q)
      BY <1>6, <1>7, <2>1, <2>2, ReachedSame
    <2>4. DataOf(node', Reached(node, q)) = DataOf(node, Reached(node, q))
      BY <1>3, <1>7, <1>8 DEF DataOf
    <2> QED
      BY <2>3, <2>4, ClientsAreReached
  <1>10. Listed' = Listed
    BY <1>1, <1>7, <1>9, ClientsAreReached DEF Listed
  <1>11. target \in Linked /\ node'[target].next = node[target].next
    BY <1>1, <1>2, <1>3, <1>7 DEF Held, Good, InHand, Removing
  <1>12. ToVisit' = ToVisit
    <2>1. RestIs /\ RestIs'
      BY <1>1, RestOfWalk, RestOfWalkLater DEF Removing
    <2>2. PICK q : q = Rest
      OBVIOUS
    <2>3. q \in Linked \cup {NULL} /\ Rest' = q
      BY <1>1, <1>11, <2>1, <2>2 DEF Rest, RestIs
    <2>4. ClientsFrom(Rest)' = ClientsFrom(q)'
      BY <2>3, ClientsAreReached
    <2> QED
      BY <1>9, <2>1, <2>2, <2>3, <2>4 DEF RestIs
  <1> QED
    BY <1>10, <1>12

LEMMA UnlinkStep ==
    ASSUME WalkInv, WalkInv', Unlink
    PROVE  ToVisit' = ToVisit /\ Listed' = Listed
  <1>1. /\ client' = client /\ cursor' = cursor /\ hit' = hit
        /\ pc = "unlink" /\ pc' = resume
        /\ colist' = IF colist = target THEN saved ELSE colist
    BY DEF Unlink
  <1>2. Held /\ Good /\ TypeOK /\ RestIs /\ target \in Linked
    BY <1>1, ListHeld, RestOfWalk DEF Held, Good, RestIs, Up, Working, Removing
  <1>3. saved = node[target].next /\ ~node[target].live /\ pc' \in {"walk", "visited"}
    BY <1>1, <1>2 DEF Good, InHand, Removing, TypeOK
  <1>4. \A n \in Nodes : /\ node'[n].live = node[n].live /\ node'[n].data = node[n].data
                         /\ node'[n].next = IF node[n].live /\ node[n].next = target
                                            THEN saved ELSE node[n].next
    BY <1>2 DEF Unlink, TypeOK, Node
  <1>5. Linked \in SUBSET Nodes /\ NULL \notin Nodes /\ target \in Nodes
    BY <1>2 DEF Held
  <1>6. Held' /\ Linked' = Linked \ {target}
    <2>1. Held'
      BY <1>3, ListWillBeHeld DEF Up, Working
    <2>2. Where = "unlink" /\ Where' \in {"walk", "visited"}
      BY <1>1, <1>2, <1>3, <2>1 DEF Held
    <2> QED
      BY <1>3, <1>4, <1>5, <2>1, <2>2 DEF Linked
  <1>7. PICK r \in [Nodes -> Nat] : Chain(r, Linked, [n \in Nodes |-> node[n].next], colist)
    BY <1>2 DEF Held
  <1>8. PICK top2 : Chain(r, Linked \ {target}, [n \in Nodes |-> node'[n].next], top2)
    <2> DEFINE next == [n \in Nodes |-> node[n].next]
               next2 == [n \in Nodes |-> node'[n].next]
    <2>1. next \in [Nodes -> Pointer]
      BY <1>2 DEF TypeOK, Node
    <2>2. \A n \in Linked \ {target} : node[n].live
      BY <1>2 DEF Held
    <2>3. \A n \in Linked \ {target} :
             next2[n] = IF next[n] = target THEN next[target] ELSE next[n]
      BY <1>3, <1>4, <1>5, <2>2
    <2> HIDE DEF next, next2
    <2>4. Chain(r, Linked \ {target}, next2, IF colist = target THEN next[target] ELSE colist)
      BY <1>2, <1>5, <1>7, <2>1, <2>3, ChainRemove, Zenon DEF next
    <2> QED
      BY <2>4 DEF next2
  <1>9. ASSUME NEW q \in (Linked \ {target}) \cup {NULL}, target \notin Reached(node, q)
        PROVE  ClientsFrom(q)' = ClientsFrom(q)
    <2>1. Reached(node', q) = Reached(node, q)
      BY <1>5, <1>7, <1>8, <1>9, ReachedSame
    <2>2. Reached(node, q) \subseteq Nodes
      BY DEF Reached
    <2>3. DataOf(node', Reached(node, q)) = DataOf(node, Reached(node, q))
      BY <1>4, <2>2 DEF DataOf
    <2> QED
      BY <2>1, <2>3, ClientsAreReached
  <1>10. Listed' = Listed
    <2>1. Listed' = {c \in DataOf(node', Linked \ {target}) : client[c].live}
      BY <1>1, <1>6 DEF Held, Listed
    <2>2. DataOf(node', Linked \ {target}) = DataOf(node, Linked \ {target})
      BY <1>4, <1>5 DEF DataOf
    <2>3. Listed = {c \in DataOf(node, Linked) : client[c].live}
      BY <1>2 DEF Held, Listed
    <2>4. ~client[node[target].data].live
      BY <1>1 DEF WalkInv, Newest, Data
    <2> QED
      BY <2>1, <2>2, <2>3, <2>4 DEF DataOf
  <1>11. PICK q : q = Rest
    OBVIOUS
  <1>12. /\ q \in Linked \cup {NULL} /\ q # target /\ target \notin Reached(node, q)
         /\ ToVisit = ClientsFrom(q)
    <2>1. \A n \in Linked : n \in Reached(node, n)
      <3>1. Linked \in SUBSET Nodes
        BY <1>5
      <3>2. ASSUME NEW n \in Linked
            PROVE  n \in Reached(node, n)
        <4>1. Reached(node, n) = {m \in Linked : n # NULL /\ r[m] <= r[n]}
          BY <1>7, <3>1, ReachedBelow
        <4> QED
          BY <1>5, <3>1, <4>1
      <3> QED
        BY <3>2
    <2> QED
      BY <1>2, <1>5, <1>11, <2>1 DEF RestIs
  <1>13. ToVisit' = ClientsFrom(q)'
    <2>1. CASE resume = "visited"
      <3>1. cursor = target /\ cursor # NULL
        BY <1>1, <1>2, <1>5, <2>1 DEF Good, InHand, Removing
      <3>2. ToVisit' = ClientsFrom(node[cursor].next)'
        BY <1>1, <2>1, <3>1 DEF ToVisit, Removing
      <3>3. node'[cursor].next = q
        BY <1>3, <1>4, <1>5, <1>11, <2>1, <3>1 DEF Rest
      <3> QED
        BY <1>1, <3>2, <3>3, ClientsAreReached
    <2>2. CASE resume = "walk"
      <3>1. q = cursor
        BY <1>11, <2>2 DEF Rest
      <3>2. ToVisit' = IF cursor = NULL THEN {} ELSE ClientsFrom(cursor)'
        BY <1>1, <2>2 DEF ToVisit, Removing
      <3>3. ClientsFrom(NULL)' = {}
        <4>1. Linked \ {target} \in SUBSET Nodes
          BY <1>5
        <4>2. Reached(node', NULL) = {}
          BY <1>8, <4>1, ReachedSteps
        <4> QED
          BY <4>2, ClientsAreReached DEF DataOf
      <3> QED
        BY <1>1, <3>1, <3>2, <3>3, ClientsAreReached
    <2> QED
      BY <1>2, <2>1, <2>2 DEF TypeOK
  <1>14. ToVisit' = ToVisit
    BY <1>9, <1>12, <1>13
  <1> QED
    BY <1>10, <1>14

-----------------------------------------------------------------------------
\* The nodes in memory do what EventLoop's set does: a walk visits each client that was
\* connected when it began once, however many nodes are prepended, removed under the walk,
\* freed and used again meanwhile.
THEOREM RefinesClientSet == Spec => ImplementsClientSet
  <1>1. Init => AsSet!Init
    <2> SUFFICES ASSUME Init PROVE AsSet!Init
      OBVIOUS
    <2>1. Inv /\ Newest
      BY InvInit DEF Init, Newest, Removing
    <2>2. Up /\ pc = "loop" /\ \A n \in Nodes : ~node[n].live
      BY DEF Init, Up, Working
    <2>3. Held
      BY <2>1, <2>2, ListHeld DEF WalkInv
    <2>4. Linked = {}
      BY <2>2, <2>3 DEF Held
    <2>5. Listed = {} /\ ToVisit = {}
      BY <2>2, <2>3, <2>4 DEF Held, Listed, ToVisit, DataOf
    <2> QED
      BY <2>2, <2>5 DEF AsSet!Init
  <1>2. ASSUME WalkInv, WalkInv', [Next]_vars
        PROVE  [AsSet!Next]_(AsSet!vars)
    <2>1. CASE UNCHANGED vars
      <3>1. node' = node /\ colist' = colist /\ client' = client /\ pc' = pc /\ cursor' = cursor
            /\ resume' = resume
        BY <2>1 DEF vars
      <3>2. \A q : ClientsFrom(q)' = ClientsFrom(q)
        BY <3>1, ClientsAreReached
      <3>3. Listed' = Listed /\ ToVisit' = ToVisit /\ Up' = Up
        BY <3>1, <3>2, ClientsAreReached DEF Listed, ToVisit, Up
      <3> QED
        BY <3>3 DEF AsSet!vars
    <2>2. CASE ~Up'
      BY <2>2 DEF AsSet!Next, AsSet!Down
    <2>3. CASE Next /\ Up'
      <3>1. Up /\ ~Handler /\ ~SIGINT
        <4>1. Handler \/ SIGINT => pc' \notin Working
          BY DEF Handler, SIGINT, Dangling, DanglingEnds, list_remove_nodes, Exit, Touch,
                 Working, Inserting, Removing, Queueing
        <4>2. Ended => Up
          BY <2>3 DEF Ended, vars, Up
        <4> QED
          BY <2>3, <4>1, <4>2, StepsOfTheLoop DEF Next, Up
      <3>2. CASE StartPass
        <4>1. ToVisit = {} /\ ToVisit' = Listed /\ Listed' = Listed
          BY <1>2, <3>2, BeginStep
        <4> QED
          BY <2>3, <3>1, <4>1 DEF AsSet!Next, AsSet!Begin
      <3>3. CASE Keep \/ Close
        <4>1. /\ Data(cursor) \in ToVisit /\ ToVisit' = ToVisit \ {Data(cursor)}
              /\ Listed' = Listed /\ Data(cursor) \in Clients
          BY <1>2, <2>3, <3>3, VisitStep
        <4> QED
          BY <2>3, <3>1, <4>1 DEF AsSet!Next, AsSet!Visit
      <3>4. CASE Link
        <4>1. /\ Data(target) \in Clients \ Listed /\ Listed' = Listed \cup {Data(target)}
              /\ ToVisit' = ToVisit
          BY <1>2, <3>4, JoinStep
        <4> QED
          BY <2>3, <3>1, <4>1 DEF AsSet!Next, AsSet!Join
      <3>5. CASE FreeData
        <4>1. /\ Data(target) \in Listed \ ToVisit /\ Listed' = Listed \ {Data(target)}
              /\ ToVisit' = ToVisit /\ Data(target) \in Clients
          BY <1>2, <3>5, LeaveStep
        <4> QED
          BY <2>3, <3>1, <4>1 DEF AsSet!Next, AsSet!Leave
      <3>6. CASE NoAccept \/ accept_client \/ Accepted \/ Advance \/ EndWalk \/ Sending
                 \/ RemoveHeaders \/ FreeNode \/ Unlink
        <4>1. ToVisit' = ToVisit /\ Listed' = Listed
          BY <1>2, <2>3, <3>6, PassStep, AcceptStep, AdvanceStep, FreeNodeStep, UnlinkStep,
             SendStep
        <4> QED
          BY <2>3, <3>1, <4>1 DEF AsSet!vars
      <3>7. CASE Ended
        BY <2>1, <3>7 DEF Ended
      <3> QED
        BY <2>3, <3>1, <3>2, <3>3, <3>4, <3>5, <3>6, <3>7 DEF Next, Walk, Visit, Removal
    <2> QED
      BY <1>2, <2>1, <2>2, <2>3
  <1>3. Init => Newest
    BY DEF Init, Newest, Removing
  <1>4. Spec => []WalkInv
    <2>1. Init => WalkInv
      BY <1>3, InvInit DEF WalkInv
    <2>2. WalkInv /\ [Next]_vars => WalkInv'
      BY InvStep, NewestStep DEF WalkInv
    <2> QED
      BY <2>1, <2>2, PTL DEF Spec
  <1> QED
    BY <1>1, <1>2, <1>4, PTL DEF Spec, ImplementsClientSet, AsSet!Spec
=============================================================================
