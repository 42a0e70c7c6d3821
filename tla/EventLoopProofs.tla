-------------------------- MODULE EventLoopProofs --------------------------
(***************************************************************************)
(* Proofs about EventLoop, for any number of descriptors and children and  *)
(* any limit: the loop's state keeps its type, a walk never stands on a    *)
(* freed node, a client is only ever paired with its own child, and the    *)
(* loop implements Pairing.                                                *)
(***************************************************************************)
EXTENDS EventLoop, TLAPS

\* What the three rest on: a slot that is not connected is clean; a client has a
\* child from its launch on; nobody shares one; a child in the listener's queue is
\* not yet anybody's connected child; between two walks there is nothing to visit.
Arrived == {"mute", "talking", "gone"}

Slots == \A fd \in Fds : fd \notin colist => client[fd] = new_wsclient
Children == \A fd \in Fds :
    /\ client[fd].buddy = "UNKNOWN" => client[fd].pid = NoPid
    /\ client[fd].buddy # "UNKNOWN" => client[fd].pid \in Pids /\ kid[client[fd].pid] # "none"
Unshared == \A f, g \in Fds : client[f].pid = client[g].pid => f = g \/ client[f].pid = NoPid
Connected == \A fd \in Fds : client[fd].buddy = "CONNECTED" =>
                client[fd].pid \notin backlog /\ kid[client[fd].pid] \in Arrived
Queued == \A p \in backlog : kid[p] \in Arrived
Resting == pc \in {"select", "accept"} => todo = {}

Inv == TypeOK /\ WalkIsLive /\ Slots /\ Children /\ Unshared /\ Connected /\ Queued /\ Resting

-----------------------------------------------------------------------------
\* The effects are effects on the two bits.
LEMMA EffectTypes ==
    ASSUME NEW bits \in SUBSET LoopBits
    PROVE  /\ HandshakeEffects \subseteq SUBSET LoopBits
           /\ FrameEffects(bits) \subseteq SUBSET LoopBits
           /\ WriteEffects(bits) \subseteq SUBSET LoopBits
           /\ SendEffects(bits) \subseteq SUBSET LoopBits
           /\ RefuseEffects \subseteq SUBSET LoopBits
  BY DEF HandshakeEffects, FrameEffects, WriteEffects, SendEffects, RefuseEffects, LoopBits

LEMMA NewClientType == new_wsclient \in WSClient
  BY DEF new_wsclient, WSClient

\* A change of its bits leaves a client a client, with its child.
LEMMA BitsType ==
    ASSUME NEW c \in WSClient, NEW b \in SUBSET LoopBits
    PROVE  LET d == [c EXCEPT !.bits = b]
           IN  d \in WSClient /\ d.buddy = c.buddy /\ d.pid = c.pid /\ d.late = c.late
  BY DEF WSClient

\* What a visit may do to a client, apart from its bits: nothing, or launch a child
\* for a page that has none.
LaunchedFor(c, d) == /\ c.buddy = "UNKNOWN"
                     /\ d.buddy = "LAUNCHED"
                     /\ d.pid \in Pids
                     /\ kid[d.pid] = "none"
SameChild(c, d) == d.buddy = c.buddy /\ d.pid = c.pid

LEMMA ReadOutcome ==
    ASSUME TypeOK, NEW c \in WSClient, NEW o \in handle_ws_reads(c)
    PROVE  /\ o.client \in WSClient
           /\ SameChild(c, o.client) \/ LaunchedFor(c, o.client)
           /\ o.fate = "close" => SameChild(c, o.client)
  <1>1. CASE \E b \in SUBSET LoopBits : o = Outcome([c EXCEPT !.bits = b], ReadFate(b))
    <2>1. PICK b \in SUBSET LoopBits : o = Outcome([c EXCEPT !.bits = b], ReadFate(b))
      BY <1>1
    <2>2. o.client = [c EXCEPT !.bits = b]
      BY <2>1 DEF Outcome
    <2> QED BY <2>2, BitsType DEF SameChild
  <1>2. CASE c.buddy = "UNKNOWN" /\ o \in Launched(c)
    <2>1. PICK p \in Pids : /\ kid[p] = "none"
                            /\ o = Outcome([c EXCEPT !.bits = {}, !.buddy = "LAUNCHED", !.pid = p], "keep")
      BY <1>2 DEF Launched
    <2>2. o.fate = "keep" /\ o.client = [c EXCEPT !.bits = {}, !.buddy = "LAUNCHED", !.pid = p]
      BY <2>1 DEF Outcome
    <2>3. o.client = [bits |-> {}, buddy |-> "LAUNCHED", pid |-> p, late |-> c.late]
      BY <2>2 DEF WSClient
    <2> QED BY <1>2, <2>1, <2>2, <2>3 DEF WSClient, LaunchedFor, LoopBits
  <1>3. c.bits \in SUBSET LoopBits
    BY DEF WSClient
  <1> QED BY <1>1, <1>2, <1>3, EffectTypes DEF handle_ws_reads

LEMMA WriteOutcome ==
    ASSUME NEW c \in WSClient, NEW o \in handle_ws_writes(c)
    PROVE  o.client \in WSClient /\ SameChild(c, o.client)
  <1>1. c.bits \in SUBSET LoopBits
    BY DEF WSClient
  <1>2. PICK b \in SUBSET LoopBits :
            o = Outcome([c EXCEPT !.bits = b], IF b = {"CLOSE"} THEN "close" ELSE "keep")
    BY <1>1, EffectTypes DEF handle_ws_writes
  <1>3. o.client = [c EXCEPT !.bits = b]
    BY <1>2 DEF Outcome
  <1> QED BY <1>3, BitsType DEF SameChild

LEMMA VisitOutcome ==
    ASSUME TypeOK, NEW fd \in Fds, NEW o \in Visited(fd)
    PROVE  /\ o.client \in WSClient
           /\ SameChild(client[fd], o.client) \/ LaunchedFor(client[fd], o.client)
           /\ o.fate = "close" => SameChild(client[fd], o.client)
  <1> DEFINE c == client[fd]
             Good(r) == /\ r.client \in WSClient
                        /\ SameChild(c, r.client) \/ LaunchedFor(c, r.client)
                        /\ r.fate = "close" => SameChild(c, r.client)
  <1>1. c \in WSClient
    BY DEF TypeOK
  <1>2. Good(Outcome(c, "close")) /\ Good(Outcome(c, "keep"))
    BY <1>1 DEF Outcome, SameChild
  <1>3. ASSUME NEW r, Good(r)
        PROVE  Good(handle_us_reads(r))
    <2>1. CASE handle_us_reads(r) = r
      BY <1>3, <2>1
    <2>2. CASE /\ handle_us_reads(r) = Outcome(r.client, "close")
               /\ r.client.buddy = "CONNECTED"
      BY <1>3, <2>2 DEF Outcome, LaunchedFor
    <2> QED BY <2>1, <2>2 DEF handle_us_reads
  <1>4. \A r \in handle_ws_reads(c) : Good(r)
    BY <1>1, ReadOutcome
  <1>5. \A r \in handle_ws_writes(c) : Good(r)
    BY <1>1, WriteOutcome
  <1>6. o = Outcome(c, "close") \/ \E r : Good(r) /\ o = handle_us_reads(r)
    <2> HIDE DEF Good
    <2> QED BY <1>2, <1>4, <1>5 DEF Visited
  <1>7. Good(o)
    <2> HIDE DEF Good
    <2> QED BY <1>2, <1>3, <1>6
  <1> QED BY <1>7

-----------------------------------------------------------------------------
LEMMA Initially == Init => Inv
  <1> SUFFICES ASSUME Init PROVE Inv
    OBVIOUS
  <1>1. \A fd \in Fds : /\ client[fd] = new_wsclient
                         /\ client[fd].buddy = "UNKNOWN"
                         /\ client[fd].pid = NoPid
    BY DEF Init, new_wsclient
  <1>2. TypeOK
    BY NewClientType DEF Init, TypeOK, KidStates
  <1> QED BY <1>1, <1>2 DEF Init, Inv, WalkIsLive, Slots, Children, Unshared, Connected,
             Queued, Resting

\* Steps that change no client, no child and no list.
LEMMA QuietStep ==
    ASSUME Inv, TypeOK',
           UNCHANGED <<colist, client, kid, backlog>>,
           todo' \subseteq colist,
           pc' \in {"select", "accept"} => todo' = {}
    PROVE  Inv'
  BY DEF Inv, WalkIsLive, Slots, Children, Unshared, Connected, Queued, Resting

\* Steps that change the bits of clients and close some of them.
LEMMA ClosingStep ==
    ASSUME Inv, TypeOK',
           NEW fds \in SUBSET Fds,
           colist' = colist \ fds,
           \A fd \in fds : client'[fd] = new_wsclient,
           \A fd \in Fds \ fds : SameChild(client[fd], client'[fd]),
           \A fd \in Fds : fd \notin colist => client'[fd] = new_wsclient,
           UNCHANGED <<kid, backlog>>,
           todo' \subseteq colist \ fds,
           pc' \in {"select", "accept"} => todo' = {}
    PROVE  Inv'
  <1>1. WalkIsLive' /\ Slots' /\ Queued' /\ Resting'
    BY DEF Inv, WalkIsLive, Slots, Queued, Resting
  <1>2. Children'
    BY DEF Inv, Children, SameChild, new_wsclient
  <1>3. Unshared'
    BY DEF Inv, Unshared, SameChild, new_wsclient
  <1>4. Connected'
    BY DEF Inv, Connected, SameChild, new_wsclient
  <1> QED BY <1>1, <1>2, <1>3, <1>4 DEF Inv

LEMMA SelectKeeps == Inv /\ Select => Inv'
  <1> SUFFICES ASSUME Inv, Select PROVE Inv'
    OBVIOUS
  <1>1. PICK r \in SUBSET MayRead, w \in SUBSET Writing : rfds' = Pending \cup r /\ wfds' = w
    BY DEF Select
  <1>2. MayRead \subseteq Fds \cup Pids \cup {"ws", "us"} /\ Writing \subseteq Fds
    BY DEF MayRead, Writing, Inv, TypeOK
  <1>3. Pending \subseteq Pids \cup {"us"}
    BY DEF Pending
  <1>4. TypeOK'
    BY <1>1, <1>2, <1>3 DEF Select, Inv, TypeOK
  <1> QED BY <1>4, QuietStep DEF Select, Inv, Resting

LEMMA WsAcceptKeeps == Inv /\ handle_ws_accept => Inv'
  <1> SUFFICES ASSUME Inv, handle_ws_accept PROVE Inv'
    OBVIOUS
  <1> USE DEF handle_ws_accept, StartWalk
  <1>1. PICK fd \in Fds \ colist :
           \/ colist' = colist \cup {fd} /\ client' = client /\ closing' = closing
           \/ \E bits \in RefuseEffects : /\ colist' = colist \cup {fd}
                                          /\ client' = [client EXCEPT ![fd].bits = bits]
                                          /\ closing' = TRUE
           \/ closing' = FALSE /\ colist' = colist /\ client' = client
    OBVIOUS
  <1>2. \A bits \in RefuseEffects : bits \in SUBSET LoopBits
    BY EffectTypes
  <1>3. \A bits \in RefuseEffects :
           client' = [client EXCEPT ![fd].bits = bits] =>
               /\ client' \in [Fds -> WSClient]
               /\ SameChild(client[fd], client'[fd])
               /\ \A g \in Fds \ {fd} : client'[g] = client[g]
    <2> SUFFICES ASSUME NEW bits \in RefuseEffects, client' = [client EXCEPT ![fd].bits = bits]
                 PROVE  /\ client' \in [Fds -> WSClient]
                        /\ SameChild(client[fd], client'[fd])
                        /\ \A g \in Fds \ {fd} : client'[g] = client[g]
      OBVIOUS
    <2>1. client \in [Fds -> WSClient] /\ client[fd] \in WSClient
      BY DEF Inv, TypeOK
    <2>2. client' = [client EXCEPT ![fd] = [client[fd] EXCEPT !.bits = bits]]
      OBVIOUS
    <2>3. /\ [client[fd] EXCEPT !.bits = bits] \in WSClient
          /\ SameChild(client[fd], [client[fd] EXCEPT !.bits = bits])
      BY <1>2, <2>1, BitsType DEF SameChild
    <2> HIDE DEF handle_ws_accept
    <2> QED BY <2>1, <2>2, <2>3
  <1>4. /\ client' \in [Fds -> WSClient]
        /\ SameChild(client[fd], client'[fd])
        /\ \A g \in Fds \ {fd} : client'[g] = client[g]
        /\ colist \subseteq colist' /\ colist' \subseteq colist \cup {fd}
        /\ fd \notin colist' => client'[fd] = client[fd]
        /\ closing' \in BOOLEAN
    BY <1>1, <1>3 DEF Inv, TypeOK, SameChild
  <1>5. TypeOK'
    BY <1>4 DEF Inv, TypeOK
  <1>6. WalkIsLive' /\ Slots' /\ Queued' /\ Resting'
    BY <1>4 DEF Inv, WalkIsLive, Slots, Queued, Resting
  <1>7. Children' /\ Unshared' /\ Connected'
    BY <1>4 DEF Inv, Children, Unshared, Connected, SameChild
  <1> QED BY <1>5, <1>6, <1>7 DEF Inv

LEMMA UsAcceptKeeps == Inv /\ handle_us_accept => Inv'
  <1> SUFFICES ASSUME Inv, handle_us_accept PROVE Inv'
    OBVIOUS
  <1> USE DEF handle_us_accept, StartWalk
  <1>1. PICK p \in backlog :
           /\ backlog' = backlog \ {p}
           /\ \/ pc' = "walk" /\ client' = client /\ greeted' = greeted
              \/ \E fd \in colist : /\ client[fd].pid = p
                                    /\ client' = [client EXCEPT ![fd].buddy = "CONNECTED"]
                                    /\ greeted' = p
                                    /\ pc' = "greet"
    OBVIOUS
  <1>2. CASE pc' = "walk" /\ client' = client /\ greeted' = greeted
    <2>1. TypeOK'
      BY <1>1, <1>2 DEF Inv, TypeOK
    <2> QED BY <1>1, <1>2, <2>1 DEF Inv, WalkIsLive, Slots, Children, Unshared, Connected,
               Queued, Resting
  <1>3. CASE \E fd \in colist : /\ client[fd].pid = p
                                /\ client' = [client EXCEPT ![fd].buddy = "CONNECTED"]
                                /\ greeted' = p
                                /\ pc' = "greet"
    <2>1. PICK fd \in colist : /\ client[fd].pid = p
                               /\ client' = [client EXCEPT ![fd].buddy = "CONNECTED"]
                               /\ greeted' = p
                               /\ pc' = "greet"
      BY <1>3
    <2>2. fd \in Fds /\ p \in Pids /\ client \in [Fds -> WSClient] /\ client[fd] \in WSClient
      BY DEF Inv, TypeOK
    <2>3. /\ client'[fd] = [client[fd] EXCEPT !.buddy = "CONNECTED"]
          /\ \A g \in Fds \ {fd} : client'[g] = client[g]
          /\ client' \in [Fds -> WSClient]
      <3>1. [client[fd] EXCEPT !.buddy = "CONNECTED"] \in WSClient
        BY <2>2 DEF WSClient
      <3> QED BY <2>1, <2>2, <3>1
    <2>4. client'[fd].buddy = "CONNECTED" /\ client'[fd].pid = p
      BY <2>1, <2>2, <2>3 DEF WSClient
    <2>5. TypeOK'
      BY <1>1, <2>1, <2>2, <2>3 DEF Inv, TypeOK
    <2>6. WalkIsLive' /\ Slots' /\ Queued' /\ Resting'
      BY <1>1, <2>1, <2>2, <2>3 DEF Inv, WalkIsLive, Slots, Queued, Resting
    <2>7. Children'
      BY <2>1, <2>2, <2>3, <2>4, NoPidAssumption DEF Inv, Children
    <2>8. Unshared'
      BY <2>1, <2>2, <2>3, <2>4 DEF Inv, Unshared
    <2>9. Connected'
      BY <1>1, <2>2, <2>3, <2>4 DEF Inv, Connected, Queued
    <2> QED BY <2>5, <2>6, <2>7, <2>8, <2>9 DEF Inv
  <1> QED BY <1>1, <1>2, <1>3

LEMMA PassKeeps == Inv /\ (us_on_connected \/ NoAccept \/ EndWalk) => Inv'
  <1> SUFFICES ASSUME Inv, us_on_connected \/ NoAccept \/ EndWalk PROVE Inv'
    OBVIOUS
  <1> USE DEF us_on_connected, NoAccept, EndWalk, StartWalk
  <1>1. TypeOK'
    BY DEF Inv, TypeOK
  <1> QED BY <1>1, QuietStep DEF Inv, WalkIsLive

\* A visit that closes is a closing step; one that does not may launch a child.
LEMMA VisitKeeps == ASSUME Inv, NEW fd \in Fds, Visit(fd) PROVE Inv'
  <1>1. PICK o \in Visited(fd) :
           /\ \/ o.fate = "close" /\ handle_tcp_close(fd) /\ StaleNext("walk")
              \/ /\ o.fate # "close"
                 /\ client' = [client EXCEPT ![fd] = o.client]
                 /\ closing' = (closing \/ o.fate = "defer")
                 /\ UNCHANGED <<pc, colist>>
           /\ kid' = [p \in Pids |-> IF p = o.client.pid /\ p # client[fd].pid
                                     THEN "running" ELSE kid[p]]
    BY DEF Visit
  <1>2. /\ o.client \in WSClient
        /\ SameChild(client[fd], o.client) \/ LaunchedFor(client[fd], o.client)
        /\ o.fate = "close" => SameChild(client[fd], o.client)
    BY VisitOutcome DEF Inv
  <1>3. /\ pc = "walk" /\ fd \in todo /\ todo' = todo \ {fd}
        /\ rfds' = rfds \ {fd, client[fd].pid} /\ wfds' = wfds \ {fd}
        /\ greeted' = greeted /\ backlog' = backlog
    BY DEF Visit
  <1>4. fd \in colist /\ client \in [Fds -> WSClient] /\ kid \in [Pids -> KidStates]
    BY <1>3 DEF Inv, WalkIsLive, TypeOK
  <1>5. kid' \in [Pids -> KidStates]
    BY <1>1, <1>4 DEF KidStates
  <1>6. CASE SameChild(client[fd], o.client)
    <2>1. kid' = kid
      BY <1>1, <1>4, <1>6 DEF SameChild
    <2>2. CASE o.fate = "close"
      <3>1. /\ colist' = colist \ {fd}
            /\ closing' = FALSE
            /\ client' = [client EXCEPT ![fd] = new_wsclient]
            /\ pc' \in {"walk", "crashed"}
        BY <1>1, <2>2 DEF handle_tcp_close, Closed, StaleNext
      <3>2. TypeOK'
        BY <1>3, <1>4, <2>1, <3>1, NewClientType DEF Inv, TypeOK
      <3>3. /\ client'[fd] = new_wsclient
            /\ \A g \in Fds \ {fd} : client'[g] = client[g]
        BY <1>4, <3>1
      <3>4. \A g \in Fds \ {fd} : SameChild(client[g], client'[g])
        BY <3>3 DEF SameChild
      <3>5. /\ \A g \in Fds : g \notin colist => client'[g] = new_wsclient
            /\ todo' \subseteq colist \ {fd}
        BY <1>3, <3>3 DEF Inv, Slots, WalkIsLive
      <3> QED BY <1>3, <2>1, <3>1, <3>2, <3>3, <3>4, <3>5, ClosingStep
    <2>3. CASE o.fate # "close"
      <3>1. /\ client' = [client EXCEPT ![fd] = o.client]
            /\ closing' = (closing \/ o.fate = "defer")
            /\ UNCHANGED <<pc, colist>>
        BY <1>1, <2>3
      <3>2. TypeOK'
        BY <1>2, <1>3, <1>4, <2>1, <3>1 DEF Inv, TypeOK
      <3>3. /\ client'[fd] = o.client
            /\ \A g \in Fds \ {fd} : client'[g] = client[g]
        BY <1>4, <3>1
      <3>4. \A g \in Fds \ {} : SameChild(client[g], client'[g])
        BY <1>6, <3>3 DEF SameChild
      <3>5. /\ \A g \in Fds : g \notin colist => client'[g] = new_wsclient
            /\ todo' \subseteq colist \ {}
        BY <1>3, <1>4, <3>3 DEF Inv, Slots, WalkIsLive
      <3>6. colist' = colist \ {} /\ pc' = "walk"
        BY <1>3, <3>1
      <3>7. /\ UNCHANGED <<kid, backlog>>
            /\ pc' \in {"select", "accept"} => todo' = {}
        BY <1>3, <2>1, <3>6
      <3> QED BY <3>2, <3>4, <3>5, <3>6, <3>7, ClosingStep
    <2> QED BY <2>2, <2>3
  <1>7. CASE LaunchedFor(client[fd], o.client) /\ o.fate # "close"
    <2> DEFINE q == o.client.pid
    <2>1. /\ client' = [client EXCEPT ![fd] = o.client]
          /\ closing' = (closing \/ o.fate = "defer")
          /\ UNCHANGED <<pc, colist>>
      BY <1>1, <1>7
    <2>2. TypeOK'
      BY <1>2, <1>3, <1>4, <1>5, <2>1 DEF Inv, TypeOK
    <2>3. /\ q \in Pids /\ kid[q] = "none" /\ client[fd].pid = NoPid
          /\ o.client.buddy = "LAUNCHED"
      BY <1>7, <1>4 DEF LaunchedFor, Inv, Children
    <2>4. /\ kid'[q] = "running"
          /\ \A p \in Pids \ {q} : kid'[p] = kid[p]
      BY <1>1, <2>3, NoPidAssumption
    <2>5. /\ client'[fd] = o.client
          /\ \A g \in Fds \ {fd} : client'[g] = client[g]
      BY <1>4, <2>1
    <2>6. \A g \in Fds : client[g].pid # q
      BY <1>4, <2>3, NoPidAssumption DEF Inv, Children, TypeOK, WSClient
    <2>7. q \notin backlog
      BY <2>3 DEF Inv, Queued, Arrived
    <2>8. WalkIsLive' /\ Slots' /\ Queued' /\ Resting'
      BY <1>3, <1>4, <2>1, <2>4, <2>5, <2>7
      DEF Inv, WalkIsLive, Slots, Queued, Resting, TypeOK
    <2>9. Children'
      BY <1>4, <2>3, <2>4, <2>5, <2>6 DEF Inv, Children
    <2>10. Unshared'
      BY <1>4, <2>3, <2>5, <2>6 DEF Inv, Unshared
    <2>11. Connected'
      BY <1>3, <2>3, <2>4, <2>5, <2>6 DEF Inv, Connected, Children
    <2> QED BY <2>2, <2>8, <2>9, <2>10, <2>11 DEF Inv
  <1>8. LaunchedFor(client[fd], o.client) => ~SameChild(client[fd], o.client)
    BY DEF LaunchedFor, SameChild
  <1> QED BY <1>2, <1>6, <1>7, <1>8

LEMMA TimeoutKeeps == Inv /\ Timeout => Inv'
  <1> SUFFICES ASSUME Inv, Timeout PROVE Inv'
    OBVIOUS
  <1> DEFINE late == {fd \in colist : Overdue(client[fd])}
  <1>1. /\ pc = "select" /\ todo = {}
        /\ colist' = colist \ late
        /\ closing' = (closing /\ late = {})
        /\ pc' \in {"select", "crashed"}
        /\ UNCHANGED <<rfds, wfds, todo, greeted, kid, backlog>>
    BY DEF Timeout, Closed, StaleNext, Inv, Resting
  <1>2. PICK bits \in [Fds -> SUBSET LoopBits] :
           /\ \A fd \in Fds : bits[fd] \in check_dirty_pixels(client[fd])
           /\ client' = [fd \in Fds |-> IF fd \in late THEN new_wsclient
                                        ELSE [client[fd] EXCEPT !.bits = bits[fd]]]
    BY DEF Timeout
  <1>3. late \subseteq Fds /\ client \in [Fds -> WSClient]
    BY DEF Inv, TypeOK
  <1>4. \A fd \in Fds \ late : /\ client'[fd] \in WSClient
                               /\ SameChild(client[fd], client'[fd])
    BY <1>2, <1>3, BitsType DEF SameChild
  <1>5. \A fd \in late : client'[fd] = new_wsclient
    BY <1>2, <1>3
  <1>6. client' \in [Fds -> WSClient]
    <2>1. client' = [fd \in Fds |-> client'[fd]]
      BY <1>2
    <2> QED BY <1>4, <1>5, <2>1, NewClientType
  <1>7. \A fd \in Fds : fd \notin colist => client'[fd] = new_wsclient
    <2> SUFFICES ASSUME NEW fd \in Fds, fd \notin colist PROVE client'[fd] = new_wsclient
      OBVIOUS
    <2>1. client[fd] = new_wsclient
      BY DEF Inv, Slots
    <2>2. client[fd].buddy = "UNKNOWN" /\ client[fd].bits = {}
      BY <2>1 DEF new_wsclient
    <2>3. bits[fd] = {}
      BY <1>2, <2>2 DEF check_dirty_pixels
    <2>4. client'[fd] = [new_wsclient EXCEPT !.bits = {}]
      BY <1>2, <2>1, <2>3
    <2> QED BY <2>4 DEF new_wsclient
  <1>8. TypeOK'
    BY <1>1, <1>3, <1>6 DEF Inv, TypeOK
  <1> HIDE DEF late
  <1> QED BY <1>1, <1>3, <1>4, <1>5, <1>7, <1>8, ClosingStep

LEMMA KidsKeep ==
    ASSUME Inv, NEW p \in Pids, KidConnects(p) \/ KidTalks(p) \/ KidExits(p)
    PROVE  Inv'
  <1>1. PICK from \in {"running", "mute", "talking"}, to \in Arrived :
           /\ KidStep(p, from, to)
           /\ \/ backlog' = backlog
              \/ from = "running" /\ backlog' = backlog \cup {p}
    BY DEF KidConnects, KidTalks, KidExits, Arrived
  <1>2. /\ kid[p] = from
        /\ kid' = [kid EXCEPT ![p] = to]
        /\ UNCHANGED <<pc, colist, client, closing, rfds, wfds, todo, greeted>>
    BY <1>1 DEF KidStep
  <1>3. kid'[p] = to /\ \A q \in Pids \ {p} : kid'[q] = kid[q]
    BY <1>2 DEF Inv, TypeOK
  <1>4. TypeOK'
    BY <1>1, <1>2 DEF Inv, TypeOK, KidStates, Arrived
  <1>5. WalkIsLive' /\ Slots' /\ Unshared' /\ Resting'
    BY <1>2 DEF Inv, WalkIsLive, Slots, Unshared, Resting
  <1>6. Children'
    BY <1>1, <1>2, <1>3 DEF Inv, Children, Arrived
  <1>7. Queued'
    BY <1>1, <1>3 DEF Inv, Queued, TypeOK
  <1>8. Connected'
    <2> SUFFICES ASSUME NEW fd \in Fds, client[fd].buddy = "CONNECTED"
                 PROVE  client[fd].pid \notin backlog' /\ kid'[client[fd].pid] \in Arrived
      BY <1>2 DEF Connected
    <2>1. client[fd].pid \in Pids /\ client[fd].pid \notin backlog /\ kid[client[fd].pid] \in Arrived
      BY DEF Inv, Children, Connected
    <2> QED BY <1>1, <1>2, <1>3, <2>1 DEF Arrived
  <1> QED BY <1>4, <1>5, <1>6, <1>7, <1>8 DEF Inv

LEMMA TimeKeeps == ASSUME Inv, NEW fd \in Fds, TimePasses(fd) PROVE Inv'
  <1>1. /\ client[fd].buddy = "LAUNCHED"
        /\ client' = [client EXCEPT ![fd] = [client[fd] EXCEPT !.late = TRUE]]
        /\ UNCHANGED <<pc, colist, closing, rfds, wfds, todo, greeted, kid, backlog>>
    BY DEF TimePasses
  <1>2. client \in [Fds -> WSClient] /\ client[fd] \in WSClient
    BY DEF Inv, TypeOK
  <1>3. /\ [client[fd] EXCEPT !.late = TRUE] \in WSClient
        /\ SameChild(client[fd], [client[fd] EXCEPT !.late = TRUE])
    BY <1>2 DEF WSClient, SameChild
  <1>4. /\ client' \in [Fds -> WSClient]
        /\ SameChild(client[fd], client'[fd])
        /\ \A g \in Fds \ {fd} : client'[g] = client[g]
    BY <1>1, <1>2, <1>3
  <1>5. fd \in colist
    BY <1>1 DEF Inv, Slots, new_wsclient
  <1>6. TypeOK'
    BY <1>1, <1>4 DEF Inv, TypeOK
  <1>7. \A g \in Fds \ {} : SameChild(client[g], client'[g])
    BY <1>4 DEF SameChild
  <1>8. /\ \A g \in Fds : g \notin colist => client'[g] = new_wsclient
        /\ todo' \subseteq colist \ {}
        /\ pc' \in {"select", "accept"} => todo' = {}
    BY <1>1, <1>4, <1>5 DEF Inv, Slots, WalkIsLive, Resting
  <1>9. colist' = colist \ {}
    BY <1>1
  <1> QED BY <1>1, <1>6, <1>7, <1>8, <1>9, ClosingStep

LEMMA Inductive == Inv /\ [Next]_vars => Inv'
  <1> SUFFICES ASSUME Inv, [Next]_vars PROVE Inv'
    OBVIOUS
  <1>1. CASE UNCHANGED vars
    BY <1>1 DEF vars, Inv, TypeOK, WalkIsLive, Slots, Children, Unshared, Connected, Queued, Resting
  <1>2. CASE Loop
    BY <1>2, SelectKeeps, WsAcceptKeeps, UsAcceptKeeps, PassKeeps, VisitKeeps, TimeoutKeeps DEF Loop
  <1>3. CASE \E p \in Pids : KidConnects(p) \/ KidTalks(p) \/ KidExits(p)
    BY <1>3, KidsKeep
  <1>4. CASE \E fd \in Fds : TimePasses(fd)
    BY <1>4, TimeKeeps
  <1> QED BY <1>1, <1>2, <1>3, <1>4 DEF Next, Dead

LEMMA Invariant == Spec => []Inv
  BY Initially, Inductive, PTL DEF Spec

\* The state of the loop keeps its type (the invariant TypeOK of the runs).
THEOREM LoopTypeCorrect == Spec => []TypeOK
  <1>1. Inv => TypeOK
    BY DEF Inv
  <1> QED BY <1>1, Invariant, PTL

\* A walk never stands on a freed node: whatever the handlers of check_rfds_wfds
\* close, the clients still to visit are connected.
THEOREM WalkOnLiveClients == Spec => []WalkIsLive
  <1>1. Inv => WalkIsLive
    BY DEF Inv
  <1> QED BY <1>1, Invariant, PTL

\* A client is only ever paired with the child that was launched for it.
THEOREM OnlyOwnChild == Spec => []Paired
  <1>1. Inv => Paired
    BY DEF Inv, TypeOK, Paired, Unshared, Children, Connected, Arrived
  <1> QED BY <1>1, Invariant, PTL

-----------------------------------------------------------------------------
(* The loop implements Pairing. *)

\* What a step may do to the clients of a child that was launched before it: it
\* gives it to nobody, and takes no connection back.
Faithful(p) ==
    /\ kid[p] # "none" =>
          /\ kid'[p] # "none"
          /\ \A fd \in Fds : client'[fd].pid = p =>
                /\ client[fd].pid = p
                /\ client[fd].buddy = "CONNECTED" => client'[fd].buddy = "CONNECTED"
    /\ kid[p] = "none" /\ kid'[p] # "none" =>
          \E fd \in colist' : client'[fd].pid = p /\ client'[fd].buddy = "LAUNCHED"

LEMMA SessionMoves ==
    ASSUME Inv, Inv', NEW p \in Pids, Faithful(p)
    PROVE  SessionOf(p)' # SessionOf(p) => <<SessionOf(p), SessionOf(p)'>> \in Sessions!Moves
  <1> DEFINE Has(fd) == client[fd].pid = p
             Serves(fd) == Has(fd) /\ client[fd].buddy = "CONNECTED"
  <1>1. /\ \A fd \in Fds : Has(fd) => fd \in colist
        /\ colist \subseteq Fds
        /\ \A f, g \in Fds : Has(f) /\ Has(g) => f = g
    BY NoPidAssumption DEF Inv, Slots, Unshared, TypeOK, new_wsclient
  <1>2. /\ \A f, g \in Fds : Has(f)' /\ Has(g)' => f = g
        /\ colist' \subseteq Fds
    BY NoPidAssumption DEF Inv, Unshared, TypeOK
  <1>3. CASE kid[p] = "none" /\ kid'[p] = "none"
    BY <1>3 DEF SessionOf
  <1>4. CASE kid[p] = "none" /\ kid'[p] # "none"
    <2>1. PICK fd \in colist' : Has(fd)' /\ client'[fd].buddy = "LAUNCHED"
      BY <1>4 DEF Faithful
    <2>2. \A g \in colist' : Has(g)' => g = fd
      BY <1>2, <2>1
    <2>3. SessionOf(p) = "none" /\ SessionOf(p)' = "waiting"
      BY <1>4, <2>1, <2>2 DEF SessionOf
    <2> QED BY <2>3 DEF Sessions!Moves
  <1>5. CASE kid[p] # "none"
    <2>1. kid'[p] # "none"
      BY <1>5 DEF Faithful
    <2>2. \A fd \in colist' : Has(fd)' => Has(fd) /\ (Serves(fd) => Serves(fd)')
      BY <1>2, <1>5 DEF Faithful
    <2>3. SessionOf(p)' \in {"waiting", "serving", "over"}
      BY <2>1 DEF SessionOf
    <2>4. CASE \E fd \in colist : Serves(fd)
      <3>1. SessionOf(p) = "serving"
        BY <1>5, <2>4 DEF SessionOf
      <3>2. \A fd \in colist' : Has(fd)' => Serves(fd)'
        BY <1>1, <1>2, <2>2, <2>4
      <3>3. SessionOf(p)' \in {"serving", "over"}
        BY <2>1, <3>2 DEF SessionOf
      <3> QED BY <3>1, <3>3 DEF Sessions!Moves
    <2>5. CASE /\ \A fd \in colist : ~Serves(fd)
               /\ \E fd \in colist : Has(fd)
      <3>1. SessionOf(p) = "waiting"
        BY <1>5, <2>5 DEF SessionOf
      <3> QED BY <2>3, <3>1 DEF Sessions!Moves
    <2>6. CASE \A fd \in colist : ~Has(fd)
      <3>1. SessionOf(p) = "over"
        BY <1>5, <2>6 DEF SessionOf
      <3>2. \A fd \in colist' : ~Has(fd)'
        BY <1>1, <1>2, <2>2, <2>6
      <3>3. SessionOf(p)' = "over"
        BY <2>1, <3>2 DEF SessionOf
      <3> QED BY <3>1, <3>3
    <2> QED BY <2>4, <2>5, <2>6
  <1> QED BY <1>3, <1>4, <1>5

\* A step that launches nobody, and leaves each client with its child, or closes it.
LEMMA FaithfulStep ==
    ASSUME NEW p \in Pids,
           kid[p] # "none" <=> kid'[p] # "none",
           \A fd \in Fds : \/ client'[fd] = new_wsclient
                           \/ /\ client'[fd].pid = client[fd].pid
                              /\ client'[fd].buddy \in {client[fd].buddy, "CONNECTED"}
    PROVE  Faithful(p)
  BY NoPidAssumption DEF Faithful, new_wsclient

LEMMA LoopIsFaithful == ASSUME Inv, [Next]_vars, NEW p \in Pids PROVE Faithful(p)
  <1>0. /\ client \in [Fds -> WSClient] /\ kid \in [Pids -> KidStates]
        /\ colist \subseteq Fds
    BY DEF Inv, TypeOK
  <1>1. CASE UNCHANGED <<client, kid>>
    BY <1>1, FaithfulStep
  <1>2. CASE handle_ws_accept
    <2>1. kid' = kid /\ (\/ client' = client
                         \/ \E fd \in Fds, b \in RefuseEffects : client' = [client EXCEPT ![fd].bits = b])
      BY <1>2 DEF handle_ws_accept
    <2>2. \A fd \in Fds : client'[fd].pid = client[fd].pid /\ client'[fd].buddy = client[fd].buddy
      BY <1>0, <2>1 DEF WSClient
    <2> QED BY <2>1, <2>2, FaithfulStep
  <1>3. CASE handle_us_accept
    <2>1. kid' = kid /\ (\/ client' = client
                         \/ \E fd \in Fds : client' = [client EXCEPT ![fd].buddy = "CONNECTED"])
      BY <1>0, <1>3 DEF handle_us_accept
    <2>2. \A fd \in Fds : /\ client'[fd].pid = client[fd].pid
                          /\ client'[fd].buddy \in {client[fd].buddy, "CONNECTED"}
      BY <1>0, <2>1 DEF WSClient
    <2> QED BY <2>1, <2>2, FaithfulStep
  <1>4. CASE Timeout
    <2> DEFINE late == {fd \in colist : Overdue(client[fd])}
    <2>1. PICK bits \in [Fds -> SUBSET LoopBits] :
             client' = [fd \in Fds |-> IF fd \in late THEN new_wsclient
                                       ELSE [client[fd] EXCEPT !.bits = bits[fd]]]
      BY <1>4 DEF Timeout
    <2>2. \A fd \in Fds : \/ client'[fd] = new_wsclient
                          \/ client'[fd].pid = client[fd].pid /\ client'[fd].buddy = client[fd].buddy
      BY <1>0, <2>1, BitsType
    <2>3. kid' = kid
      BY <1>4 DEF Timeout
    <2> QED BY <2>2, <2>3, FaithfulStep
  <1>5. CASE \E fd \in Fds : Visit(fd)
    <2>1. PICK fd \in Fds : Visit(fd)
      BY <1>5
    <2>2. fd \in colist
      BY <2>1 DEF Visit, Inv, WalkIsLive
    <2>3. PICK o \in Visited(fd) :
             /\ \/ o.fate = "close" /\ handle_tcp_close(fd)
                \/ /\ o.fate # "close"
                   /\ client' = [client EXCEPT ![fd] = o.client]
                   /\ colist' = colist
             /\ kid' = [q \in Pids |-> IF q = o.client.pid /\ q # client[fd].pid
                                       THEN "running" ELSE kid[q]]
      BY <2>1 DEF Visit
    <2>4. /\ SameChild(client[fd], o.client) \/ LaunchedFor(client[fd], o.client)
          /\ o.fate = "close" => SameChild(client[fd], o.client)
      BY VisitOutcome DEF Inv
    <2>5. /\ client'[fd] = IF o.fate = "close" THEN new_wsclient ELSE o.client
          /\ \A g \in Fds \ {fd} : client'[g] = client[g]
      BY <1>0, <2>3 DEF handle_tcp_close
    <2>6. CASE SameChild(client[fd], o.client)
      <3>1. kid'[p] = kid[p]
        BY <1>0, <2>3, <2>6 DEF SameChild
      <3>2. \A g \in Fds : \/ client'[g] = new_wsclient
                           \/ /\ client'[g].pid = client[g].pid
                              /\ client'[g].buddy \in {client[g].buddy, "CONNECTED"}
        BY <2>5, <2>6 DEF SameChild
      <3> QED BY <3>1, <3>2, FaithfulStep
    <2>7. CASE LaunchedFor(client[fd], o.client) /\ o.fate # "close"
      <3>1. /\ client'[fd] = o.client /\ o.client.buddy = "LAUNCHED"
            /\ o.client.pid \in Pids /\ kid[o.client.pid] = "none"
            /\ client[fd].pid = NoPid /\ colist' = colist
        BY <2>3, <2>5, <2>7 DEF LaunchedFor, Inv, Children
      <3>2. p # o.client.pid => kid'[p] = kid[p]
        BY <2>3
      <3>3. p = o.client.pid => kid[p] = "none"
        BY <3>1
      <3> QED BY <2>2, <2>5, <3>1, <3>2, <3>3 DEF Faithful
    <2> QED BY <2>4, <2>6, <2>7 DEF LaunchedFor, SameChild
  <1>6. CASE \E q \in Pids : KidConnects(q) \/ KidTalks(q) \/ KidExits(q)
    <2>1. PICK q \in Pids, to \in Arrived, from \in {"running", "mute", "talking"} : KidStep(q, from, to)
      BY <1>6 DEF KidConnects, KidTalks, KidExits, Arrived
    <2>2. client' = client /\ (kid[p] # "none" <=> kid'[p] # "none")
      BY <1>0, <2>1 DEF KidStep, Arrived
    <2> QED BY <2>2, FaithfulStep
  <1>7. CASE \E fd \in Fds : TimePasses(fd)
    <2>1. \A g \in Fds : client'[g].pid = client[g].pid /\ client'[g].buddy = client[g].buddy
      BY <1>0, <1>7 DEF TimePasses, WSClient
    <2>2. kid' = kid
      BY <1>7 DEF TimePasses
    <2> QED BY <2>1, <2>2, FaithfulStep
  <1>8. Select \/ us_on_connected \/ NoAccept \/ EndWalk \/ Dead => UNCHANGED <<client, kid>>
    BY DEF Select, us_on_connected, NoAccept, EndWalk, Dead, vars
  <1> QED BY <1>1, <1>2, <1>3, <1>4, <1>5, <1>6, <1>7, <1>8 DEF Next, Loop, vars

\* Every step of the loop, of the children and of time is a step of Pairing, or
\* none: the broker implements it.
THEOREM RefinesPairing == Spec => ImplementsPairing
  <1> DEFINE session == [p \in Pids |-> SessionOf(p)]
  <1>1. Init => Sessions!Init
    BY DEF Init, Sessions!Init, SessionOf
  <1>2. Inv /\ [Next]_vars => [Sessions!Next]_session
    <2> SUFFICES ASSUME Inv, [Next]_vars PROVE Sessions!Next
      OBVIOUS
    <2>1. Inv'
      BY Inductive
    <2>2. \A p \in Pids : SessionOf(p)' # SessionOf(p) => <<SessionOf(p), SessionOf(p)'>> \in Sessions!Moves
      BY <2>1, LoopIsFaithful, SessionMoves
    <2>3. session' = [p \in Pids |-> SessionOf(p)']
      OBVIOUS
    <2>4. \A p \in Pids : SessionOf(p)' \in Sessions!Stages
      BY DEF SessionOf, Sessions!Stages
    <2> HIDE DEF session
    <2> QED BY <2>2, <2>3, <2>4 DEF Sessions!Next, session
  <1> QED BY <1>1, <1>2, Invariant, PTL DEF Spec, ImplementsPairing, Sessions!Spec
=============================================================================
