----------------------------- MODULE ClientSet -----------------------------
(***************************************************************************)
(* What the select loop needs of its list of clients: a walk visits each   *)
(* of the clients that were there when it began, once, whoever leaves at   *)
(* his visit and whoever joins.  EventLoop has the list in this form, its  *)
(* colist and todo.                                                        *)
(***************************************************************************)
CONSTANT Clients

VARIABLES members, todo, up

vars == <<members, todo, up>>

Init == members = {} /\ todo = {} /\ up = TRUE

Begin == todo = {} /\ todo' = members /\ UNCHANGED <<members, up>>
Visit(c) == c \in todo /\ todo' = todo \ {c} /\ UNCHANGED <<members, up>>
Join(c) == c \notin members /\ members' = members \cup {c} /\ UNCHANGED <<todo, up>>
Leave(c) == c \in members \ todo /\ members' = members \ {c} /\ UNCHANGED <<todo, up>>

\* The process ends, by a signal or a crash; nothing is promised then.
Down == up' = FALSE

Next == \/ up /\ (Begin \/ \E c \in Clients : Visit(c) \/ Join(c) \/ Leave(c))
        \/ Down

Spec == Init /\ [][Next]_vars
=============================================================================
