------------------------------ MODULE Pairing ------------------------------
(***************************************************************************)
(* What the broker promises for each child process it launches: the child  *)
(* waits for its page's session, serves that session once it has           *)
(* connected, and when the session is over it is never adopted again.      *)
(***************************************************************************)
CONSTANT Pids

VARIABLE session

Stages == {"none", "waiting", "serving", "over"}

Moves == {<<"none", "waiting">>,      \* a page opened and the child was launched
          <<"waiting", "serving">>,   \* the child connected
          <<"waiting", "over">>,      \* the page left first, or the child came too late
          <<"serving", "over">>}      \* the page left, or the child exited

Init == session = [p \in Pids |-> "none"]

Next == /\ session' \in [Pids -> Stages]
        /\ \A p \in Pids : session'[p] # session[p] => <<session[p], session'[p]>> \in Moves

Spec == Init /\ [][Next]_session
=============================================================================
