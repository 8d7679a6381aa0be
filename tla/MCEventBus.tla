----------------------------- MODULE MCEventBus -----------------------------
(* Model checking of EventBus on small instances. *)
EXTENDS EventBus, TLC

\* Connections are interchangeable, and so are publishers; projects are not,
\* because IdleConn chooses one of them.
Symm == Permutations(Conns) \cup Permutations(Publishers)
=============================================================================
