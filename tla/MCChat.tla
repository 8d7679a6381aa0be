------------------------------- MODULE MCChat -------------------------------
(* Model checking of Chat on small instances. *)
EXTENDS Chat, TLC

CONSTANTS b1, b2

\* b1 has chatted before and its conversation was evicted since: the shortest
\* way to a browser whose cookie lets it have two requests under way in one
\* session.
ReturningInit ==
    /\ nextID = 1 /\ sends = 1 /\ made = 1
    /\ convs = [s \in Sessions |-> NoConv]
    /\ evictor = NoSession
    /\ msgs = [c \in Convs |-> << >>]
    /\ lock = [c \in Convs |-> "free"]
    /\ stale = [c \in Convs |-> FALSE]
    /\ cookie = [b \in Browsers |-> IF b = b1 THEN 1 ELSE NoSession]
    /\ req = [r \in Requests |-> Idle]
    /\ events = 0 /\ restarts = 0
    /\ forgotten = [s \in Sessions |-> {}]
    /\ dropped = {}

ReturningSpec == ReturningInit /\ [][Next]_vars
ReturningFairSpec ==
    ReturningSpec /\ WF_vars(Evicted) /\ \A r \in Requests : SF_vars(Step(r))

=============================================================================
