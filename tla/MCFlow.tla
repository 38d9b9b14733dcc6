------------------------------- MODULE MCFlow -------------------------------
(* BackPressure with one session and one association, each on its own. *)
EXTENDS BackPressure
CONSTANTS s1, u1

\* A state constraint: once a session has started the association sends and ends
\* nothing, and the other way round.  Only steps that no fairness asks for are cut
\* off (Start, Datagram, SignalsDone).
Apart ==
  (\E s \in Sessions : stage[s] # "idle")
    => \A u \in Assocs : receiving = {} /\ senders[u] = {"control", "relay"}
=============================================================================
