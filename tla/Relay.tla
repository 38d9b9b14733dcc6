------------------------------- MODULE Relay --------------------------------
(***************************************************************************)
(* What a tunnel promises to one session, seen from its two ends only: the *)
(* target is dialled at most once, and each end receives a prefix of what  *)
(* the other has sent, in order, while its connection is open.  Nothing is *)
(* promised about how much arrives.                                        *)
(***************************************************************************)
EXTENDS Integers, Sequences

VARIABLES app,      \* the app's connection: "none", "open", "closed"
          target,   \* the connection to the target: "none", "open", "closed"
          up,       \* units the app has sent
          down,     \* units the target has sent
          upGot,    \* what the target received, in order
          downGot   \* what the app received, in order

vars == <<app, target, up, down, upGot, downGot>>

Init ==
  /\ app = "none"
  /\ target = "none"
  /\ up = 0
  /\ down = 0
  /\ upGot = << >>
  /\ downGot = << >>

\* The app connects; a first unit may come with it.
Connect ==
  /\ app = "none"
  /\ app' = "open"
  /\ up' \in {0, 1}
  /\ UNCHANGED <<target, down, upGot, downGot>>

AppSends ==
  /\ app = "open"
  /\ up' = up + 1
  /\ UNCHANGED <<app, target, down, upGot, downGot>>

AppReceives ==
  /\ app = "open"
  /\ Len(downGot) < down
  /\ downGot' = Append(downGot, Len(downGot) + 1)
  /\ UNCHANGED <<app, target, up, down, upGot>>

AppCloses ==
  /\ app = "open"
  /\ app' = "closed"
  /\ UNCHANGED <<target, up, down, upGot, downGot>>

\* Once: a closed connection is never dialled again.
DialTarget ==
  /\ app # "none"
  /\ target = "none"
  /\ target' = "open"
  /\ UNCHANGED <<app, up, down, upGot, downGot>>

\* The tunnel may drop the connection when it fails to carry the unit.
TargetSends ==
  /\ target = "open"
  /\ down' = down + 1
  /\ target' \in {"open", "closed"}
  /\ UNCHANGED <<app, up, upGot, downGot>>

TargetReceives ==
  /\ target = "open"
  /\ Len(upGot) < up
  /\ upGot' = Append(upGot, Len(upGot) + 1)
  /\ UNCHANGED <<app, target, up, down, downGot>>

TargetCloses ==
  /\ target = "open"
  /\ target' = "closed"
  /\ UNCHANGED <<app, up, down, upGot, downGot>>

Next ==
  \/ Connect
  \/ AppSends
  \/ AppReceives
  \/ AppCloses
  \/ DialTarget
  \/ TargetSends
  \/ TargetReceives
  \/ TargetCloses

Spec == Init /\ [][Next]_vars
=============================================================================
