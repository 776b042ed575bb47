----------------------------- MODULE MCSteering -----------------------------
(* Two radios and one client. *)
EXTENDS Steering

CONSTANTS r1, r2

MCPorts == <<r1, r2>>

\* Requests are followed without frames and frames without requests: the two meet only in the
\* station tables, which both have.
MCDoings == {
  [what |-> {"steer", "response"}, moves |-> 0],
  [what |-> {"boot", "association", "frames"}, moves |-> 2],
  [what |-> {"boot", "association", "restart"}, moves |-> 1]}
=============================================================================
