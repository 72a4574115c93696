------------------------------ MODULE QueryWire ------------------------------
(***************************************************************************)
(* What the two ends of one credit-controlled query share: the two pipes of *)
(* the Java process, the protocol limits of proto/chat2db/compat/v1, and    *)
(* the clock.  HostStream models the Rust end and EngineOperation the Java  *)
(* end of the query whose request id is 0; grants and cancellations of that *)
(* query are control requests with ids 1, 2, ...                            *)
(*                                                                          *)
(* The pipes are FIFO: each direction has one writer task that drains one   *)
(* queue.  They are lossless while the process lives; when the generation   *)
(* ends, whatever was in them is lost.                                      *)
(***************************************************************************)
EXTENDS Integers, Sequences

CONSTANTS
  MaxCreditGrant,         \* JDBC_PROTOCOL_LIMIT_MAX_CREDIT_GRANT
  MaxOutstandingCredits   \* JDBC_CREDIT_WINDOW_LIMIT_MAX_OUTSTANDING_CREDITS

ASSUME LimitsAssumption ==
  /\ MaxCreditGrant \in Nat \ {0}
  /\ MaxOutstandingCredits \in Nat

VARIABLES
  toEngine,     \* client envelopes between the host writer and the Java loop
  toHost,       \* server envelopes between the Java writer and the host
  generation,   \* up or ended: the Java process generation
  deadline      \* ahead or passed: the request deadline, the same instant
                \* for the host (RequestCommand.deadline) and for Java
                \* (RequestMeta.deadline_unix_millis)

wireVars == <<toEngine, toHost, generation, deadline>>

Up == generation = "up"

Query == 0

SendToEngine(m) == toEngine' = Append(toEngine, m)
SendToHost(f) == toHost' = Append(toHost, f)

WireInit ==
  /\ toEngine = <<>>
  /\ toHost = <<>>
  /\ generation = "up"
  /\ deadline = "ahead"

\* Time passes on both sides.
DeadlinePasses ==
  /\ deadline = "ahead"
  /\ deadline' = "passed"
  /\ UNCHANGED <<toEngine, toHost, generation>>
=============================================================================
