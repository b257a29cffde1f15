------------------------------ MODULE MCIngest ------------------------------
(* A small instance of Ingest with the default scores of the code: one      *)
(* device, which is where the handlers meet, and two places too far apart   *)
(* for one step.                                                            *)
EXTENDS Ingest, TLC

CONSTANTS d1, slow, maria

MCMaxSpeed == slow :> 1

\* Handlers that overlap, and many messages one after the other.
Busy   == [names |-> TRUE, faulty |-> TRUE, expiry |-> TRUE, delay |-> 1, messages |-> 4,
           handlers |-> 2, timeouts |-> 1]
Calm   == [names |-> FALSE, faulty |-> TRUE, expiry |-> FALSE, delay |-> 0, messages |-> 6,
           handlers |-> 1, timeouts |-> 2]
MCLoad == {Busy, Calm}

\* One after the other, and nothing fails.
MCFaultless == {[Calm EXCEPT !.faulty = FALSE, !.timeouts = 0, !.messages = 6]}
=============================================================================
