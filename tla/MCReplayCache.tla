--------------------------- MODULE MCReplayCache ---------------------------
EXTENDS ReplayCache, TLC

CONSTANTS c1, c2, c3

ClientSymmetry == Permutations(Clients)

\* Two calls at a time, the only ones to write to the storage.
Alone ==
  [calls |-> 2, writes |-> TRUE, external |-> {}, missingParents |-> FALSE,
   staleMarks |-> FALSE, inboundEvents |-> FALSE, times |-> {1, 2},
   failures |-> {"opening", "emit", "ingest"}]

\* One call at a time, beside another program whose writes are announced.
Shared ==
  [calls |-> 1, writes |-> TRUE, external |-> {"MKDIR"}, missingParents |-> FALSE,
   staleMarks |-> TRUE, inboundEvents |-> FALSE, times |-> {1, 2},
   failures |-> {"emit"}]

\* One reader at a time of what a sync engine brings, in any order.
Mirror ==
  [calls |-> 1, writes |-> FALSE, external |-> {"MKDIR"}, missingParents |-> TRUE,
   staleMarks |-> TRUE, inboundEvents |-> TRUE, times |-> {1},
   failures |-> {"opening"}]

OrderlyHosts == {Alone, Shared, Mirror}

\* A program that writes and is told of inbound events.
InboundHosts ==
  {[Shared EXCEPT !.staleMarks = FALSE, !.inboundEvents = TRUE]}

\* Two readers at a time beside a program whose writes are announced.
TwoReadersHosts == {[Shared EXCEPT !.calls = 2, !.writes = FALSE]}

=============================================================================
