------------------------- MODULE MCExternalSession --------------------------
(* Four hold the ticket: one drives two shapes, one a single one, each asks *)
(* for more than the ticket allows; one asks for a rate that is none and    *)
(* one for more phases than the session has time for.  The slack is what    *)
(* the first's warm-up requests can leave unclaimed, as 4 * 256 = 1024 is   *)
(* in the code.                                                             *)
EXTENDS ExternalSession

CONSTANTS a, b, c, d

MCOffer == [left |-> 5, rate |-> 1, duration |-> 3, workers |-> 1]

Wants(rate, duration, workers, phases) ==
    [rate |-> rate, duration |-> duration, workers |-> workers, phases |-> phases]

MCWanted == [g \in {a, b, c, d} |->
    CASE g = a -> Wants(3, 0, 9, 2)
      [] g = b -> Wants(1, 1, 0, 0)
      [] g = c -> Wants(0, 1, 1, 1)
      [] g = d -> Wants(1, 1, 1, 5)]
=============================================================================
