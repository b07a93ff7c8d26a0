------------------------------- MODULE MCSources -------------------------------
(* What feeds a store, side by side, for TLC: the runs that read a repository's *)
(* checkout, the demo seed, and one read of the client, which the seed's graph  *)
(* source is made of.  They share nothing, so each is explored while the others *)
(* have not begun.                                                              *)
EXTENDS Checkout, Seed, PagedRead

CONSTANTS c1, c2

V(a, b, c) == <<a, b, c>>
Incident(pin, bad, fix, released) ==
    [pin |-> pin, bad |-> bad, fix |-> fix, released |-> released]

\* The incident of the overlapping invocations, and all others of small versions.
Standard == Incident(V(1, 0, 1), V(1, 1, 0), V(1, 1, 1), TRUE)
MCOffered ==
    {i \in {Incident(pin, bad, V(2, 2, 2), released) :
                pin, bad \in (Versions \ {NotNumeric}) \ {V(2, 2, 2)}, released \in BOOLEAN} :
        i.bad # i.pin} \union {Standard}

checkoutVars == vars

CheckoutAtRest == vars = <<isLocal, 1, {1}, {}, NoDirectory, "idle", {}, 0>>
SeedAtRest == artifact = NoFile /\ node = {} /\ \A c \in Invocations : call[c] = Idle

\* An empty result and no cap stand for the read while it has not begun.
ReadAtRest == total = 0 /\ rowCap = NoCap /\ result = "reading" /\ lastId = 0
                /\ attempt = 0 /\ restarts = 0

MCInit == Init /\ SeedInit /\ ReadInit /\ (incident = Standard \/ ReadAtRest)

\* Of the other incidents only the plan is made.
Planning == \E c \in Invocations : Collect(c) \/ Plan(c)

\* A read that has ended has nothing left to do.
ReadOver == result # "reading" /\ UNCHANGED readVars

MCNext ==
    \/ SeedAtRest /\ incident = Standard /\ ReadAtRest
         /\ Next /\ UNCHANGED <<seedVars, readVars>>
    \/ CheckoutAtRest /\ ReadAtRest /\ UNCHANGED <<checkoutVars, readVars>>
         /\ IF incident = Standard THEN SeedNext ELSE Planning
    \/ CheckoutAtRest /\ SeedAtRest /\ incident = Standard
         /\ UNCHANGED <<checkoutVars, seedVars>> /\ (ReadNext \/ ReadOver)

MCSpec == MCInit /\ [][MCNext]_<<checkoutVars, seedVars, readVars>> /\ Fairness
=============================================================================
