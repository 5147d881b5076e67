------------------------- MODULE MCRelayRendezvous -------------------------
\* Model values and symmetry for the instances of RelayRendezvous.
EXTENDS RelayRendezvous, TLC

\* Clients, connections and boxes are interchangeable.
Symmetry ==
    Permutations(Clients) \cup Permutations(Generations)
        \cup Permutations(Boxes)
=============================================================================
