------------------------- MODULE MCIntegrationSync --------------------------
(* IntegrationSync on a small instance. *)
EXTENDS IntegrationSync, TLC

\* A bound: behaviours in which more than two of the four kinds of events have
\* happened are not followed further.
TwoKindsOfEvents == Cardinality(happened) <= 2

Symmetry == Permutations(Jobs) \cup Permutations(Requests) \cup Permutations(Integrations) \cup Permutations(Late)

=============================================================================
