----------------------- MODULE MCIntegrationSettings ------------------------
(* IntegrationSettings on small manifests: address stands for a required    *)
(* field without a default, channels for a plain field that gates a plain   *)
(* one, webhookUrl, and a secret one, webhookSecret.                        *)
EXTENDS IntegrationSettings, TLC

CONSTANTS address, channels, webhookUrl, webhookSecret

Ungated         == [k \in {} |-> channels]
UngatedSections == {{address}, {channels}}

Gated           == [k \in {webhookUrl, webhookSecret} |-> channels]
GatedSections   == {{address}, {channels, webhookUrl, webhookSecret}}

Symmetry == Permutations(Requests) \cup Permutations(Steps)
=============================================================================
