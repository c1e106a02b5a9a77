----------------------------- MODULE MCCaptures -----------------------------
(* The files of captures, between analysis and cleanup.                     *)
EXTENDS StorageRetention

(* One channel capture and one original, units of 2 and 1 for IQ and sidecar, *)
(* and one change of policy: from none to a limit.                            *)
MCCaptures == {1}
MCOriginals == {2}
MCSize == [kind \in Kinds |-> IF kind = "iq" THEN 2 ELSE 1]
Unlimited == [auto |-> FALSE, quarantine |-> TRUE, hours |-> 2, days |-> 1, cap |-> 0]
OnePair == [auto |-> TRUE, quarantine |-> TRUE, hours |-> 1, days |-> 0, cap |-> 5]
MCPolicies == {OnePair}
=============================================================================
