------------------------------ MODULE MCPricing ------------------------------
(* Small instances of Pricing. *)
EXTENDS Pricing, TLC

CONSTANTS s1, s2, g

\* One named tier with the plan's own interval.
MCIntervalOf == g :> PlanInterval

\* The rows bought at a checkout are alike, and so are the requests.
Symmetry == Permutations(Subs \ Legacy) \cup Permutations(Requests)
==============================================================================
