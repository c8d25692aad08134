---------------------------- MODULE RenewalClaims ----------------------------
(***************************************************************************)
(* What a period claim (claims.ts) is good for.  Renewal's engine, with a  *)
(* history of the claims that were given back over money already taken:    *)
(* deleted by the catch of prepareRenewal or of redeemPrepared.            *)
(*                                                                         *)
(* The catches are the only places that delete a claim; a restart deletes  *)
(* none, and neither does a finish that throws after the pull.             *)
(***************************************************************************)
EXTENDS Renewal

VARIABLE givenBack   \* history: [subscription, period key] of such claims

claimVars == <<vars, givenBack>>

ClaimsInit == Init /\ givenBack = {}

\* A pass that goes on has dropped a subscription it was preparing or redeeming.
Caught(t, s) ==
    /\ At(t, s, {"select", "ready"})
    /\ job'[t][s] = Out
    /\ pass'[t] = pass[t]

GiveBack ==
    givenBack' = givenBack \cup
        {key \in claims \ claims' : /\ key[2] \in pulledKeys'[key[1]]
                                    /\ \E t \in Ticks : Caught(t, key[1])}

ClaimsNext == Next /\ GiveBack

ClaimsSpec == ClaimsInit /\ [][ClaimsNext]_claimVars

\* A second pull for a period needs a claim that was given back: a redeem that landed
\* and was seen as failed, or a row that could not be written and then, in a later
\* pass, a preparation that failed.  Nothing else is enough: no restart between claim,
\* pull and row, no overlap of a pass with requests, no row left behind, no resumed
\* bridge, whose failure releases the claim as well, and no settlement in between.
TakenAgainOnlyGivenBack ==
    [][\A s \in Subs :
         collected'[s] # collected[s]
         => \/ pulledKeys'[s] # pulledKeys[s]
            \/ <<s, sub[s].periodEnd>> \in givenBack]_claimVars
==============================================================================
