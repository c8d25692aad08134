--------------------------- MODULE MCRenewalClaims ---------------------------
(* Small instances of RenewalClaims: those of Renewal, with its history. *)
EXTENDS MCRenewal, RenewalClaims
==============================================================================
