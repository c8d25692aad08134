------------------------------ MODULE MCDelivery ------------------------------
(* Small instances of Delivery: every endpoint asks for every event. *)
EXTENDS Delivery

AllJobs == Events \X Endpoints
==============================================================================
