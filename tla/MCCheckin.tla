------------------------------ MODULE MCCheckin -------------------------------
(* A small instance of Checkin for TLC: one account with two campaigns.    *)
EXTENDS Checkin

CONSTANTS a1, k1, k2

OneAccount == {a1}
TwoCampaigns == {k1, k2}
===============================================================================
