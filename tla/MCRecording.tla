----------------------------- MODULE MCRecording ------------------------------
(* A small instance of Recording for TLC: two requests against a log of one    *)
(* entry, one account fetch, one failing save and one crash.                   *)
EXTENDS Recording

CONSTANTS r1, r2

TwoRequests == {r1, r2}
OneRequest == {r1}
===============================================================================
