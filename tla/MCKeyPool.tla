----------------------------- MODULE MCKeyPool -----------------------------
(* -keypool=1, two reservations (a miner's and a payment's) and up to seven keys *)
EXTENDS KeyPool

CONSTANTS miner, payment, none
=============================================================================
