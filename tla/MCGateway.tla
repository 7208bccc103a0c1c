------------------------------ MODULE MCGateway ------------------------------
(* Instance of Gateway for TLC.  The hub: one connection of a manager and    *)
(* one of an admin; two messages to the manager and one to the admins.  The  *)
(* audit log: four calls, a channel and batches of two entries.              *)
EXTENDS Gateway

MCConns == {"c", "a"}
MCKey == [c \in MCConns |-> IF c = "a" THEN "admin" ELSE "m1"]
MCMessages == {"b1", "b2", "b3"}
MCTo == [b \in MCMessages |-> IF b = "b1" THEN "admin" ELSE "m1"]
=============================================================================
