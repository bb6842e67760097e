---------------------------- MODULE MCInterfaces ----------------------------
(* Interfaces with a server and one client, which share two regions.         *)
EXTENDS Interfaces, TLC

CONSTANTS srv, c1, r1, r2

MCSetup  == srv :> <<r1, r2>> @@ c1 :> <<r2, r1>>
\* The server has address 1, the client 2 in one region and 3 in the other.
MCOwn    == r1 :> 1 @@ r2 :> 1
MCRemote == r1 :> 2 @@ r2 :> 3
\* The client takes any address.
MCListen == srv :> 1 @@ c1 :> 0
MCStarts == srv :> 2 @@ c1 :> 1
=============================================================================
