----------------------------- MODULE MCRequests -----------------------------
(* Two files; the user's name and password or nothing in the environment, a token
   or the means to ask for one, or an endpoint in the configuration file. *)
EXTENDS RVRequests

CONSTANTS u1

MCEnvironments == {{"none", u1}, {"token", "expired", "secret", "device"}, {"config"}}
=============================================================================
