-------------------------- MODULE MCRunPublication --------------------------
(* Two processes executing one configuration.                              *)
EXTENDS RunPublication, TLC

MCStamps == 0 .. 4

=============================================================================
