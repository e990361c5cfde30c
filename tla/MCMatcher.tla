------------------------------ MODULE MCMatcher ------------------------------
(* Instances of Matcher for TLC, with the mutated operations of Matcher.   *)
EXTENDS Matcher
=============================================================================
