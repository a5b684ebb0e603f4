---------------------------- MODULE MCGuardedPage ----------------------------
(* Instances of GuardedPage for TLC.                                       *)
EXTENDS GuardedPage

Given(name, code) == [name |-> name, code |-> code]
Dev   == Given("dev", "plum")
Round ==
  [entries |-> <<Given("ghost", "oak"), Given("anna", "oak"), Dev, Given("late", "")>>,
   secret  |-> "s1"]

\* Two testers, and two entries that are overridden or have no code; the same
\* without a secret; a tester less, with the same secret and the next one; and
\* nobody at all.
Deployments ==
  {Round, [Round EXCEPT !.secret = "unset"],
   [Round EXCEPT !.entries = <<Dev>>],
   [entries |-> <<Dev>>, secret |-> "s2"], [entries |-> <<>>, secret |-> "s1"]}
=============================================================================
