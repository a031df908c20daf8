---------------------------- MODULE MCOnboarding ----------------------------
(* Onboarding for TLC. *)
EXTENDS Onboarding

CONSTANTS e1, e2, e3, m1, m2, m3, n1

\* Three people of one name, two of them with one number, and a number that is
\* not accepted.
MCForms == {[email |-> f[1], phone |-> [prefix |-> f[2], number |-> f[3]], name |-> n1] :
              f \in {<<e1, "0", m1>>, <<e2, "0", m1>>, <<e3, "+234", m2>>, <<e1, "0", m3>>}}

\* One number, with the country code and without.
MCSpellings == {[email |-> f[1], phone |-> [prefix |-> f[2], number |-> m1], name |-> n1] :
                  f \in {<<e1, "0">>, <<e2, "+234">>}}

\* One that is accepted and one that is not.
MCBvns == {[first |-> 2, alike |-> repeated] : repeated \in BOOLEAN}
=============================================================================
