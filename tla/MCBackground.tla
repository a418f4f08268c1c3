---------------------------- MODULE MCBackground ----------------------------
(* Small instances of the background services: the values of Background's   *)
(* constants that a .cfg cannot write down.                                 *)
EXTENDS Background

\* Two files in three commits: one changes and goes away, one comes and goes.
\* A repository that is deleted and made again.  A shorter blob follows a longer one.
ThreeCommits == << << [a |-> 1, b |-> 0], [a |-> 2, b |-> 3], [a |-> 2, b |-> 0] >> >>
MadeAgain    == << << [a |-> 1] >>, << [a |-> 4] >> >>
Lines        == <<2, 1, 1, 1>>

\* A group of two sub-steps, then a plain step.
GroupThenPlain == << {"a", "b"}, {"c"} >>

\* One content is the beginning of the other.
Prefixes == { <<1>>, <<1, 1>> }

=============================================================================
