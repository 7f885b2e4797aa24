------------------------------- MODULE MCVote -------------------------------
EXTENDS Vote

CONSTANTS p1, p2, p3

Election(votes, candidate, giveup, pass, toself, timed, bad) ==
    [member_vote |-> votes, candidate |-> candidate, giveup_member |-> giveup,
     pass_vote |-> pass, toself |-> toself, timed |-> timed, bad |-> bad]

NoSupporter(topids) == [topid \in topids |-> {}]

\* The votes of the test (weights 1, 2, 3); an election of one of the members with
\* a lower threshold; a vote of two members that shares them with the others; one
\* that begins with a supporter and a member who gave up; one that nobody has to
\* vote in; and one whose callback fails.
Votes123 == [p \in {p1, p2, p3} |-> CASE p = p1 -> 1 [] p = p2 -> 2 [] p = p3 -> 3]
Votes11  == [p \in {p1, p2} |-> 1]
Begun    == [topid \in {p1, p2} |-> IF topid = p1 THEN {p1} ELSE {}]

MCElections ==
    { Election(Votes123, NoSupporter({Agree}), {}, None, FALSE, TRUE, FALSE),
      Election(Votes123, NoSupporter({p1, p2}), {}, 4, TRUE, FALSE, FALSE),
      Election(Votes11, NoSupporter({p1, p2}), {}, 2, FALSE, TRUE, FALSE),
      Election(Votes123, Begun, {p2}, 3, TRUE, FALSE, FALSE),
      Election(Votes11, NoSupporter({Agree}), {}, 0, FALSE, TRUE, FALSE),
      Election(Votes11, NoSupporter({Agree}), {}, 1, FALSE, TRUE, TRUE) }

=============================================================================
