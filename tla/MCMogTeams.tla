----------------------------- MODULE MCMogTeams -----------------------------
(* Small instances of MogTeams for TLC: two users, two teams.              *)
EXTENDS MogTeams, TLC

CONSTANTS h1, h2, red, blue, u1, u2

TwoHandlers == {h1, h2}
TwoTeams == {red, blue}
TwoUsers == {u1, u2}

Ask(kind, name, left, user) ==
  [kind |-> kind, name |-> name, left |-> left, user |-> user, entitled |-> TRUE]

\* u1 moves from red to blue, u2 joins and leaves red; red may be deleted; one
\* refused command of each sort.
MovesOfTwo ==
  {Ask("create", t, NoTeam, u1) : t \in Teams}
    \cup {Ask("leave_and_join", blue, left, u1) : left \in {red, NoTeam}}
    \cup {Ask(kind, red, NoTeam, u) : kind \in {"join", "leave"}, u \in Users}
    \cup {Ask("leave", blue, NoTeam, u1), Ask("del", red, NoTeam, u1),
          Ask("create", NoTeam, NoTeam, u1),
          [Ask("leave", red, NoTeam, u2) EXCEPT !.entitled = FALSE]}

HandlerSymmetry == Permutations(Handlers)
=============================================================================
