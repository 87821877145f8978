------------------------- MODULE MCJoinCredentials -------------------------
(***************************************************************************)
(* JoinCredentials for TLC: two controllers, with a token of each.         *)
(***************************************************************************)
EXTENDS JoinCredentials, TLC

CONSTANTS a, b, a1, b1

TwoCtl == {a, b}
TwoTokens == {a1, b1}
IssuerOf2 == (a1 :> a) @@ (b1 :> b)

Names ==
  {"", Main, "other", "controller", "join_token", "agent_id", "agent_secret"}

FirstCred == [ctl |-> a, n |-> 1]

\* No file, one that a person broke, and one that has joined, with an option
\* before the section. A token beside the credentials comes of a command.
InitialFiles ==
  {Missing,
   <<Header(Main), Option("controller", Broken), Other, Header("other")>>,
   <<Option("agent_id", Empty), Header(Main), Option("controller", a), Other,
     Option("agent_id", FirstCred), Option("agent_secret", FirstCred), Other>>}
=============================================================================
