--------------------------- MODULE MCFeedbackIndex ---------------------------
(* An instance of FeedbackIndex for TLC: four queries, one of them a proper
   prefix of another. *)
EXTENDS FeedbackIndex

Queries == {<<"a">>, <<"a", "b">>, <<"b">>, <<"c">>}
=============================================================================
