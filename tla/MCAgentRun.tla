----------------------------- MODULE MCAgentRun -----------------------------
(* AgentRun for TLC: configurations whose values overlap, extend and       *)
(* repeat one another, one too short to be masked and one with a star.     *)
EXTENDS AgentRun

MCConfigs == {"c1", "c2"}
MCValues == [c1 |-> << <<"a", "b">>, <<"b">>, <<"b", "a", "b">>, <<"a", "*">> >>,
             c2 |-> << <<"a", "b", "a">>, <<"a", "b">>, <<"b", "b">> >>]
MCChars == {"a", "b", "*"}
MCTexts == UNION {[1..n -> {"a", "b"}] : n \in 0..2}
=============================================================================
