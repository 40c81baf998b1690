---------------------------- MODULE MCBallotRules ----------------------------
(* Texts that collide once trimmed, a blank one, one too long; every       *)
(* second instant can be stored.                                           *)
EXTENDS BallotRules

MCRawTexts == {"a", " a", "b", "c", " ", "long"}
MCTrim == [raw \in MCRawTexts |-> CASE raw = " a" -> "a" [] raw = " " -> "" [] OTHER -> raw]
=============================================================================
