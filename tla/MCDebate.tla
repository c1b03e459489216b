------------------------------ MODULE MCDebate ------------------------------
(* Two voices on the fast backend and one on the strong one: multipliers 3,  *)
(* 2 and 1 over three critique rounds; the voice that sits the first critique *)
(* round out writes two drafts.                                              *)
EXTENDS Debate

CONSTANTS spt, olmo

MCBackends == {spt, olmo}
MCBackendOf == <<spt, spt, olmo>>
MCMultiplier == <<3, 2, 1>>
MCDraftCap == <<1, 2, 1>>
MCWeight == <<3, 2, 1>>
MCCost == <<0, 0, 10>>
MCCanSynthesise == 1..3
MCScores == {0, 2, 3}
=============================================================================
