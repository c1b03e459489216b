-------------------------------- MODULE MCGguf --------------------------------
(* Two requests of two judges or drafts decoded jointly: the smallest case in *)
(* which a batch has more than one set of logits.                             *)
EXTENDS GgufBackend

CONSTANTS voice, x, y

MCVoices == {voice}
MCTokens == {x}
MCPrompts == {<<x, y>>, <<y, x>>}
=============================================================================
