------------------------- MODULE MCTranscribeStage -------------------------
(***************************************************************************)
(* Instances of TranscribeStage for TLC.                                   *)
(*                                                                         *)
(* 1 is stuck: its inherited receipt contradicts its manifest, and it is   *)
(* first in the frontier on every pass.  2 has an error transcript from a  *)
(* pre-fix run.  3 is new, with two chunks.  4 lacks its second chunk.     *)
(***************************************************************************)
EXTENDS TranscribeStage

MCChunks  == [c \in Capture |-> IF c \in {3, 4} THEN 2 ELSE 1]
MCMissing == {<<c, 2>> : c \in Capture \cap {4}}
=============================================================================
