------------------------------ MODULE MCBundle ------------------------------
(* A model with an anchor and two companions, one engine built alone and one *)
(* that is only downloaded.                                                  *)
EXTENDS EngineBundle

MCComp(s) == IF s = "step0" THEN {"step1", "step2"} ELSE {}
MCOnnx(s) == IF s = "step0" THEN {"encoder"} ELSE {}
=============================================================================
