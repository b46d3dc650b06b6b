-------------------------- MODULE MCExtraDataList --------------------------
(***************************************************************************)
(* Instances of ExtraDataList for TLC: two high-use types and two others,  *)
(* one of which two extras share.                                          *)
(***************************************************************************)
EXTENDS ExtraDataList

MCTypeOf ==
    [e \in Extras |->
        CASE e = "h1" -> "keywords" [] e = "h2" -> "startingPosition"
          [] e = "a" -> "health" [] e = "b" -> "rank" [] e = "b2" -> "rank"]
=============================================================================
