--------------------------- MODULE MCAssetDelivery ---------------------------
(* Instances of AssetDelivery for TLC.                                      *)
EXTENDS AssetDelivery, TLC

CONSTANTS w1, w2, r1, r2

ExtractOnly == 1 :> "extract_audio"
===============================================================================
