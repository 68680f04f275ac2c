---------------------------- MODULE MCAssetList ----------------------------
EXTENDS AssetList

MCHome == [f \in File |-> IF f \in {"wav", "tex"} THEN "media" ELSE "models"]

\* A sound is in filters and not in FilterMap.
MCKind == [f \in File |-> CASE f = "wav" -> "unmapped" [] f = "dotted" -> "tex" [] OTHER -> f]
=============================================================================
