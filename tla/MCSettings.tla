----------------------------- MODULE MCSettings -----------------------------
EXTENDS Settings
CONSTANTS p1, p2

\* Two profiles that disagree on every warmth but agree, crosswise, on values.
MCTempOf == [p \in {p1, p2} |-> [w \in Warmths |->
    CASE w = "camera" -> IF p = p1 THEN 4000 ELSE 6000
      [] w = "auto"   -> IF p = p1 THEN 6000 ELSE 4000
      [] OTHER        -> IF p = p1 THEN 4000 ELSE 5000]]
=============================================================================
