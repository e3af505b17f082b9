----------------------------- MODULE MCBuilding -----------------------------
(***************************************************************************)
(* Two sites.  The addon of a building at s1 would stand on a tile of s2;  *)
(* the build order may ask for s1, or for any position.                    *)
(***************************************************************************)
EXTENDS Building, TLC

CONSTANTS s1, s2

MCSites == {s1, s2}
MCArea == s1 :> {1} @@ s2 :> {2}
MCAddon == s1 :> {2} @@ s2 :> {}
MCEntries == {s1, NoPos}

=============================================================================
