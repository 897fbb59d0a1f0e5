----------------------------- MODULE MCOpenvpn -----------------------------
(* Two runs, for one client or for two, and two installations. *)
EXTENDS OpenvpnInstall, TLC

CONSTANTS r1, r2, alice, bob
MCRuns     == {r1, r2}
MCNames    == {alice, bob}
MCSymmetry == Permutations(MCRuns) \cup Permutations(MCNames)
=============================================================================
