--------------------------- MODULE MCInstallBatch ---------------------------
(***************************************************************************)
(* Instances of InstallBatch for TLC: app "web" needs app "base"; "tool"   *)
(* needs nothing.                                                          *)
(***************************************************************************)
EXTENDS InstallBatch, TLC

CONSTANTS base, web, tool

ThreeApps == {base, web, tool}
OneByOne == {{web}, {tool}}
WebNeedsBase == [a \in Apps |-> IF a = web THEN {base} ELSE {}]

=============================================================================
