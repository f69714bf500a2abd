------------------------------ MODULE MCAppLife ------------------------------
(***************************************************************************)
(* AppLife for TLC: "web" needs "base" and is rendered again when it comes *)
(* or goes; both connectors are base's.  The second release names another  *)
(* data folder.                                                            *)
(***************************************************************************)
EXTENDS AppLife

LifeApps == {"base", "web"}
LifeConns == {"c1", "c2"}

OneNeed == [a \in LifeApps |-> IF a = "web" THEN {"base"} ELSE {}]
OneUser == [a \in LifeApps |-> IF a = "base" THEN {"web"} ELSE {}]
WebMethod == [a \in LifeApps |-> IF a = "web" THEN "oidc" ELSE "gate"]
BaseTools == [c \in LifeConns |-> "base"]
NewFolder == [r \in Releases |-> IF r = 1 THEN "old" ELSE "new"]
=============================================================================
