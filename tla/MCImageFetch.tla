---------------------------- MODULE MCImageFetch ----------------------------
(* ImageFetch for TLC: the core job downloads "voice" ahead while an install *)
(* fetches "voice" and "chat"; both are built on the layer "base", the only  *)
(* one that spans two ranges and that an image Docker has may list.          *)
EXTENDS ImageFetch

TwoCallers == [f \in {"ahead", "install"} |->
                 IF f = "ahead" THEN <<"voice">> ELSE <<"voice", "chat">>]
TwoImages  == [i \in {"chat", "voice"} |-> IF i = "chat" THEN {"base", "app"} ELSE {"base"}]
TwoRanges  == [l \in {"base", "app"} |-> IF l = "base" THEN 2 ELSE 1]
BaseFirst  == <<"base", "app">>
=============================================================================
