--------------------------- MODULE MCVersionPins ---------------------------
EXTENDS VersionPins

(* The registry: a chart with a sha to resolve and a checksum to recompute,*)
(* an image pinned with its digest, and a service that is held.            *)
MCOrder == <<"digest", "chart", "held">>
=============================================================================
