------------------------- MODULE MCSemanticRelease -------------------------
EXTENDS SemanticRelease

\* The last patch of a 0.x.
SomeVersion == <<0, 1, 1>>
=============================================================================
