------------------------ MODULE MCGlassesController ------------------------
(* GlassesController for TLC: calls are interchangeable.                    *)
EXTENDS GlassesController, TLC

Symmetric == Permutations(Calls)

=============================================================================
