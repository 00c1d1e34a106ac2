------------------------- MODULE MCSymbolResolution -------------------------
EXTENDS SymbolResolution, ResolutionInputs

HiddenInputs == {WeakHidden}
=============================================================================
