CONSTANT Inputs <- MCInputs
SPECIFICATION Spec
INVARIANT CursorRestored
INVARIANT HighlightIsShown
INVARIANT DumpIsExact
