CONSTANTS
    LineLength = 86
    YRes = 43
    Prompts <- MCPrompts
    Bodies <- MCBodies
    Faces <- MCFaces
    Glyph <- MCGlyph
    Pauses = {0, 250, 999, 1000, 3000, 5000}
SPECIFICATION Spec
INVARIANTS ShapesAreWhole TerminalRestored PausesKept
CHECK_DEADLOCK FALSE
