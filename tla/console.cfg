SPECIFICATION Spec
CONSTANTS
  GlyphWidth = 2
  GlyphHeight = 3
  MaxText = 9
  Screens <- SmallScreens
INVARIANTS
  GlyphsOnScreen
  PanicShown
PROPERTIES
  PanicEnds
