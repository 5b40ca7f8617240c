SPECIFICATION Spec
CONSTANTS
  TFTWIDTH = 3
  TFTHEIGHT = 4
  GLYPHWIDTH = 2
  GLYPHHEIGHT = 2
  FONT <- MCFont
  COORDS = {0, 1, 3}
  SIZES = {0, 3}
  COLORS <- MCColors
  TEXTS <- MCTexts
  MaxCalls = 2
PROPERTIES ImplementsCanvas
