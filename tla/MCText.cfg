CONSTANTS INT_BITS = 8
          Formats <- MCFormats
          Words <- MCWords
          Strings <- MCStrings
          Size = 8
          Byte = {0, 1}
          VGA_TEXTDISP_WIDTH = 8
          VGA_TEXTDISP_HEIGHT = 2
          Letter = {"a"}
          Colour = {c1, c2}
          blank = blank
          MaxWrites = 4
SPECIFICATION TextSpec
INVARIANTS PrintsArgument LibraryAgrees
PROPERTY ImplementsTerminal
SYMMETRY ColourSymmetry
CHECK_DEADLOCK FALSE
