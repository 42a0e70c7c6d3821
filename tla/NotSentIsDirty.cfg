SPECIFICATION Spec
CONSTANTS
    Width = 2
    Height = 2
    Colors <- MCColors
    Shades <- MCShades
    Rgb888 <- MCRgb888
    Blank = Blank
    ChildRects <- MCRects
    Pictures <- MCPictures
    Rubbish <- MCRubbish
    Slow = TRUE
    MaxDraws = 2
    PipeLimit = 1
INVARIANT
    NotSentIsDirty
\* the child has drawn all it will, or the connection ends
CHECK_DEADLOCK FALSE
