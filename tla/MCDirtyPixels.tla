--------------------------- MODULE MCDirtyPixels ---------------------------
(* Instances of DirtyPixels for TLC: a screen of four pixels; the child    *)
(* draws a rectangle in one colour, the whole screen, a row, a column, two *)
(* corners or nothing but a line without width.                            *)
EXTENDS DirtyPixels

Rc(left, top, right, bottom) ==
    [left |-> left, top |-> top, right |-> right, bottom |-> bottom]

MCRects == { Rc(0, 0, 2, 2), Rc(0, 1, 2, 2), Rc(1, 0, 2, 2),
             Rc(0, 0, 1, 1), Rc(1, 1, 2, 2), Rc(1, 0, 1, 2) }

MCColors == {"red", "green"}
MCShades == {"#f00", "#0f0"}
MCRgb888 == [c \in MCColors |-> IF c = "red" THEN "#f00" ELSE "#0f0"]
MCPictures == {[p \in Pixels |-> c] : c \in MCColors}
MCRubbish == {[p \in Pixels |-> "#f00"]}
=============================================================================
