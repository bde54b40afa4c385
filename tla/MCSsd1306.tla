----------------------------- MODULE MCSsd1306 -----------------------------
(***************************************************************************)
(* Small panels and inputs for TLC.                                        *)
(***************************************************************************)
EXTENDS Ssd1306, TLC

G  == "glyph"
NL == "newline"

\* Texts that stay on the line, fill it, wrap, and start with a new line.
TextMessages == { <<G, G>>, <<NL, G>>, <<G, NL>> }
LineBreak    == { <<NL>> }

\* With SEG = 3 and FONT = 1: the left edge, the last start of a glyph that
\* fits, one too far, outside the panel, and 256 which a uint8_t stores as 0.
EdgeCursors == {0, 1, 2, 200, 256}
EdgeColumns == {0, 1, 200}
EdgeLines   == {0, 1, 9}

\* Cursor positions whose byte, taken for a command, awaits two arguments
\* (33), one (32) or none (0).
OpcodeCursors == {0, 32, 33}

\* The only line, and one whose byte awaits two arguments.
OpcodeLines == {0, 33}

AnyUser == Permutations(Writers)
=============================================================================
