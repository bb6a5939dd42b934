------------------------------- MODULE Screen -------------------------------
(***************************************************************************)
(* The screen of the kernel, hl/fbdev.cc: debug output (kd/dbgio.cc) is    *)
(* drawn into the frame buffer of the firmware, or into a shadow of it     *)
(* from which what was drawn is copied.                                    *)
(*                                                                         *)
(* Pixels are numbered as they lie in memory, Pitch of them to a line; a   *)
(* glyph is the set of pixels it inks.  Output is under DebugIoLock at     *)
(* HIGH_LEVEL, so a character is one step.                                 *)
(***************************************************************************)
EXTENDS Integers, Sequences

CONSTANTS Displays,     \* sequence of displays, [width, height, pitch]
          FontWidth, FontHeight,
          Glyphs,       \* the pixels of each character, [character -> set of <<x, y>>]
          TabStop       \* columns between tab stops, 8

ASSUME ScreenAssumption ==
    /\ {FontWidth, FontHeight, TabStop} \subseteq Nat \ {0}
    /\ \A i \in DOMAIN Displays :
           /\ Displays[i].pitch >= Displays[i].width
           /\ Displays[i].width > 1 /\ Displays[i].height > FontHeight

VARIABLES display,      \* the display in use
          screen,       \* FrameBufferData, ScrollRegionData and both buffers, a record
          terminal      \* what the text should look like, a record

screenVars == <<display, screen, terminal>>

Font == DOMAIN Glyphs
NoBuffer == <<>>
Pixels(d) == 0..(d.pitch * d.height - 1)
Pixel(d, x, y) == y * d.pitch + x
Shadowed == screen.shadow # NoBuffer
Drawn == IF Shadowed THEN screen.shadow ELSE screen.vram     \* the target buffer

(* The scroll region is the screen but for its last line and column, and   *)
(* its bottom is a multiple of the font's height.                          *)
RegionLeft == 0
RegionTop == 0
RegionRight(d) == d.width - 1
RegionBottom(d) == RegionTop + ((d.height - 1 - RegionTop) \div FontHeight) * FontHeight

ScreenInit ==
    /\ display \in DOMAIN Displays
    /\ screen = [ready |-> FALSE, region |-> FALSE, x |-> 0, y |-> 0, ground |-> "old",
                 vram |-> [o \in Pixels(Displays[display]) |-> "old"], shadow |-> NoBuffer]
    /\ terminal = [row |-> 0, column |-> 0, text |-> NoBuffer]

----------------------------------------------------------------------------
(* InitializeFrameBuffer clears the lines, but not what is between them.   *)
ClearScreen(d, m) ==
    [o \in DOMAIN m |-> IF o % d.pitch < d.width THEN "ground" ELSE m[o]]
ClearOnce(d, s) ==
    IF s.ready THEN s ELSE [s EXCEPT !.ready = TRUE, !.vram = ClearScreen(d, @)]

InitializeFrameBuffer ==
    /\ ~screen.ready
    /\ screen' = ClearOnce(Displays[display], screen)
    /\ UNCHANGED <<display, terminal>>

(* InitializeFrameBufferProvider and InitializeScrollRegion.  The text is  *)
(* as wide as the code wraps it: a column that is cut off counts.          *)
Columns(d) == (RegionRight(d) - RegionLeft + FontWidth - 1) \div FontWidth
Rows(d) == (RegionBottom(d) - RegionTop) \div FontHeight
BlankRow(d) == [c \in 0..(Columns(d) - 1) |-> "blank"]

InitializeScrollRegion(d, s) ==
    [s EXCEPT !.region = TRUE, !.x = RegionLeft, !.y = RegionTop, !.ground = s.vram[Pixel(d, RegionLeft, RegionTop)]]

InitializeFrameBufferProvider ==
    LET d == Displays[display]
    IN  /\ ~screen.region
        /\ screen' = InitializeScrollRegion(d, ClearOnce(d, screen))
        /\ terminal' = [terminal EXCEPT !.text = [r \in 0..(Rows(d) - 1) |-> BlankRow(d)]]
        /\ UNCHANGED display

(* A copy of the screen is made when there is memory for it.               *)
EnableShadowBuffer ==
    /\ screen.ready /\ ~Shadowed
    /\ screen' = [screen EXCEPT !.shadow = screen.vram]
    /\ UNCHANGED <<display, terminal>>

----------------------------------------------------------------------------
(* UpdateScreenRegion copies nothing of a region that is not all on screen. *)
\* mutant: the region is taken to end a pixel earlier
UpdateShort(d, s, x0, y0, x1, y1) ==
    IF s.shadow = NoBuffer \/ x1 > d.width \/ y1 > d.height THEN s
    ELSE [s EXCEPT !.vram = [o \in DOMAIN @ |->
             IF o % d.pitch \in x0..(x1 - 2) /\ o \div d.pitch \in y0..(y1 - 1)
             THEN s.shadow[o] ELSE @[o]]]

UpdateScreenRegion(d, s, x0, y0, x1, y1) ==
    IF s.shadow = NoBuffer \/ x1 > d.width \/ y1 > d.height THEN s
    ELSE [s EXCEPT !.vram = [o \in DOMAIN @ |->
             IF o % d.pitch \in x0..(x1 - 1) /\ o \div d.pitch \in y0..(y1 - 1)
             THEN s.shadow[o] ELSE @[o]]]

Draw(s, m) == IF s.shadow = NoBuffer THEN [s EXCEPT !.vram = m] ELSE [s EXCEPT !.shadow = m]
Target(s) == IF s.shadow = NoBuffer THEN s.vram ELSE s.shadow

(* ScrollRegion, a line of text up.                                        *)
\* mutant: the lines at the bottom keep what they showed
ScrollUncleared(d, s) ==
    LET m == Target(s)
        Line(o) == o \div d.pitch
        up == [o \in DOMAIN m |->
                  IF Line(o) \in RegionTop..(RegionBottom(d) - FontHeight - 1)
                     /\ o % d.pitch \in RegionLeft..(RegionRight(d) - 1)
                  THEN m[o + FontHeight * d.pitch] ELSE m[o]]
    IN  UpdateScreenRegion(d, Draw(s, up), RegionLeft, RegionTop, RegionRight(d), RegionBottom(d))

ScrollRegion(d, s) ==
    LET m == Target(s)
        Line(o) == o \div d.pitch
        up == [o \in DOMAIN m |->
                  IF Line(o) \notin RegionTop..(RegionBottom(d) - 1) \/ o % d.pitch \notin RegionLeft..(RegionRight(d) - 1)
                  THEN m[o]
                  ELSE IF Line(o) < RegionBottom(d) - FontHeight THEN m[o + FontHeight * d.pitch]
                  ELSE s.ground]
    IN  UpdateScreenRegion(d, Draw(s, up), RegionLeft, RegionTop, RegionRight(d), RegionBottom(d))

DrawCharacter(d, s, c) ==
    LET inked == {Pixel(d, s.x + g[1], s.y + g[2]) : g \in Glyphs[c]}
    IN  Draw(s, [o \in DOMAIN s.vram |-> IF o \in inked THEN "ink" ELSE Target(s)[o]])

(* The cursor goes to the next line behind the last column.                *)
CursorWrapped(d, s) ==
    IF s.x >= RegionRight(d) THEN [s EXCEPT !.x = RegionLeft, !.y = @ + FontHeight] ELSE s
Placed(d, s, c) ==
    CASE c = "newline" -> [s EXCEPT !.x = RegionLeft, !.y = @ + FontHeight]
      [] c = "tab" -> CursorWrapped(d, [s EXCEPT !.x =
                          @ + (TabStop - (((@ - RegionLeft) \div FontWidth) % TabStop)) * FontWidth])
      [] OTHER -> CursorWrapped(d, [DrawCharacter(d, s, c) EXCEPT !.x = @ + FontWidth])

Displayed(d, s, c) ==
    LET t == Placed(d, s, c)
    IN  IF t.y >= RegionBottom(d)
        THEN [ScrollRegion(d, t) EXCEPT !.y = RegionBottom(d) - FontHeight]
        ELSE IF c \in Font
        THEN UpdateScreenRegion(d, t, s.x, s.y, s.x + FontWidth, s.y + FontHeight)
        ELSE t

(* The text as it should be: rows of characters, and a place for the next. *)
Typed(d, t, c) ==
    LET down == [t EXCEPT !.row = @ + 1, !.column = 0]
        Advanced(n) == IF n >= Columns(d) THEN down ELSE [t EXCEPT !.column = n]
        next == CASE c = "newline" -> down
                  [] c = "tab" -> Advanced((t.column \div TabStop + 1) * TabStop)
                  [] OTHER -> [Advanced(t.column + 1) EXCEPT !.text[t.row][t.column] = c]
    IN  IF next.row < Rows(d) THEN next
        ELSE [next EXCEPT !.row = @ - 1,
                 !.text = [r \in DOMAIN @ |-> IF r + 1 \in DOMAIN @ THEN @[r + 1] ELSE BlankRow(d)]]

DisplayCharacter(c) ==
    LET d == Displays[display]
    IN  /\ screen.region
        /\ screen' = Displayed(d, screen, c)
        /\ terminal' = Typed(d, terminal, c)
        /\ UNCHANGED display

ScreenNext ==
    \/ InitializeFrameBuffer \/ InitializeFrameBufferProvider \/ EnableShadowBuffer
    \/ \E c \in Font \cup {"newline", "tab"} : DisplayCharacter(c)

ScreenSpec == ScreenInit /\ [][ScreenNext]_screenVars

----------------------------------------------------------------------------
(* Where the last column of text reaches beyond the region: those pixels   *)
(* are inked, not scrolled, and on a display without space between the     *)
(* lines they are the first of the next line.                              *)
LastColumn(d) == RegionLeft + (Columns(d) - 1) * FontWidth
Spilled(d) ==
    {Pixel(d, x, y) : x \in RegionRight(d)..(LastColumn(d) + FontWidth - 1),
                   y \in (RegionTop - 1)..(RegionBottom(d) - 1)}

InkShown(d, t, o) ==
    LET x == o % d.pitch
        y == o \div d.pitch
        c == t.text[y \div FontHeight][x \div FontWidth]
    IN  x < RegionRight(d) /\ y < RegionBottom(d) /\ c \in Font
        /\ <<x % FontWidth, y % FontHeight>> \in Glyphs[c]

(* The screen shows the text, all of it and nothing else, and beside the   *)
(* region it stays clear: after any characters, wrapped, scrolled, with    *)
(* and without the shadow, which may be made in between.  Left out is what *)
(* the last column does when it is cut off: its pixels may stay beyond the *)
(* region, and what would not fit on the screen is only seen after the     *)
(* next scroll (DisplayCharacter, ScrollRegion, UpdateScreenRegion).       *)
ScreenFaithful ==
    LET d == Displays[display]
        late == LastColumn(d) + FontWidth > d.width
    IN  screen.region =>
          \A o \in {m \in DOMAIN screen.vram : m % d.pitch < d.width} :
              /\ InkShown(d, terminal, o) => Drawn[o] = "ink"
              /\ o \notin Spilled(d) =>
                    /\ Drawn[o] = "ink" <=> InkShown(d, terminal, o)
                    /\ IF late /\ o % d.pitch >= LastColumn(d)
                       THEN screen.vram[o] = "ink" => Drawn[o] = "ink"
                       ELSE screen.vram[o] = Drawn[o]
=============================================================================
