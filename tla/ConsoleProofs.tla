--------------------------- MODULE ConsoleProofs ----------------------------
(***************************************************************************)
(* The logger draws on the screen and nowhere else, for every font, every  *)
(* video mode and every text that is logged, and the record of a panic     *)
(* gets to every output.                                                   *)
(***************************************************************************)
EXTENDS Console, TLAPS

\* The cursor is on the line of the last glyphs or below it.
CursorInv ==
  /\ screen \in Screens
  /\ x_pos \in Nat /\ y_pos \in Nat
  /\ Roomy =>
       /\ \A g \in ink : /\ g.x \in Nat /\ g.y \in Nat
                         /\ g.x + GlyphWidth <= screen.width
                         /\ g.y + GlyphHeight <= screen.height
       /\ \A g \in ink : g.y = y_pos \/ g.y + GlyphHeight + LineSpacing <= y_pos
       /\ \A g, h \in ink : g.y < h.y => g.y + GlyphHeight + LineSpacing <= h.y
       /\ record # "index"

-----------------------------------------------------------------------------
\* The frame buffer.

\* The numbers of a video mode.
LEMMA ScreenNumbers ==
  ASSUME screen \in Screens
  PROVE  /\ screen.width \in Nat /\ screen.height \in Nat
         /\ screen.bytes_per_scanline \in Nat
         /\ screen.bytes_per_pixel \in Nat /\ screen.bytes_per_pixel > 0
         /\ Stride \in Nat
         /\ Stride * screen.bytes_per_pixel <= screen.bytes_per_scanline
         /\ screen.bytes_per_scanline % screen.bytes_per_pixel = 0 =>
              Stride * screen.bytes_per_pixel = screen.bytes_per_scanline
         /\ GlyphWidth \in Nat /\ GlyphWidth > 0 /\ GlyphHeight \in Nat /\ GlyphHeight > 0
<1>1. /\ screen.width \in Nat /\ screen.height \in Nat
      /\ screen.bytes_per_scanline \in Nat
      /\ screen.bytes_per_pixel \in Nat /\ screen.bytes_per_pixel > 0
      /\ GlyphWidth \in Nat /\ GlyphWidth > 0 /\ GlyphHeight \in Nat /\ GlyphHeight > 0
  BY ConsoleAssumption
<1>2. ASSUME NEW a \in Nat, NEW b \in Nat, b > 0
      PROVE  /\ a \div b \in Nat /\ (a \div b) * b <= a
             /\ a % b = 0 => (a \div b) * b = a
  BY <1>2
<1> QED
  BY <1>1, <1>2, Zenon DEF Stride

\* A pixel on the screen has its bytes within the slice.
LEMMA PixelInSlice ==
  ASSUME screen \in Screens, NEW x \in Nat, NEW y \in Nat,
         x < Stride, y < screen.height
  PROVE  Offset(x, y) + screen.bytes_per_pixel <= ByteLen
<1> DEFINE s == Stride
           p == screen.bytes_per_pixel
           l == screen.bytes_per_scanline
           h == screen.height
<1>1. s \in Nat /\ p \in Nat /\ l \in Nat /\ h \in Nat /\ s * p <= l
  BY ScreenNumbers
<1>2. x < s /\ y < h
  OBVIOUS
<1>3. Offset(x, y) = (y * s + x) * p /\ ByteLen = h * l
  BY DEF Offset, ByteLen
<1> HIDE DEF s, p, l, h
<1>4. y * s \in Nat /\ y * s + x + 1 <= (y + 1) * s
  BY <1>1, <1>2
<1>5. (y + 1) * s <= h * s
  BY <1>1, <1>2
<1>6. (y * s + x) * p + p = (y * s + x + 1) * p
  BY <1>1, <1>4
<1>7. y * s + x + 1 <= h * s /\ h * s \in Nat
  BY <1>1, <1>4, <1>5
<1>8. (y * s + x + 1) * p <= (h * s) * p
  BY <1>1, <1>4, <1>7
<1>9. (h * s) * p = h * (s * p) /\ s * p \in Nat
  BY <1>1
<1>10. h * (s * p) <= h * l
  BY <1>1, <1>9
<1> QED
  BY <1>1, <1>3, <1>4, <1>6, <1>8, <1>9, <1>10 DEF p

\* A line of whole pixels: the logger's index is the one of the hardware.
LEMMA OffsetIsHardware ==
  ASSUME screen \in Screens, NEW x \in Nat, NEW y \in Nat,
         screen.bytes_per_scanline % screen.bytes_per_pixel = 0
  PROVE  Offset(x, y) = y * screen.bytes_per_scanline + x * screen.bytes_per_pixel
<1> DEFINE s == Stride
           p == screen.bytes_per_pixel
           l == screen.bytes_per_scanline
<1>1. s \in Nat /\ p \in Nat /\ l \in Nat /\ s * p = l
  BY ScreenNumbers
<1>2. Offset(x, y) = (y * s + x) * p
  BY DEF Offset
<1> HIDE DEF s, p, l
<1>3. (y * s + x) * p = y * (s * p) + x * p
  BY <1>1
<1> QED
  BY <1>1, <1>2, <1>3 DEF p, l

-----------------------------------------------------------------------------
\* The cursor.

\* Where write_char draws: inside of the screen, and on the line of the glyphs
\* that are kept or below them.
LEMMA CursorFits ==
  ASSUME CursorInv, Roomy
  PROVE  /\ Cursor.x \in Nat /\ Cursor.y \in Nat
         /\ Cursor.x + GlyphWidth <= screen.width
         /\ Cursor.y + GlyphHeight <= screen.height
         /\ Kept \subseteq ink
         /\ \A g \in Kept : g.y = Cursor.y \/ g.y + GlyphHeight + LineSpacing <= Cursor.y
         /\ InSlice(Cursor)
<1>1. /\ screen.width \in Nat /\ screen.height \in Nat /\ Stride \in Nat
      /\ GlyphWidth \in Nat /\ GlyphWidth > 0 /\ GlyphHeight \in Nat /\ GlyphHeight > 0
      /\ x_pos \in Nat /\ y_pos \in Nat /\ screen \in Screens
  BY ScreenNumbers DEF CursorInv
<1>2. /\ 1 + GlyphWidth <= screen.width /\ 1 + GlyphHeight <= screen.height
      /\ screen.width <= Stride
  BY DEF Roomy, BorderPadding
<1>3. /\ Wrapped.x \in Nat /\ Wrapped.y \in Nat
      /\ Wrapped.x + GlyphWidth <= screen.width
      /\ Wrapped.y \in {y_pos, y_pos + GlyphHeight + 2}
  BY <1>1, <1>2 DEF Wrapped, Newline, BorderPadding, LineSpacing
<1>4. \A g \in ink : /\ g.y \in Nat
                     /\ g.y = Wrapped.y \/ g.y + GlyphHeight + LineSpacing <= Wrapped.y
  <2>1. ASSUME NEW g \in ink
        PROVE  g.y \in Nat /\ (g.y = y_pos \/ g.y + GlyphHeight + 2 <= y_pos)
    BY DEF CursorInv, LineSpacing
  <2> HIDE DEF Wrapped
  <2> QED
    BY <1>1, <1>3, <2>1 DEF LineSpacing
<1> HIDE DEF Wrapped
<1>5. CASE Full
  <2>1. Cursor = [x |-> 1, y |-> 1] /\ Kept = {}
    BY <1>5 DEF Cursor, Kept, Cleared, BorderPadding
  <2>2. Cursor.x = 1 /\ Cursor.y = 1
    BY <2>1
  <2>3. /\ Cursor.x \in Nat /\ Cursor.y \in Nat
        /\ Cursor.x + GlyphWidth <= screen.width
        /\ Cursor.y + GlyphHeight <= screen.height
    BY <1>1, <1>2, <2>2
  <2> HIDE DEF Cursor
  <2>4. InSlice(Cursor)
    <3>1. /\ Cursor.x + GlyphWidth - 1 \in Nat /\ Cursor.y + GlyphHeight - 1 \in Nat
          /\ Cursor.x + GlyphWidth - 1 < Stride /\ Cursor.y + GlyphHeight - 1 < screen.height
      BY <1>1, <1>2, <2>3
    <3> QED
      BY <1>1, <3>1, PixelInSlice DEF InSlice
  <2> QED
    BY <2>1, <2>3, <2>4
<1>6. CASE ~Full
  <2>1. Cursor = Wrapped /\ Kept = ink
    BY <1>6 DEF Cursor, Kept
  <2>2. Wrapped.y + GlyphHeight <= screen.height
    BY <1>1, <1>3, <1>6 DEF Full, BorderPadding
  <2>3. InSlice(Wrapped)
    <3>1. /\ Wrapped.x + GlyphWidth - 1 \in Nat /\ Wrapped.y + GlyphHeight - 1 \in Nat
          /\ Wrapped.x + GlyphWidth - 1 < Stride /\ Wrapped.y + GlyphHeight - 1 < screen.height
      BY <1>1, <1>2, <1>3, <2>2
    <3> QED
      BY <1>1, <3>1, PixelInSlice DEF InSlice
  <2> HIDE DEF Cursor, Kept
  <2> QED
    BY <1>3, <1>4, <2>1, <2>2, <2>3
<1> QED
  BY <1>5, <1>6

\* The position the writer is left at is one, on every screen.
LEMMA CursorType ==
  ASSUME CursorInv
  PROVE  Cursor.x \in Nat /\ Cursor.y \in Nat /\ Cursor.x + GlyphWidth \in Nat
<1>1. x_pos \in Nat /\ y_pos \in Nat /\ GlyphWidth \in Nat /\ GlyphHeight \in Nat
  BY ScreenNumbers DEF CursorInv
<1>2. Wrapped.x \in Nat /\ Wrapped.y \in Nat
  BY <1>1 DEF Wrapped, Newline, BorderPadding, LineSpacing
<1>3. Cleared.x \in Nat /\ Cleared.y \in Nat
  BY DEF Cleared, BorderPadding
<1>4. Cursor \in {Wrapped, Cleared}
  BY DEF Cursor
<1> HIDE DEF Cursor, Wrapped, Cleared
<1> QED
  BY <1>1, <1>2, <1>3, <1>4

-----------------------------------------------------------------------------
\* The invariant.

\* init_logger leaves the cursor in the corner of an empty screen.
LEMMA InitCursor == Init => CursorInv
  BY DEF Init, CursorInv, BorderPadding

\* A glyph that is drawn keeps it.
LEMMA GlyphKeepsInv == CursorInv /\ WriteGlyph => CursorInv'
<1> SUFFICES ASSUME CursorInv, WriteGlyph PROVE CursorInv'
  OBVIOUS
<1>1. /\ screen' = screen /\ record' = record
      /\ ink' = Kept \cup {Cursor}
      /\ x_pos' = Cursor.x + GlyphWidth /\ y_pos' = Cursor.y
  BY DEF WriteGlyph
<1>2. screen' \in Screens /\ x_pos' \in Nat /\ y_pos' \in Nat
  BY <1>1, CursorType DEF CursorInv
<1>3. Roomy' <=> Roomy
  BY <1>1 DEF Roomy, Stride
<1>4. ASSUME Roomy
      PROVE  /\ \A g \in ink' : /\ g.x \in Nat /\ g.y \in Nat
                               /\ g.x + GlyphWidth <= screen.width
                               /\ g.y + GlyphHeight <= screen.height
             /\ \A g \in ink' : g.y = Cursor.y \/ g.y + GlyphHeight + LineSpacing <= Cursor.y
             /\ \A g, h \in ink' : g.y < h.y => g.y + GlyphHeight + LineSpacing <= h.y
             /\ record # "index"
  <2>1. /\ Cursor.x \in Nat /\ Cursor.y \in Nat
        /\ Cursor.x + GlyphWidth <= screen.width /\ Cursor.y + GlyphHeight <= screen.height
        /\ Kept \subseteq ink
        /\ \A g \in Kept : g.y = Cursor.y \/ g.y + GlyphHeight + LineSpacing <= Cursor.y
    BY <1>4, CursorFits
  <2>2. \A g \in ink : /\ g.x \in Nat /\ g.y \in Nat
                       /\ g.x + GlyphWidth <= screen.width
                       /\ g.y + GlyphHeight <= screen.height
    BY <1>4 DEF CursorInv
  <2>3. \A g, h \in ink : g.y < h.y => g.y + GlyphHeight + LineSpacing <= h.y
    BY <1>4 DEF CursorInv
  <2>4. record # "index"
    BY <1>4 DEF CursorInv
  <2>5. GlyphHeight \in Nat
    BY ScreenNumbers DEF CursorInv
  <2> HIDE DEF Cursor, Kept
  <2>6. ASSUME NEW g \in ink', NEW h \in ink', g.y < h.y
        PROVE  g.y + GlyphHeight + LineSpacing <= h.y
    <3>1. g \in Kept \/ g = Cursor
      BY <1>1
    <3>2. h \in Kept \/ h = Cursor
      BY <1>1
    <3>3. CASE g \in Kept /\ h \in Kept
      BY <2>1, <2>3, <2>6, <3>3
    <3>4. CASE g \in Kept /\ h = Cursor
      BY <2>1, <2>2, <2>6, <3>4
    <3>5. CASE g = Cursor /\ h \in Kept
      BY <2>1, <2>2, <2>5, <2>6, <3>5 DEF LineSpacing
    <3>6. CASE g = Cursor /\ h = Cursor
      BY <2>1, <2>6, <3>6
    <3> QED
      BY <3>1, <3>2, <3>3, <3>4, <3>5, <3>6
  <2>7. ASSUME NEW g \in ink'
        PROVE  /\ g.x \in Nat /\ g.y \in Nat
               /\ g.x + GlyphWidth <= screen.width
               /\ g.y + GlyphHeight <= screen.height
               /\ g.y = Cursor.y \/ g.y + GlyphHeight + LineSpacing <= Cursor.y
    BY <1>1, <2>1, <2>2
  <2> QED
    BY <2>4, <2>6, <2>7
<1>5. CASE Roomy
  <2>1. (\A g \in ink : /\ g.x \in Nat /\ g.y \in Nat
                        /\ g.x + GlyphWidth <= screen.width
                        /\ g.y + GlyphHeight <= screen.height)'
    BY <1>1, <1>4, <1>5
  <2>2. (\A g, h \in ink : g.y < h.y => g.y + GlyphHeight + LineSpacing <= h.y)'
    BY <1>4, <1>5
  <2>3. (\A g \in ink : g.y = y_pos \/ g.y + GlyphHeight + LineSpacing <= y_pos)'
    BY <1>1, <1>4, <1>5
  <2>4. (record # "index")'
    BY <1>1, <1>4, <1>5
  <2> HIDE DEF Roomy
  <2> QED
    BY <1>2, <2>1, <2>2, <2>3, <2>4 DEF CursorInv
<1>6. CASE ~Roomy
  BY <1>2, <1>3, <1>6 DEF CursorInv
<1> QED
  BY <1>5, <1>6

\* So does a panic of the writer, which leaves the cursor where the glyph was to
\* be drawn; on a roomy screen the index is within bounds.
LEMMA PanicKeepsInv == CursorInv /\ (FormatPanics \/ IndexPanics) => CursorInv'
<1> SUFFICES ASSUME CursorInv, FormatPanics \/ IndexPanics PROVE CursorInv'
  OBVIOUS
<1>1. /\ screen' = screen /\ ink' = Kept
      /\ x_pos' = Cursor.x /\ y_pos' = Cursor.y
      /\ record' = "format" \/ ~InSlice(Cursor)
  BY DEF FormatPanics, IndexPanics, Raise
<1>2. screen' \in Screens /\ x_pos' \in Nat /\ y_pos' \in Nat
  BY <1>1, CursorType DEF CursorInv
<1>3. Roomy' <=> Roomy
  BY <1>1 DEF Roomy, Stride
<1>4. ASSUME Roomy
      PROVE  /\ Kept \subseteq ink
             /\ \A g \in Kept : g.y = Cursor.y \/ g.y + GlyphHeight + LineSpacing <= Cursor.y
             /\ record' = "format"
  BY <1>1, <1>4, CursorFits
<1> HIDE DEF Cursor, Kept, Roomy
<1> QED
  BY <1>1, <1>2, <1>3, <1>4 DEF CursorInv

\* A newline or a carriage return moves the cursor down or not at all.
LEMMA ControlKeepsInv == CursorInv /\ (WriteControl \/ EndLine) => CursorInv'
<1> SUFFICES ASSUME CursorInv, WriteControl \/ EndLine PROVE CursorInv'
  OBVIOUS
<1>1. /\ screen' = screen /\ ink' = ink /\ record' = record
      /\ x_pos' = 1 /\ y_pos' \in {y_pos, y_pos + GlyphHeight + 2}
  BY DEF WriteControl, EndLine, Newline, BorderPadding, LineSpacing
<1>2. GlyphHeight \in Nat /\ y_pos \in Nat /\ screen \in Screens
  BY ScreenNumbers DEF CursorInv
<1>3. Roomy' <=> Roomy
  BY <1>1 DEF Roomy, Stride
<1>4. ASSUME Roomy, NEW g \in ink
      PROVE  g.y = y_pos' \/ g.y + GlyphHeight + LineSpacing <= y_pos'
  <2>1. g.y \in Nat /\ (g.y = y_pos \/ g.y + GlyphHeight + LineSpacing <= y_pos)
    BY <1>4 DEF CursorInv
  <2> QED
    BY <1>1, <1>2, <2>1 DEF LineSpacing
<1>5. x_pos' \in Nat /\ y_pos' \in Nat
  BY <1>1, <1>2
<1> HIDE DEF Roomy
<1> QED
  BY <1>1, <1>2, <1>3, <1>4, <1>5 DEF CursorInv

\* Every step keeps the invariant.
LEMMA NextCursor == CursorInv /\ [Next]_vars => CursorInv'
<1> SUFFICES ASSUME CursorInv, [Next]_vars PROVE CursorInv'
  OBVIOUS
<1>1. CASE /\ UNCHANGED <<screen, x_pos, y_pos, ink>>
           /\ record' = record \/ record' \in {"info", "boot"}
  <2>1. Roomy' <=> Roomy
    BY <1>1 DEF Roomy, Stride
  <2> HIDE DEF Roomy
  <2> QED
    BY <1>1, <2>1 DEF CursorInv
<1>2. CASE Log \/ BootPanics \/ PanicHandler \/ Filtered \/ LockWriter \/ SkipWriter
           \/ LogSerial \/ Halt \/ UNCHANGED vars
  BY <1>1, <1>2 DEF Log, BootPanics, Raise, PanicHandler, Filtered, LockWriter, SkipWriter,
                    LogSerial, Halt, vars
<1> QED
  BY <1>2, GlyphKeepsInv, PanicKeepsInv, ControlKeepsInv DEF Next

\* On a screen with room for a character the logger draws every glyph inside of
\* it, lines do not overlap, pixels are where the hardware looks for them and
\* the index of write_pixel is never out of bounds.
THEOREM LoggerStaysOnScreen == Spec => []GlyphsOnScreen
<1>1. CursorInv => GlyphsOnScreen
  <2> SUFFICES ASSUME CursorInv, Roomy PROVE GlyphsOnScreen
    BY DEF GlyphsOnScreen
  <2>1. screen \in Screens /\ \A g \in ink : g.x \in Nat /\ g.y \in Nat
    BY DEF CursorInv
  <2>2. ASSUME NEW g \in ink, screen.bytes_per_scanline % screen.bytes_per_pixel = 0
        PROVE  Offset(g.x, g.y) = g.y * screen.bytes_per_scanline + g.x * screen.bytes_per_pixel
    BY <2>1, <2>2, OffsetIsHardware
  <2> HIDE DEF Offset, Roomy
  <2> QED
    BY <2>2 DEF CursorInv, GlyphsOnScreen
<1> QED
  BY <1>1, InitCursor, NextCursor, PTL DEF Spec

-----------------------------------------------------------------------------
\* The record of a panic.

\* A glyph with its border fits into a line, however few lines there are.
LineFits == BorderPadding + GlyphWidth <= screen.width /\ screen.width <= Stride

\* A record is that of a panic from the panic on, and an output has got it once
\* the logger is past that output.  Where a glyph does not fit below the
\* upper border the logger never gets past the first one.
RecordInv ==
  /\ shown = [framebuffer |-> shown.framebuffer, serial |-> shown.serial]
  /\ record \in {"info", "boot", "format", "index"}
  /\ first_cause \in {"none", "boot", "format", "index"}
  /\ record = "info" <=> first_cause = "none"
  /\ record = "boot" => first_cause = "boot"
  /\ record = "info" <=> (~handler /\ pc # "panic")
  /\ pc = "run" => ~handler
  /\ pc = "halted" => handler
  /\ ~screen.frame_buffer_logging =>
       pc \notin {"level", "text"} /\ (record # "info" => record = first_cause)
  /\ pc \in {"serial", "halted"} /\ Enabled(record) =>
       /\ screen.frame_buffer_logging => shown.framebuffer = record
       /\ pc = "halted" /\ screen.serial_logging => shown.serial = record
  /\ LineFits =>
       /\ InSlice(Cleared) => record # "index" /\ first_cause # "index"
       /\ ~InSlice(Cleared) /\ screen.frame_buffer_logging =>
            pc # "text" /\ (pc \in {"serial", "halted"} => ~Enabled(record))

\* If the lines are long enough, an index is out of bounds at every position
\* write_char may draw at or at none.
LEMMA CursorSteady ==
  ASSUME CursorInv, LineFits
  PROVE  InSlice(Cursor) <=> InSlice(Cleared)
<1>1. CASE Roomy
  <2>1. InSlice(Cursor)
    BY <1>1, CursorFits
  <2>2. InSlice(Cleared)
    <3>1. /\ screen.width \in Nat /\ screen.height \in Nat /\ Stride \in Nat /\ screen \in Screens
          /\ GlyphWidth \in Nat /\ GlyphWidth > 0 /\ GlyphHeight \in Nat /\ GlyphHeight > 0
      BY ScreenNumbers DEF CursorInv
    <3>2. Cleared.x = 1 /\ Cleared.y = 1
      BY DEF Cleared, BorderPadding
    <3>3. /\ Cleared.x + GlyphWidth - 1 \in Nat /\ Cleared.y + GlyphHeight - 1 \in Nat
          /\ Cleared.x + GlyphWidth - 1 < Stride /\ Cleared.y + GlyphHeight - 1 < screen.height
      BY <1>1, <3>1, <3>2 DEF Roomy, BorderPadding
    <3> QED
      BY <3>1, <3>3, PixelInSlice DEF InSlice
  <2> QED
    BY <2>1, <2>2
<1>2. CASE ~Roomy
  <2>1. /\ screen.height \in Nat /\ GlyphHeight \in Nat /\ y_pos \in Nat
    BY ScreenNumbers DEF CursorInv
  <2>2. screen.height <= GlyphHeight
    BY <1>2, <2>1 DEF Roomy, LineFits, BorderPadding
  <2>3. Wrapped.y \in Nat
    BY <2>1 DEF Wrapped, Newline, LineSpacing
  <2>4. Full
    BY <2>1, <2>2, <2>3 DEF Full, BorderPadding
  <2> QED
    BY <2>4 DEF Cursor
<1> QED
  BY <1>1, <1>2

\* The screen stays, and with it what fits on it.
LEMMA ScreenStays ==
  ASSUME screen' = screen
  PROVE  /\ LineFits' <=> LineFits
         /\ InSlice(Cleared)' <=> InSlice(Cleared)
         /\ \A rec : Enabled(rec)' <=> Enabled(rec)
  BY DEF LineFits, Stride, InSlice, Offset, ByteLen, Cleared, Enabled

\* Every step keeps the invariant.
LEMMA NextRecord ==
  ASSUME CursorInv, RecordInv, [Next]_vars
  PROVE  RecordInv'
<1>1. screen' = screen
  BY DEF Next, Log, BootPanics, Raise, PanicHandler, Filtered, LockWriter, SkipWriter, WriteGlyph,
         FormatPanics, IndexPanics, WriteControl, EndLine, LogSerial, Halt, vars
<1>2. /\ LineFits' <=> LineFits
      /\ InSlice(Cleared)' <=> InSlice(Cleared)
      /\ \A rec : Enabled(rec)' <=> Enabled(rec)
  BY <1>1, ScreenStays
<1>3. LineFits => (InSlice(Cursor) <=> InSlice(Cleared))
  BY CursorSteady
<1> USE <1>1, <1>2, <1>3
<1> HIDE DEF LineFits, Enabled, Cleared, Cursor
<1>4. CASE Log
  BY <1>4, SMTT(30) DEF Log, RecordInv
<1>5. CASE BootPanics
  BY <1>5 DEF BootPanics, Raise, RecordInv
<1>6. CASE PanicHandler
  BY <1>6 DEF PanicHandler, RecordInv
<1>7. CASE Filtered
  BY <1>7 DEF Filtered, Return, RecordInv
<1>8. CASE LockWriter
  BY <1>8 DEF LockWriter, RecordInv
<1>9. CASE SkipWriter
  BY <1>9 DEF SkipWriter, RecordInv
<1>10. CASE WriteGlyph
  BY <1>10 DEF WriteGlyph, MayWriteGlyph, RecordInv
<1>11. CASE FormatPanics
  BY <1>11 DEF FormatPanics, MayWriteGlyph, Raise, RecordInv
<1>12. CASE IndexPanics
  BY <1>12 DEF IndexPanics, MayWriteGlyph, Raise, RecordInv
<1>13. CASE WriteControl
  BY <1>13 DEF WriteControl, RecordInv
<1>14. CASE EndLine
  BY <1>14 DEF EndLine, RecordInv
<1>15. CASE LogSerial
  BY <1>15 DEF LogSerial, Return, RecordInv
<1>16. CASE Halt \/ UNCHANGED vars
  BY <1>16 DEF Halt, vars, RecordInv
<1> QED
  BY <1>4, <1>5, <1>6, <1>7, <1>8, <1>9, <1>10, <1>11, <1>12, <1>13, <1>14, <1>15, <1>16 DEF Next

\* On a screen whose lines have room for a character, a processor that was
\* halted has given the record of the panic to every output that is enabled.
THEOREM PanicRecordShown == Spec => [](LineFits => PanicShown)
<1>1. Init => RecordInv
  BY DEF Init, RecordInv
<1>2. CursorInv /\ RecordInv => (LineFits => PanicShown)
  <2> SUFFICES ASSUME CursorInv, RecordInv, LineFits, pc = "halted", screen.log_level # "Off"
               PROVE  /\ screen.frame_buffer_logging => shown.framebuffer = record
                      /\ screen.serial_logging => shown.serial = record
                      /\ record # first_cause => record = "format" /\ first_cause = "boot"
    BY DEF PanicShown
  <2>1. screen.log_level \in {"Error", "Info"}
    BY ConsoleAssumption DEF CursorInv
  <2>2. record # "info" /\ Enabled(record)
    BY <2>1 DEF RecordInv, Enabled
  <2> HIDE DEF LineFits, Enabled
  <2> QED
    BY <2>2 DEF RecordInv
<1> QED
  BY <1>1, <1>2, InitCursor, NextCursor, NextRecord, PTL DEF Spec

=============================================================================
