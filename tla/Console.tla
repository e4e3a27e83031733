------------------------------ MODULE Console -------------------------------
(***************************************************************************)
(* The logger of the 64 bit loaders: LockedLogger (common/src/logger.rs)   *)
(* with the FrameBufferWriter (common/src/framebuffer.rs) and the serial   *)
(* port, and the panic handler, which logs through it as well although the *)
(* panic may have happened in the logger itself.                           *)
(*                                                                         *)
(* A character is a glyph, a newline or a carriage return; a record is     *)
(* named by why it is logged.  The serial port (uart_16550) is external:   *)
(* it accepts every record.                                                *)
(***************************************************************************)
EXTENDS Naturals, FiniteSets

CONSTANTS
  GlyphWidth, GlyphHeight,  \* CHAR_RASTER_WIDTH and CHAR_RASTER_HEIGHT
  Screens,                  \* the video modes and settings considered
  MaxText                   \* bound: characters of a record after its level

VARIABLES
  screen,         \* mode, frame_buffer_logging, serial_logging, log_level
  pixel_format,   \* info.pixel_format of the writer
  x_pos, y_pos,
  ink,            \* the positions of the glyphs on the screen
  locked,         \* the spinlock around the writer
  pc,
  handler,        \* whether the panic handler was entered
  record,         \* why the record is logged: "info", or the cause of a panic
  left,           \* characters of it that are left, without the newline
  first_cause,    \* history: of the first panic
  shown           \* output -> the last record it has got completely

vars == <<screen, pixel_format, x_pos, y_pos, ink, locked, pc, handler, record, left, first_cause, shown>>

LineSpacing == 2
BorderPadding == 1

ASSUME ConsoleAssumption ==
  /\ GlyphWidth \in Nat \ {0} /\ GlyphHeight \in Nat \ {0} /\ MaxText \in Nat
  /\ \A s \in Screens : /\ {s.width, s.height, s.bytes_per_scanline} \subseteq Nat
                        /\ s.bytes_per_pixel \in 1..4
                        /\ s.log_level \in {"Off", "Error", "Info"}

\* BiosInfo's frame buffer
Stride == screen.bytes_per_scanline \div screen.bytes_per_pixel
ByteLen == screen.height * screen.bytes_per_scanline

Enabled(rec) == \/ screen.log_level = "Info"
                \/ screen.log_level = "Error" /\ rec # "info"

-----------------------------------------------------------------------------
\* init_logger: the writer is cleared, the first record describes it
Init ==
  /\ screen \in Screens
  /\ pixel_format = screen.pixel_format
  /\ x_pos = BorderPadding /\ y_pos = BorderPadding
  /\ ink = {}
  /\ locked = FALSE
  /\ pc = "log"
  /\ handler = FALSE
  /\ record = "info"
  /\ left = 0
  /\ first_cause = "none"
  /\ shown = [framebuffer |-> "none", serial |-> "none"]

\* The loader logs something
Log ==
  /\ pc = "run"
  /\ pc' = "log"
  /\ record' = "info"
  /\ UNCHANGED <<screen, pixel_format, x_pos, y_pos, ink, locked, handler, left, first_cause, shown>>

\* `panic!`, in whatever the processor is doing
Raise(cause) ==
  /\ pc' = "panic"
  /\ record' = cause
  /\ first_cause' = IF first_cause = "none" THEN cause ELSE first_cause

BootPanics ==
  /\ pc = "run"
  /\ Raise("boot")
  /\ UNCHANGED <<screen, pixel_format, x_pos, y_pos, ink, locked, handler, left, shown>>

\* panic, with force_unlock
PanicHandler ==
  /\ pc = "panic"
  /\ handler' = TRUE
  /\ locked' = FALSE
  /\ pc' = "log"
  /\ UNCHANGED <<screen, pixel_format, x_pos, y_pos, ink, record, left, first_cause, shown>>

\* where control goes when the record is done: the handler halts the processor
Return == pc' = IF handler THEN "halted" ELSE "run"

\* the level filter of the log macros
Filtered ==
  /\ pc = "log"
  /\ ~Enabled(record)
  /\ Return
  /\ UNCHANGED <<screen, pixel_format, x_pos, y_pos, ink, locked, handler, record, left, first_cause, shown>>

\* LockedLogger::log, first half: a lock that is taken is waited for
LockWriter ==
  /\ pc = "log"
  /\ Enabled(record)
  /\ screen.frame_buffer_logging /\ ~locked
  /\ locked' = TRUE
  /\ left' \in 0..MaxText
  /\ pc' = "level"
  /\ UNCHANGED <<screen, pixel_format, x_pos, y_pos, ink, handler, record, first_cause, shown>>

SkipWriter ==
  /\ pc = "log"
  /\ Enabled(record)
  /\ ~screen.frame_buffer_logging
  /\ pc' = "serial"
  /\ UNCHANGED <<screen, pixel_format, x_pos, y_pos, ink, locked, handler, record, left, first_cause, shown>>

-----------------------------------------------------------------------------
\* write_char

Newline(at) == [x |-> BorderPadding, y |-> at.y + GlyphHeight + LineSpacing]

Cleared == [x |-> BorderPadding, y |-> BorderPadding]

\* Plausible fault: lines are not wrapped.
WrappedNot == [x |-> x_pos, y |-> y_pos]

Wrapped ==
  LET at == [x |-> x_pos, y |-> y_pos]
  IN  IF x_pos + GlyphWidth >= screen.width THEN Newline(at) ELSE at

Full == Wrapped.y + GlyphHeight + BorderPadding >= screen.height

Cursor == IF Full THEN Cleared ELSE Wrapped

Kept == IF Full THEN {} ELSE ink

Offset(x, y) == (y * Stride + x) * screen.bytes_per_pixel

\* the last pixel of a glyph is the one furthest up in memory
InSlice(at) ==
  Offset(at.x + GlyphWidth - 1, at.y + GlyphHeight - 1) + screen.bytes_per_pixel <= ByteLen

Supported == pixel_format \in {"Rgb", "Bgr", "U8"}

MayWriteGlyph == pc = "level" \/ (pc = "text" /\ left > 0)

Consumed == IF pc = "level" THEN UNCHANGED left ELSE left' = left - 1

WriteGlyph ==
  /\ MayWriteGlyph
  /\ Supported /\ InSlice(Cursor)
  /\ ink' = Kept \cup {Cursor}
  /\ x_pos' = Cursor.x + GlyphWidth /\ y_pos' = Cursor.y
  /\ Consumed
  /\ pc' = "text"
  /\ UNCHANGED <<screen, pixel_format, locked, handler, record, first_cause, shown>>

\* Plausible fault: the format stays unsupported.
FormatPanicsAgain ==
  /\ MayWriteGlyph
  /\ ~Supported
  /\ ink' = Kept
  /\ x_pos' = Cursor.x /\ y_pos' = Cursor.y
  /\ Raise("format")
  /\ UNCHANGED <<screen, pixel_format, locked, handler, left, shown>>

\* write_pixel: "pixel format not supported in logger"
FormatPanics ==
  /\ MayWriteGlyph
  /\ ~Supported
  /\ ink' = Kept
  /\ x_pos' = Cursor.x /\ y_pos' = Cursor.y
  /\ pixel_format' = "Rgb"
  /\ Raise("format")
  /\ UNCHANGED <<screen, locked, handler, left, shown>>

\* write_pixel: the index is out of bounds
IndexPanics ==
  /\ MayWriteGlyph
  /\ Supported /\ ~InSlice(Cursor)
  /\ ink' = Kept
  /\ x_pos' = Cursor.x /\ y_pos' = Cursor.y
  /\ Raise("index")
  /\ UNCHANGED <<screen, pixel_format, locked, handler, left, shown>>

WriteControl ==
  /\ pc = "text" /\ left > 0
  /\ left' = left - 1
  /\ x_pos' = BorderPadding
  /\ y_pos' \in {y_pos, Newline([x |-> x_pos, y |-> y_pos]).y}
  /\ UNCHANGED <<screen, pixel_format, ink, locked, pc, handler, record, first_cause, shown>>

\* the newline of writeln!, and the lock is released
EndLine ==
  /\ pc = "text" /\ left = 0
  /\ x_pos' = BorderPadding
  /\ y_pos' = Newline([x |-> x_pos, y |-> y_pos]).y
  /\ locked' = FALSE
  /\ shown' = [shown EXCEPT !.framebuffer = record]
  /\ pc' = "serial"
  /\ UNCHANGED <<screen, pixel_format, ink, handler, record, left, first_cause>>

-----------------------------------------------------------------------------
\* Plausible fault: the serial port is only used without a screen.
LogSerialElse ==
  /\ pc = "serial"
  /\ shown' = IF screen.serial_logging /\ ~screen.frame_buffer_logging
              THEN [shown EXCEPT !.serial = record] ELSE shown
  /\ Return
  /\ UNCHANGED <<screen, pixel_format, x_pos, y_pos, ink, locked, handler, record, left, first_cause>>

\* LockedLogger::log, second half
LogSerial ==
  /\ pc = "serial"
  /\ shown' = IF screen.serial_logging THEN [shown EXCEPT !.serial = record] ELSE shown
  /\ Return
  /\ UNCHANGED <<screen, pixel_format, x_pos, y_pos, ink, locked, handler, record, left, first_cause>>

\* the loop at the end of the handler
Halt == pc = "halted" /\ UNCHANGED vars

Next ==
  \/ Log \/ BootPanics \/ PanicHandler
  \/ Filtered \/ LockWriter \/ SkipWriter
  \/ WriteGlyph \/ FormatPanics \/ IndexPanics \/ WriteControl \/ EndLine
  \/ LogSerial \/ Halt

\* The processor does not stop on its own
Spec == Init /\ [][Next]_vars /\ WF_vars(Next)

-----------------------------------------------------------------------------
\* A glyph with its border fits
Roomy == /\ BorderPadding + GlyphWidth <= screen.width
         /\ BorderPadding + GlyphHeight <= screen.height
         /\ screen.width <= Stride

\* On a screen with room for a character write_char draws every glyph inside of
\* it, lines do not overlap, and every pixel is written to where the
\* hardware looks for it if a line has a whole number of pixels; the index is
\* never out of bounds.
GlyphsOnScreen ==
  Roomy =>
    /\ \A g \in ink : /\ g.x + GlyphWidth <= screen.width
                      /\ g.y + GlyphHeight <= screen.height
                      /\ screen.bytes_per_scanline % screen.bytes_per_pixel = 0 =>
                           Offset(g.x, g.y) = g.y * screen.bytes_per_scanline
                                                + g.x * screen.bytes_per_pixel
    /\ \A g, h \in ink : g.y < h.y => g.y + GlyphHeight + LineSpacing <= h.y
    /\ record # "index"

\* A panic ends with a halted processor, also one in the middle of a record
\* with the lock taken, and one because of the pixel format: the handler neither
\* waits for the lock nor panics over and over.
PanicEnds == (pc = "panic" /\ Roomy) ~> (pc = "halted")

\* When the processor was halted, every output that is enabled has got the record
\* of the panic in full, unless logging is off.  It is the panic that happened
\* first, unless the handler met an unsupported pixel format.
PanicShown ==
  pc = "halted" /\ screen.log_level # "Off" =>
    /\ screen.frame_buffer_logging => shown.framebuffer = record
    /\ screen.serial_logging => shown.serial = record
    /\ record # first_cause => record = "format" /\ first_cause = "boot"

=============================================================================
