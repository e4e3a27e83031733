------------------------------ MODULE MCConsole -----------------------------
(***************************************************************************)
(* Screens for Console, with glyphs of 2 x 3 pixels: with room for one or  *)
(* several characters in a line, for one or several lines, with and        *)
(* without padding, and one that is too low for a character.               *)
(***************************************************************************)
EXTENDS Console

Mode(width, height, bytes_per_scanline, bytes_per_pixel, format) ==
  [width |-> width, height |-> height, bytes_per_scanline |-> bytes_per_scanline,
   bytes_per_pixel |-> bytes_per_pixel, pixel_format |-> format]

Modes ==
  {Mode(3, 4, 3, 1, "U8"), Mode(4, 11, 18, 4, "Rgb"), Mode(8, 16, 24, 3, "Unknown"),
   Mode(7, 17, 16, 2, "Bgr"), Mode(9, 22, 27, 3, "Rgb"), Mode(6, 3, 24, 4, "Unknown")}

Outputs ==
  [frame_buffer_logging : BOOLEAN, serial_logging : BOOLEAN, log_level : {"Off", "Error", "Info"}]

SmallScreens ==
  {[width |-> m.width, height |-> m.height, bytes_per_scanline |-> m.bytes_per_scanline,
    bytes_per_pixel |-> m.bytes_per_pixel, pixel_format |-> m.pixel_format,
    frame_buffer_logging |-> o.frame_buffer_logging, serial_logging |-> o.serial_logging,
    log_level |-> o.log_level] : m \in Modes, o \in Outputs}

=============================================================================
