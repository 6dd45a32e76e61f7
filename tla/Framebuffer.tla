----------------------------- MODULE Framebuffer -----------------------------
(***************************************************************************)
(* board-support/e87n/display.py, class Framebuffer: the geometry accepted *)
(* by validate_framebuffer, and draw, which writes the visible rows with   *)
(* pwrite.  A write may be short or interrupted; another process may set   *)
(* another mode at any moment; an error closes the device and ends the     *)
(* daemon, which is then started again.                                    *)
(***************************************************************************)
EXTENDS Integers

CONSTANTS
    Width, Height, \* the visible screen, in pixels (428 x 142)
    Bytes,         \* the most memory that is accepted (MAX_FB_BYTES)
    Modes,         \* what the two ioctls may report
    Closed,        \* no layout: the device is not open
    MaxFrames      \* how many frames a behaviour may draw

Mode == [stride : Nat, x : Nat, y : Nat, xvirtual : Nat, yvirtual : Nat, memory : Nat]

ASSUME ScreenAssumption == Width \in Nat \ {0} /\ Height \in Nat \ {0}
ASSUME MemoryAssumption == Bytes \in Nat /\ MaxFrames \in Nat
ASSUME ModesAssumption ==
    Modes \subseteq Mode /\ Closed \notin Mode

VARIABLES
    mode,   \* the mode the device has
    layout, \* the layout the daemon opened it with, or Closed
    memory, \* the frame each byte was written for; 0: not by the daemon
    drawn,  \* the number of the frame being drawn, or drawn last
    pc,     \* "closed", "ready", "write" or "drawn"
    row,    \* the row being written
    offset, \* where the next pwrite goes
    rest,   \* bytes of this row, or of the whole frame, still to write
    disturbed \* for the properties: the mode was set since the draw began

vars == <<mode, layout, memory, drawn, pc, row, offset, rest, disturbed>>

RowBytes == Width * 2

(* Mutant: the offsets are taken to fit because the sizes do. *)
ValidSizes(m) ==
    /\ m.xvirtual >= Width /\ m.yvirtual >= Height
    /\ m.stride % 2 = 0 /\ m.stride >= m.xvirtual * 2
    /\ m.memory \in 1..Bytes
    /\ m.stride * m.yvirtual <= m.memory

(* validate_framebuffer: the checks on sizes and offsets. *)
Valid(m) ==
    /\ m.xvirtual >= Width /\ m.yvirtual >= Height
    /\ m.x + Width <= m.xvirtual /\ m.y + Height <= m.yvirtual
    /\ m.stride % 2 = 0 /\ m.stride >= m.xvirtual * 2
    /\ m.memory \in 1..Bytes
    /\ m.stride * m.yvirtual <= m.memory
    /\ (m.y + Height - 1) * m.stride + (m.x + Width) * 2 <= m.memory

(* FramebufferLayout.start *)
FirstByte(m) == m.y * m.stride + m.x * 2

RowStart(m, r) == FirstByte(m) + r * m.stride

(* The bytes of the screen in mode m. *)
Visible(m) == UNION {RowStart(m, r) .. RowStart(m, r) + RowBytes - 1 : r \in 0..Height - 1}

(* Rows that follow each other without a gap are written at once. *)
Contiguous(m) == m.stride = RowBytes

Open ==
    /\ pc = "closed" /\ Valid(mode)
    /\ layout' = mode
    /\ pc' = "ready"
    /\ UNCHANGED <<mode, memory, drawn, row, offset, rest, disturbed>>

(* An error: the descriptor is closed, and the service starts again. *)
Fail ==
    /\ pc # "closed"
    /\ pc' = "closed"
    /\ layout' = Closed
    /\ UNCHANGED <<mode, memory, drawn, row, offset, rest, disturbed>>

(* Mutant: the mode is not read again. *)
DrawUnread ==
    /\ pc \in {"ready", "drawn"} /\ drawn < MaxFrames
    /\ drawn' = drawn + 1
    /\ row' = 0
    /\ offset' = FirstByte(layout)
    /\ rest' = IF Contiguous(layout) THEN RowBytes * Height ELSE RowBytes
    /\ pc' = "write" /\ disturbed' = FALSE
    /\ UNCHANGED <<mode, layout, memory>>

(* draw: the mode must still be the one the device was opened with. *)
Draw ==
    /\ pc \in {"ready", "drawn"} /\ mode = layout /\ drawn < MaxFrames
    /\ drawn' = drawn + 1
    /\ row' = 0
    /\ offset' = FirstByte(layout)
    /\ rest' = IF Contiguous(layout) THEN RowBytes * Height ELSE RowBytes
    /\ pc' = "write" /\ disturbed' = FALSE
    /\ UNCHANGED <<mode, layout, memory>>

(* _write_all: one pwrite, which may write less than it was given.  One    *)
(* that is interrupted is made again; one that writes nothing is an error. *)
Write ==
    /\ pc = "write" /\ rest > 0
    /\ \E n \in 1..rest :
         /\ memory' = [b \in DOMAIN memory |->
                         IF b \in offset .. offset + n - 1 THEN drawn ELSE memory[b]]
         /\ offset' = offset + n
         /\ rest' = rest - n
    /\ UNCHANGED <<mode, layout, drawn, pc, row, disturbed>>

NextRow ==
    /\ pc = "write" /\ rest = 0
    /\ ~Contiguous(layout) /\ row < Height - 1
    /\ row' = row + 1
    /\ offset' = RowStart(layout, row + 1)
    /\ rest' = RowBytes
    /\ UNCHANGED <<mode, layout, memory, drawn, pc, disturbed>>

Drawn ==
    /\ pc = "write" /\ rest = 0
    /\ Contiguous(layout) \/ row = Height - 1
    /\ pc' = "drawn"
    /\ UNCHANGED <<mode, layout, memory, drawn, row, offset, rest, disturbed>>

(* Somebody else sets a mode: no ioctl of the daemon can prevent it. *)
SetMode ==
    /\ mode' \in Modes \ {mode}
    /\ disturbed' = TRUE
    /\ UNCHANGED <<layout, memory, drawn, pc, row, offset, rest>>

Init ==
    /\ mode \in Modes
    /\ layout = Closed
    /\ memory = [b \in 0..Bytes - 1 |-> 0]
    /\ drawn = 0 /\ pc = "closed" /\ row = 0 /\ offset = 0 /\ rest = 0
    /\ disturbed = FALSE

Next == Open \/ Fail \/ Draw \/ Write \/ NextRow \/ Drawn \/ SetMode

Spec == Init /\ [][Next]_vars

-----------------------------------------------------------------------------
(* The types of the device, of the layout read from it and of the writes. *)
TypeOK ==
    /\ mode \in Modes
    /\ layout \in Modes \cup {Closed}
    /\ memory \in [0..Bytes - 1 -> 0..MaxFrames]
    /\ drawn \in 0..MaxFrames
    /\ pc \in {"closed", "ready", "write", "drawn"}
    /\ row \in 0..Height - 1
    /\ offset \in Nat /\ rest \in Nat
    /\ disturbed \in BOOLEAN

(* Whatever the kernel reported and however the writes are cut, the next   *)
(* pwrite lies inside the screen of the accepted layout and inside the     *)
(* memory of the device.                                                   *)
NextWriteIsVisible ==
    pc = "write" =>
        \A b \in offset .. offset + rest - 1 : b \in Visible(layout) /\ b < layout.memory

(* A frame that was drawn is on the screen completely, in the mode the     *)
(* device really has, unless that was set while it was being drawn: no     *)
(* byte of an older frame is left between short writes and rows.           *)
NoTornFrame ==
    pc = "drawn" /\ ~disturbed => \A b \in Visible(mode) : memory[b] = drawn
=============================================================================
