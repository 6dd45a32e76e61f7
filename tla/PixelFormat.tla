---------------------------- MODULE PixelFormat ----------------------------
(***************************************************************************)
(* board-support/e87n/display.py: the RGB565 bitfields accepted by         *)
(* validate_framebuffer, in whatever order the kernel reports them, and    *)
(* pack_rgb565, which packs a colour into them.                            *)
(***************************************************************************)
EXTENDS Integers

CONSTANTS Offsets, \* bit offsets the kernel may report
          Shades   \* channel values of the rendered image, 0..255

(* What an ioctl and an image may hold. *)
FieldsAreReported == Offsets \subseteq Nat /\ Shades \subseteq 0..255

VARIABLES fields, \* the offsets of red, green and blue
          colour, \* the pixel's channels
          word    \* the packed pixel; -1 when there is none

vars == <<fields, colour, word>>

Channels == {"red", "green", "blue"}
Length == [red |-> 5, green |-> 6, blue |-> 5]

Bits(f, ch) == f[ch] .. f[ch] + Length[ch] - 1

(* validate_framebuffer's loop over the bitfields and its mask. *)
Accepted(f) ==
    /\ \A ch \in Channels : f[ch] <= 16 - Length[ch]
    /\ \A ch, other \in Channels : ch # other => Bits(f, ch) \cap Bits(f, other) = {}
    /\ UNION {Bits(f, ch) : ch \in Channels} = 0..15

(* The channel's most significant bits. *)
Quantized(shade, ch) == shade \div 2^(8 - Length[ch])

(* Mutant: the channels are taken to be in the usual order. *)
PackedInOrder(c, f) ==
    Quantized(c.red, "red") * 2^11 + Quantized(c.green, "green") * 2^5
      + Quantized(c.blue, "blue")

(* pack_rgb565 for one pixel *)
Packed(c, f) ==
    Quantized(c.red, "red") * 2^f.red + Quantized(c.green, "green") * 2^f.green
      + Quantized(c.blue, "blue") * 2^f.blue

Pack ==
    /\ word = -1 /\ Accepted(fields)
    /\ word' = Packed(colour, fields)
    /\ UNCHANGED <<fields, colour>>

Init ==
    /\ fields \in [Channels -> Offsets]
    /\ colour \in [Channels -> Shades]
    /\ word = -1

Next == Pack

Spec == Init /\ [][Next]_vars

-----------------------------------------------------------------------------
(* What the panel shows of a word: the bits of the channel. *)
Shown(w, f, ch) == (w \div 2^f[ch]) % 2^Length[ch]

(* Each channel's bits reach its own field and no other, and the word fits *)
(* the array of unsigned shorts (line 178 checks it).               *)
PixelIsFaithful ==
    word # -1 => /\ word >= 0 /\ word <= 65535
                 /\ \A ch \in Channels : Shown(word, fields, ch) = Quantized(colour[ch], ch)

(* The fields follow each other from bit 0 on, in one of the six orders. *)
Tiling(f) ==
    \E first, second, third \in Channels :
        /\ {first, second, third} = Channels
        /\ f[first] = 0
        /\ f[second] = Length[first]
        /\ f[third] = Length[first] + Length[second]

(* A word is packed only for bitfields in one of those orders: reported    *)
(* fields that overlap, leave a bit out or leave the word are refused.     *)
OnlyTilingsArePacked == word # -1 => Tiling(fields)
=============================================================================
