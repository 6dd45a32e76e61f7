----------------------------- MODULE ScreenProofs -----------------------------
(***************************************************************************)
(* For every screen size and every set of modes the kernel may report: the *)
(* daemon only writes to the visible screen, inside the device's memory,   *)
(* and what it calls drawn is on the screen completely.                    *)
(***************************************************************************)
EXTENDS MCScreen, Sequences, WellFoundedInduction, TLAPS

(* A product grows with its first factor. *)
LEMMA ProductGrows ==
    ASSUME NEW a \in Nat, NEW b \in Nat, NEW c \in Nat, a <= b
    PROVE  a * c <= b * c /\ a * c \in Nat /\ b * c \in Nat
<1>1. PICK d \in Nat : b = a + d
  <2>1. b - a \in Nat /\ b = a + (b - a)
    OBVIOUS
  <2> QED
    BY <2>1
<1>2. (a + d) * c = a * c + d * c
  OBVIOUS
<1>3. a * c \in Nat /\ d * c \in Nat
  OBVIOUS
<1> QED
  BY <1>1, <1>2, <1>3

-----------------------------------------------------------------------------
(* Three fields of five, six and five bits that neither overlap nor leave  *)
(* the sixteen bits of the word fill it, in one of six orders.             *)
LEMMA AcceptedFields ==
    ASSUME NEW f \in [Pixel!Channels -> Nat], Pixel!Accepted(f)
    PROVE  \/ f["red"] = 0 /\ f["green"] = 5 /\ f["blue"] = 11
           \/ f["red"] = 0 /\ f["green"] = 10 /\ f["blue"] = 5
           \/ f["red"] = 6 /\ f["green"] = 0 /\ f["blue"] = 11
           \/ f["red"] = 11 /\ f["green"] = 0 /\ f["blue"] = 6
           \/ f["red"] = 5 /\ f["green"] = 10 /\ f["blue"] = 0
           \/ f["red"] = 11 /\ f["green"] = 5 /\ f["blue"] = 0
<1> DEFINE r == f["red"]
           g == f["green"]
           b == f["blue"]
<1>1. r \in Nat /\ g \in Nat /\ b \in Nat
  BY DEF Pixel!Channels
<1>2. r <= 11 /\ g <= 10 /\ b <= 11
  BY DEF Pixel!Accepted, Pixel!Channels, Pixel!Length
<1>3. /\ r..r + 4 \cap g..g + 5 = {} /\ r..r + 4 \cap b..b + 4 = {}
      /\ g..g + 5 \cap b..b + 4 = {}
  BY DEF Pixel!Accepted, Pixel!Channels, Pixel!Length, Pixel!Bits
<1> HIDE DEF r, g, b
<1>4. r + 5 <= g \/ g + 6 <= r
  <2>1. g \in r..r + 4 => g \in g..g + 5
    BY <1>1
  <2>2. r \in g..g + 5 => r \in r..r + 4
    BY <1>1
  <2>3. g \notin r..r + 4 /\ r \notin g..g + 5
    BY <1>3, <2>1, <2>2
  <2> QED
    BY <1>1, <2>3
<1>5. r + 5 <= b \/ b + 5 <= r
  <2>1. b \in r..r + 4 => b \in b..b + 4
    BY <1>1
  <2>2. r \in b..b + 4 => r \in r..r + 4
    BY <1>1
  <2>3. b \notin r..r + 4 /\ r \notin b..b + 4
    BY <1>3, <2>1, <2>2
  <2> QED
    BY <1>1, <2>3
<1>6. g + 6 <= b \/ b + 5 <= g
  <2>1. b \in g..g + 5 => b \in b..b + 4
    BY <1>1
  <2>2. g \in b..b + 4 => g \in g..g + 5
    BY <1>1
  <2>3. b \notin g..g + 5 /\ g \notin b..b + 4
    BY <1>3, <2>1, <2>2
  <2> QED
    BY <1>1, <2>3
<1>7. \/ r = 0 /\ g = 5 /\ b = 11
      \/ r = 0 /\ g = 10 /\ b = 5
      \/ r = 6 /\ g = 0 /\ b = 11
      \/ r = 11 /\ g = 0 /\ b = 6
      \/ r = 5 /\ g = 10 /\ b = 0
      \/ r = 11 /\ g = 5 /\ b = 0
  BY <1>1, <1>2, <1>4, <1>5, <1>6
<1> QED
  BY <1>7 DEF r, g, b

(* The order of the fields is one that Tiling names. *)
LEMMA AcceptedTiles ==
    ASSUME NEW f \in [Pixel!Channels -> Nat], Pixel!Accepted(f) PROVE Pixel!Tiling(f)
<1>1. \A first, second, third \in Pixel!Channels :
        {first, second, third} = Pixel!Channels =>
            (f[first] = 0 /\ f[second] = Pixel!Length[first]
               /\ f[third] = Pixel!Length[first] + Pixel!Length[second] => Pixel!Tiling(f))
  BY DEF Pixel!Tiling
<1>2. Pixel!Channels = {"red", "green", "blue"} /\ Pixel!Length["red"] = 5
      /\ Pixel!Length["green"] = 6 /\ Pixel!Length["blue"] = 5
  BY DEF Pixel!Channels, Pixel!Length
<1>3. CASE f["red"] = 0 /\ f["green"] = 5 /\ f["blue"] = 11
  BY <1>1, <1>2, <1>3
<1>4. CASE f["red"] = 0 /\ f["green"] = 10 /\ f["blue"] = 5
  BY <1>1, <1>2, <1>4
<1>5. CASE f["red"] = 6 /\ f["green"] = 0 /\ f["blue"] = 11
  BY <1>1, <1>2, <1>5
<1>6. CASE f["red"] = 11 /\ f["green"] = 0 /\ f["blue"] = 6
  BY <1>1, <1>2, <1>6
<1>7. CASE f["red"] = 5 /\ f["green"] = 10 /\ f["blue"] = 0
  BY <1>1, <1>2, <1>7
<1>8. CASE f["red"] = 11 /\ f["green"] = 5 /\ f["blue"] = 0
  BY <1>1, <1>2, <1>8
<1> QED
  BY <1>3, <1>4, <1>5, <1>6, <1>7, <1>8, AcceptedFields

(* What a pixel keeps of a channel. *)
LEMMA QuantizedShades ==
    ASSUME NEW shade \in 0..255
    PROVE  /\ Pixel!Quantized(shade, "red") \in 0..31
           /\ Pixel!Quantized(shade, "green") \in 0..63
           /\ Pixel!Quantized(shade, "blue") \in 0..31
<1>1. 2^(8 - 5) = 8 /\ 2^(8 - 6) = 4
  OBVIOUS
<1>2. /\ Pixel!Quantized(shade, "red") = shade \div 8
      /\ Pixel!Quantized(shade, "green") = shade \div 4
      /\ Pixel!Quantized(shade, "blue") = shade \div 8
  BY <1>1 DEF Pixel!Quantized, Pixel!Length
<1> QED
  BY <1>2

WordOf(r, g, b, R, G, B) == r * R + g * G + b * B

(* Fields r, g and b of a word w, at the weights R, G and B, are read back *)
(* by a division and a remainder.                                          *)
ReadBack(w, R, G, B, r, g, b) ==
    /\ w \in Nat /\ w <= 65535
    /\ (w \div R) % 32 = r /\ (w \div G) % 64 = g /\ (w \div B) % 32 = b

(* The weights of the six orders. *)
Weights(R, G, B) ==
    \/ R = 1 /\ G = 32 /\ B = 2048
    \/ R = 1 /\ G = 1024 /\ B = 32
    \/ R = 64 /\ G = 1 /\ B = 2048
    \/ R = 2048 /\ G = 1 /\ B = 64
    \/ R = 32 /\ G = 1024 /\ B = 1
    \/ R = 2048 /\ G = 32 /\ B = 1

LEMMA SixOrders ==
    ASSUME NEW r \in 0..31, NEW g \in 0..63, NEW b \in 0..31, NEW R, NEW G, NEW B, Weights(R, G, B)
    PROVE  ReadBack(WordOf(r, g, b, R, G, B), R, G, B, r, g, b)
<1>1. ReadBack(WordOf(r, g, b, 1, 32, 2048), 1, 32, 2048, r, g, b)
  <2>1. PICK w \in Nat : w = r * 1 + g * 32 + b * 2048
    OBVIOUS
  <2>2. w <= 65535
    BY <2>1
  <2>3. (w \div 1) % 32 = r
    BY <2>1
  <2>4. (w \div 32) % 64 = g
    BY <2>1
  <2>5. (w \div 2048) % 32 = b
    BY <2>1
  <2> QED
    BY <2>1, <2>2, <2>3, <2>4, <2>5 DEF ReadBack, WordOf
<1>2. ReadBack(WordOf(r, g, b, 1, 1024, 32), 1, 1024, 32, r, g, b)
  <2>1. PICK w \in Nat : w = r * 1 + g * 1024 + b * 32
    OBVIOUS
  <2>2. w <= 65535
    BY <2>1
  <2>3. (w \div 1) % 32 = r
    BY <2>1
  <2>4. (w \div 1024) % 64 = g
    BY <2>1
  <2>5. (w \div 32) % 32 = b
    BY <2>1
  <2> QED
    BY <2>1, <2>2, <2>3, <2>4, <2>5 DEF ReadBack, WordOf
<1>3. ReadBack(WordOf(r, g, b, 64, 1, 2048), 64, 1, 2048, r, g, b)
  <2>1. PICK w \in Nat : w = r * 64 + g * 1 + b * 2048
    OBVIOUS
  <2>2. w <= 65535
    BY <2>1
  <2>3. (w \div 64) % 32 = r
    BY <2>1
  <2>4. (w \div 1) % 64 = g
    BY <2>1
  <2>5. (w \div 2048) % 32 = b
    BY <2>1
  <2> QED
    BY <2>1, <2>2, <2>3, <2>4, <2>5 DEF ReadBack, WordOf
<1>4. ReadBack(WordOf(r, g, b, 2048, 1, 64), 2048, 1, 64, r, g, b)
  <2>1. PICK w \in Nat : w = r * 2048 + g * 1 + b * 64
    OBVIOUS
  <2>2. w <= 65535
    BY <2>1
  <2>3. (w \div 2048) % 32 = r
    BY <2>1
  <2>4. (w \div 1) % 64 = g
    BY <2>1
  <2>5. (w \div 64) % 32 = b
    BY <2>1
  <2> QED
    BY <2>1, <2>2, <2>3, <2>4, <2>5 DEF ReadBack, WordOf
<1>5. ReadBack(WordOf(r, g, b, 32, 1024, 1), 32, 1024, 1, r, g, b)
  <2>1. PICK w \in Nat : w = r * 32 + g * 1024 + b * 1
    OBVIOUS
  <2>2. w <= 65535
    BY <2>1
  <2>3. (w \div 32) % 32 = r
    BY <2>1
  <2>4. (w \div 1024) % 64 = g
    BY <2>1
  <2>5. (w \div 1) % 32 = b
    BY <2>1
  <2> QED
    BY <2>1, <2>2, <2>3, <2>4, <2>5 DEF ReadBack, WordOf
<1>6. ReadBack(WordOf(r, g, b, 2048, 32, 1), 2048, 32, 1, r, g, b)
  <2>1. PICK w \in Nat : w = r * 2048 + g * 32 + b * 1
    OBVIOUS
  <2>2. w <= 65535
    BY <2>1
  <2>3. (w \div 2048) % 32 = r
    BY <2>1
  <2>4. (w \div 32) % 64 = g
    BY <2>1
  <2>5. (w \div 1) % 32 = b
    BY <2>1
  <2> QED
    BY <2>1, <2>2, <2>3, <2>4, <2>5 DEF ReadBack, WordOf
<1>7. CASE R = 1 /\ G = 32 /\ B = 2048
  BY <1>1, <1>7
<1>8. CASE R = 1 /\ G = 1024 /\ B = 32
  BY <1>2, <1>8
<1>9. CASE R = 64 /\ G = 1 /\ B = 2048
  BY <1>3, <1>9
<1>10. CASE R = 2048 /\ G = 1 /\ B = 64
  BY <1>4, <1>10
<1>11. CASE R = 32 /\ G = 1024 /\ B = 1
  BY <1>5, <1>11
<1>12. CASE R = 2048 /\ G = 32 /\ B = 1
  BY <1>6, <1>12
<1> QED
  BY <1>7, <1>8, <1>9, <1>10, <1>11, <1>12 DEF Weights

(* The weights of accepted fields are those of one of the six orders.      *)
LEMMA AcceptedWeights ==
    ASSUME NEW f \in [Pixel!Channels -> Nat], Pixel!Accepted(f),
           NEW R, NEW G, NEW B, R = 2^f["red"], G = 2^f["green"], B = 2^f["blue"]
    PROVE  Weights(R, G, B)
<1> DEFINE P == [n \in Nat |-> 2^n]
<1>1. f["red"] \in Nat /\ f["green"] \in Nat /\ f["blue"] \in Nat
  BY DEF Pixel!Channels
<1>2. R = P[f["red"]] /\ G = P[f["green"]] /\ B = P[f["blue"]]
  BY <1>1
<1>3. P[0] = 1
  OBVIOUS
<1>4. P[5] = 32
  OBVIOUS
<1>5. P[6] = 64
  OBVIOUS
<1>6. P[10] = 1024
  OBVIOUS
<1>7. P[11] = 2048
  OBVIOUS
<1> HIDE DEF P
<1> QED
  BY <1>2, <1>3, <1>4, <1>5, <1>6, <1>7, AcceptedFields DEF Weights

(* Whatever order the kernel reports: a packed pixel gives its colour back *)
(* as far as its fields hold it, and fits sixteen bits.                    *)
LEMMA PackedIsReadBack ==
    ASSUME NEW f \in [Pixel!Channels -> Nat], Pixel!Accepted(f),
           NEW c \in [Pixel!Channels -> 0..255]
    PROVE  ReadBack(Pixel!Packed(c, f), 2^f["red"], 2^f["green"], 2^f["blue"],
                    Pixel!Quantized(c["red"], "red"), Pixel!Quantized(c["green"], "green"),
                    Pixel!Quantized(c["blue"], "blue"))
<1>1. PICK R, G, B : R = 2^f["red"] /\ G = 2^f["green"] /\ B = 2^f["blue"]
  OBVIOUS
<1>2. PICK r \in 0..31, g \in 0..63, b \in 0..31 :
        /\ r = Pixel!Quantized(c["red"], "red")
        /\ g = Pixel!Quantized(c["green"], "green")
        /\ b = Pixel!Quantized(c["blue"], "blue")
  BY QuantizedShades DEF Pixel!Channels
<1>3. Pixel!Packed(c, f) = WordOf(r, g, b, R, G, B)
  BY <1>1, <1>2 DEF Pixel!Packed, WordOf
<1>4. ReadBack(WordOf(r, g, b, R, G, B), R, G, B, r, g, b)
  <2>1. Weights(R, G, B)
    BY <1>1, AcceptedWeights
  <2> QED
    BY <2>1, SixOrders
<1> QED
  BY <1>1, <1>2, <1>3, <1>4

PixelInv ==
    /\ fields \in [Pixel!Channels -> Nat] /\ colour \in [Pixel!Channels -> 0..255]
    /\ word # -1 => Pixel!Accepted(fields) /\ word = Pixel!Packed(colour, fields)

(* Pixels keep their colour in every order of the channels that is         *)
(* accepted, and no other bitfields are packed at all: for all offsets the *)
(* kernel may report and all shades (validate_framebuffer, pack_rgb565).   *)
THEOREM PixelsKeepTheirColour == ScreenSpec => []PixelIsFaithful
<1> DEFINE Inv == part = "pixels" => PixelInv
<1>1. ScreenInit => Inv
  BY FieldsAssumption DEF ScreenInit, Pixel!Init, PixelInv, Pixel!FieldsAreReported
<1>2. Inv /\ [ScreenNext]_allVars => Inv'
  <2> SUFFICES ASSUME Inv, [ScreenNext]_allVars, part' = "pixels" PROVE PixelInv'
    OBVIOUS
  <2>1. part = "pixels" /\ PixelInv /\ (Pixel!Pack \/ UNCHANGED pixelVars)
    BY DEF ScreenNext, InDaemon, allVars, Pixel!Next
  <2>2. UNCHANGED <<fields, colour>>
    BY <2>1 DEF Pixel!Pack, pixelVars
  <2>3. /\ Pixel!Accepted(fields)' <=> Pixel!Accepted(fields)
        /\ Pixel!Packed(colour, fields)' = Pixel!Packed(colour, fields)
    BY <2>2 DEF Pixel!Accepted, Pixel!Packed, Pixel!Bits, Pixel!Quantized
  <2>4. CASE Pixel!Pack
    <3>1. Pixel!Accepted(fields) /\ word' = Pixel!Packed(colour, fields)
      BY <2>4 DEF Pixel!Pack
    <3> QED
      BY <2>1, <2>2, <2>3, <3>1 DEF PixelInv
  <2>5. CASE UNCHANGED pixelVars
    BY <2>1, <2>2, <2>3, <2>5 DEF PixelInv, pixelVars
  <2> QED
    BY <2>1, <2>4, <2>5
<1>3. Inv => PixelIsFaithful
  <2> SUFFICES ASSUME PixelInv, word # -1
               PROVE  Pixel!PixelIsFaithful /\ Pixel!OnlyTilingsArePacked
    BY DEF PixelIsFaithful, Pixel!PixelIsFaithful, Pixel!OnlyTilingsArePacked
  <2>1. /\ fields \in [Pixel!Channels -> Nat] /\ colour \in [Pixel!Channels -> 0..255]
        /\ Pixel!Accepted(fields) /\ word = Pixel!Packed(colour, fields)
    BY DEF PixelInv
  <2>2. Pixel!Tiling(fields)
    BY <2>1, AcceptedTiles
  <2>3. ReadBack(word, 2^fields["red"], 2^fields["green"], 2^fields["blue"],
                 Pixel!Quantized(colour["red"], "red"), Pixel!Quantized(colour["green"], "green"),
                 Pixel!Quantized(colour["blue"], "blue"))
    BY <2>1, PackedIsReadBack
  <2>4. 2^5 = 32
    OBVIOUS
  <2>5. 2^6 = 64
    OBVIOUS
  <2>6. /\ Pixel!Shown(word, fields, "red") = Pixel!Quantized(colour["red"], "red")
        /\ Pixel!Shown(word, fields, "green") = Pixel!Quantized(colour["green"], "green")
        /\ Pixel!Shown(word, fields, "blue") = Pixel!Quantized(colour["blue"], "blue")
    BY <2>3, <2>4, <2>5 DEF ReadBack, Pixel!Shown, Pixel!Length
  <2>7. word >= 0 /\ word <= 65535
    BY <2>3 DEF ReadBack
  <2> QED
    BY <2>2, <2>6, <2>7 DEF Pixel!PixelIsFaithful, Pixel!OnlyTilingsArePacked,
       Pixel!Channels
<1> QED
  BY <1>1, <1>2, <1>3, PTL DEF ScreenSpec

-----------------------------------------------------------------------------
(* The least of some natural numbers. *)
LEMMA LeastIsOneOfThem ==
    ASSUME NEW S \in SUBSET Nat, S # {} PROVE Daemon!Min(S) \in S
<1> DEFINE Less == {pair \in Nat \X Nat : pair[1] < pair[2]}
<1>1. IsWellFoundedOn(Less, Nat)
  BY NatLessThanWellFounded DEF OpToRel
<1>2. \A m, n \in Nat : m < n => <<m, n>> \in Less
  OBVIOUS
<1> HIDE DEF Less
<1>3. PICK n \in S : \A m \in S : ~(<<m, n>> \in Less)
  BY <1>1, WFMin
<1>4. \A m \in S : m \in Nat /\ n \in Nat /\ ~(m < n)
  BY <1>2, <1>3
<1>5. \A m \in S : n <= m
  BY <1>4
<1> QED
  BY <1>5 DEF Daemon!Min

(* The requested pages are known ones. *)
LEMMA RequestedPages ==
    ASSUME NEW c \in Configs
    PROVE  /\ DOMAIN Daemon!Requested(c) \subseteq Nat
           /\ \A i \in DOMAIN Daemon!Requested(c) : Daemon!Requested(c)[i] \in Screens
<1>1. c.pages \in Seq(Screens) /\ c.screen \in Screens
  BY ConfigsAssumption DEF Daemon!ConfigsAreValid
<1>2. Daemon!Requested(c) \in Seq(Screens)
  BY <1>1 DEF Daemon!Requested
<1> QED
  BY <1>2

(* Whatever is requested, the pages that can be chosen have data, and so   *)
(* have the first and the next of them: the overview always has.           *)
LEMMA PagesHaveData ==
    ASSUME NEW c \in Configs, NEW present \in SUBSET Screens, Overview \in present
    PROVE  /\ Daemon!DaemonPages(c, present) \subseteq present
           /\ Daemon!FirstPage(c, present) \in present
           /\ \A page : Daemon!Following(c, present, page) \in present
<1>1. ASSUME NEW positions \in SUBSET Daemon!Available(c, present)
      PROVE  Daemon!FirstOf(c, positions) \in present
  <2>1. positions # {} => Daemon!Min(positions) \in positions
    BY RequestedPages, LeastIsOneOfThem DEF Daemon!Available
  <2> QED
    BY <2>1 DEF Daemon!FirstOf, Daemon!Available
<1>2. Daemon!FirstPage(c, present) \in present
  BY <1>1 DEF Daemon!FirstPage
<1>3. \A page : Daemon!Following(c, present, page) \in present
  BY <1>1 DEF Daemon!Following
<1>4. Daemon!DaemonPages(c, present) \subseteq present
  BY DEF Daemon!DaemonPages, Daemon!Available
<1> QED
  BY <1>2, <1>3, <1>4

(* What the last sample means until the next: the overview is in it, and   *)
(* an enabled display has its device open.                                 *)
Sampled ==
    daemonPc \in {"choose", "draw"} => Overview \in sample /\ (config.enabled => open)

(* What was chosen from the sample has data. *)
Chosen == daemonPc = "draw" => active \in sample

(* The deadline is as far as the page's seconds are from its age. *)
Clock ==
    \A c \in Configs :
        identity = Daemon!Identity(c) /\ c.rotation => c.seconds <= left + age

DaemonInv == Daemon!TypeOK /\ Overview \in live /\ Sampled /\ Chosen /\ Clock

(* What the validation of the settings leaves, with the sentinel apart. *)
LEMMA ConfigFacts ==
    /\ Overview \in Screens /\ Invalid \notin Configs /\ MaxSeconds \in Nat
    /\ \A c \in Configs :
         /\ c.screen \in Screens /\ c.refresh \in Nat
         /\ c.seconds \in Nat /\ c.seconds >= 1 /\ c.seconds <= MaxSeconds
         /\ Daemon!Identity(c) # Invalid
         /\ \A d \in Configs : Daemon!Identity(c) = Daemon!Identity(d) =>
                c.rotation = d.rotation /\ c.seconds = d.seconds
BY ConfigsAssumption DEF Daemon!ConfigsAreValid, Daemon!Identity

LEMMA DaemonInit == Daemon!Init => DaemonInv
<1> SUFFICES ASSUME Daemon!Init PROVE DaemonInv
  OBVIOUS
<1>1. PICK c \in Configs : saved = c
  BY DEF Daemon!Init
<1>2. 0 \in 0..MaxSeconds
  BY <1>1, ConfigFacts
<1>3. Daemon!TypeOK /\ Overview \in live
  BY <1>1, <1>2, ConfigFacts DEF Daemon!Init, Daemon!TypeOK, Daemon!Steps
<1>4. Sampled /\ Chosen
  BY DEF Daemon!Init, Sampled, Chosen
<1>5. Clock
  BY ConfigFacts DEF Daemon!Init, Clock
<1> QED
  BY <1>3, <1>4, <1>5 DEF DaemonInv

(* A page chosen in an iteration has data in the sample of the iteration.  *)
LEMMA ChoiceKeeps ==
    ASSUME DaemonInv, NEW page \in sample, Daemon!Choose(page),
           left' \in 0..MaxSeconds, age' \in 0..MaxSeconds,
           identity' \in {Daemon!Identity(c) : c \in Configs} \cup {Invalid}, Clock'
    PROVE  DaemonInv'
<1>1. /\ daemonPc = "choose" /\ active' = page /\ daemonPc' = "draw"
      /\ UNCHANGED <<saved, live, config, sample, open, nap, frame>>
  BY DEF Daemon!Choose
<1>2. Daemon!TypeOK' /\ Overview \in live'
  BY <1>1 DEF DaemonInv, Daemon!TypeOK, Daemon!Steps
<1>3. Sampled' /\ Chosen'
  BY <1>1 DEF DaemonInv, Sampled, Chosen
<1> QED
  BY <1>2, <1>3 DEF DaemonInv

LEMMA ChoosingKeeps ==
    ASSUME DaemonInv,
           Daemon!NewSettings \/ Daemon!PageLost \/ Daemon!TurnPage
             \/ Daemon!StayOnPage \/ Daemon!FixedPage
    PROVE  DaemonInv'
<1>1. daemonPc = "choose" /\ UNCHANGED config
  BY DEF Daemon!NewSettings, Daemon!PageLost, Daemon!TurnPage, Daemon!StayOnPage,
         Daemon!KeepPage, Daemon!FixedPage, Daemon!Choose
<1>2. /\ config \in Configs /\ sample \in SUBSET Screens /\ Overview \in sample
      /\ left \in 0..MaxSeconds /\ age \in 0..MaxSeconds
      /\ identity \in {Daemon!Identity(c) : c \in Configs} \cup {Invalid} /\ Clock
  BY <1>1 DEF DaemonInv, Sampled, Daemon!TypeOK
<1>3. /\ Daemon!Pages \subseteq sample /\ Daemon!FirstPage(config, sample) \in sample
      /\ Daemon!Following(config, sample, active) \in sample
  BY <1>2, PagesHaveData DEF Daemon!Pages
<1>4. config.seconds \in 0..MaxSeconds /\ 0 \in 0..MaxSeconds
  BY <1>2, ConfigFacts
<1>5. ASSUME left' = config.seconds, age' = 0, identity' = Daemon!Identity(config)
      PROVE  Clock'
  <2>1. \A c \in Configs : identity' = Daemon!Identity(c) => c.seconds = config.seconds
    BY <1>2, <1>5, ConfigFacts
  <2>2. config.seconds <= left' + age'
    BY <1>4, <1>5, ConfigFacts
  <2> QED
    BY <2>1, <2>2 DEF Clock
<1>6. CASE Daemon!NewSettings
  <2>1. Daemon!Choose(IF config.rotation /\ config.screen \in Daemon!Pages THEN config.screen
                      ELSE Daemon!FirstPage(config, sample))
        /\ left' = config.seconds /\ age' = 0 /\ identity' = Daemon!Identity(config)
    BY <1>6 DEF Daemon!NewSettings, Daemon!ResetDeadline
  <2> QED
    BY <1>2, <1>3, <1>4, <1>5, <2>1, ChoiceKeeps
<1>7. CASE Daemon!PageLost
  <2>1. Daemon!Choose(Daemon!FirstPage(config, sample))
        /\ left' = config.seconds /\ age' = 0 /\ identity' = Daemon!Identity(config)
    BY <1>7 DEF Daemon!PageLost, Daemon!ResetDeadline
  <2> QED
    BY <1>2, <1>3, <1>4, <1>5, <2>1, ChoiceKeeps
<1>8. CASE Daemon!TurnPage
  <2>1. Daemon!Choose(Daemon!Following(config, sample, active))
        /\ left' = config.seconds /\ age' = 0 /\ identity' = Daemon!Identity(config)
    BY <1>8 DEF Daemon!TurnPage, Daemon!ResetDeadline
  <2> QED
    BY <1>2, <1>3, <1>4, <1>5, <2>1, ChoiceKeeps
<1>9. CASE Daemon!StayOnPage
  <2>1. Daemon!Choose(active) /\ active \in Daemon!Pages /\ UNCHANGED <<identity, left, age>>
    BY <1>9 DEF Daemon!StayOnPage, Daemon!KeepPage
  <2>2. Clock'
    BY <1>2, <2>1 DEF Clock
  <2> QED
    BY <1>2, <1>3, <2>1, <2>2, ChoiceKeeps
<1>10. CASE Daemon!FixedPage
  <2>1. /\ Daemon!Choose(Daemon!FirstPage(config, sample)) /\ UNCHANGED <<identity, left>>
        /\ identity = Daemon!Identity(config) /\ ~config.rotation /\ age' \in {age, 0}
    BY <1>10 DEF Daemon!FixedPage
  <2>2. Clock'
    BY <1>2, <2>1, ConfigFacts DEF Clock
  <2> QED
    BY <1>2, <1>3, <1>4, <2>1, <2>2, ChoiceKeeps
<1> QED
  BY <1>6, <1>7, <1>8, <1>9, <1>10

(* The steps of an iteration that choose nothing. *)
LEMMA LoadKeeps ==
    ASSUME DaemonInv, Daemon!Load \/ Daemon!Sample \/ Daemon!DeviceError PROVE DaemonInv'
<1> USE DEF DaemonInv
<1>1. UNCHANGED <<saved, live, identity, active, left, nap, frame, age>>
      /\ daemonPc' \in {"dead", "sample", "choose"}
  BY DEF Daemon!Load, Daemon!Sample, Daemon!DeviceError, Daemon!Die
<1>2. Clock' /\ Chosen'
  BY <1>1 DEF Clock, Chosen
<1>3. CASE Daemon!Load \/ Daemon!DeviceError
  <2>1. config' \in Configs /\ sample' \in SUBSET Screens /\ open' \in BOOLEAN
        /\ daemonPc' \in {"dead", "sample"}
    BY <1>3 DEF Daemon!Load, Daemon!DeviceError, Daemon!Die, Daemon!TypeOK
  <2> QED
    BY <1>1, <1>2, <2>1 DEF Daemon!TypeOK, Daemon!Steps, Sampled
<1>4. CASE Daemon!Sample
  <2>1. config' = config /\ config.enabled \in BOOLEAN /\ config \in Configs
    BY <1>4, ConfigsAssumption DEF Daemon!Sample, Daemon!TypeOK, Daemon!ConfigsAreValid
  <2>2. sample' \in SUBSET Screens /\ Overview \in sample'
    BY <1>4, ConfigFacts DEF Daemon!Sample, Daemon!TypeOK
  <2>3. open' = (open \/ config.enabled) /\ open \in BOOLEAN
    BY <1>4 DEF Daemon!Sample, Daemon!TypeOK
  <2>4. open' \in BOOLEAN /\ (config.enabled => open')
    BY <2>1, <2>3, Zenon
  <2> QED
    BY <1>1, <1>2, <2>1, <2>2, <2>4 DEF Daemon!TypeOK, Daemon!Steps, Sampled
<1> QED
  BY <1>3, <1>4

LEMMA RestKeeps ==
    ASSUME DaemonInv,
           Daemon!Draw \/ Daemon!Wake \/ Daemon!Restart \/ Daemon!Edit \/ Daemon!Sense
             \/ UNCHANGED daemonVars
    PROVE  DaemonInv'
<1> USE DEF DaemonInv
<1>1. UNCHANGED <<config, sample, open, active, left, age>>
  BY DEF Daemon!Draw, Daemon!Wake, Daemon!Restart, Daemon!Edit, Daemon!Sense, daemonVars
<1>2. /\ daemonPc' \in {"sleep", "load"} \/ daemonPc' = daemonPc
      /\ identity' \in {identity, Invalid}
  BY DEF Daemon!Draw, Daemon!Wake, Daemon!Restart, Daemon!Edit, Daemon!Sense, daemonVars
<1>3. Sampled' /\ Chosen'
  BY <1>1, <1>2 DEF Sampled, Chosen
<1>4. Clock'
  BY <1>1, <1>2, ConfigFacts DEF Clock
<1>5. saved' \in Configs \cup {Invalid} /\ live' \in SUBSET Screens /\ Overview \in live'
  BY DEF Daemon!Draw, Daemon!Wake, Daemon!Restart, Daemon!Edit, Daemon!Sense, daemonVars,
         Daemon!TypeOK
<1>6. frame' \in Screens /\ nap' \in Nat
  <2>1. config.refresh \in Nat /\ left \in Nat
    BY ConfigFacts DEF Daemon!TypeOK
  <2> QED
    BY <2>1 DEF Daemon!Draw, Daemon!Wake, Daemon!Restart, Daemon!Edit, Daemon!Sense,
       daemonVars,
         Daemon!TypeOK, Daemon!Lesser
<1>7. Daemon!TypeOK'
  BY <1>1, <1>2, <1>5, <1>6 DEF Daemon!TypeOK, Daemon!Steps
<1> QED
  BY <1>3, <1>4, <1>5, <1>7

(* A second takes from the deadline what it adds to the age. *)
LEMMA TickKeeps ==
    ASSUME DaemonInv, Daemon!Tick PROVE DaemonInv'
<1> USE DEF DaemonInv
<1>1. UNCHANGED <<saved, live, daemonPc, config, sample, open, identity, active, frame>>
  BY DEF Daemon!Tick
<1>2. left \in 0..MaxSeconds /\ age \in 0..MaxSeconds /\ nap \in Nat
  BY DEF Daemon!TypeOK
<1>3. left' \in 0..MaxSeconds /\ age' \in 0..MaxSeconds /\ nap' \in Nat
  BY <1>2, ConfigFacts DEF Daemon!Tick
<1>4. age' = MaxSeconds \/ left' + age' >= left + age
  BY <1>2 DEF Daemon!Tick
<1>5. Clock'
  <2> SUFFICES ASSUME NEW c \in Configs, identity' = Daemon!Identity(c), c.rotation
               PROVE  c.seconds <= left' + age'
    BY DEF Clock
  <2>1. c.seconds \in Nat /\ c.seconds <= MaxSeconds /\ c.seconds <= left + age
    BY <1>1, ConfigFacts DEF Clock
  <2>2. MaxSeconds \in Nat /\ left \in Nat /\ age \in Nat /\ left' \in Nat /\ age' \in Nat
    BY <1>2, <1>3, ConfigFacts
  <2>3. CASE age' = MaxSeconds
    BY <2>1, <2>2, <2>3
  <2>4. CASE left' + age' >= left + age
    <3>1. \A s, l, a, m, b \in Nat : s <= l + a /\ m + b >= l + a => s <= m + b
      OBVIOUS
    <3> QED
      BY <2>1, <2>2, <2>4, <3>1, Zenon
  <2> QED
    BY <1>4, <2>3, <2>4
<1>6. Daemon!TypeOK' /\ Overview \in live' /\ Sampled' /\ Chosen'
  BY <1>1, <1>3 DEF Daemon!TypeOK, Sampled, Chosen
<1> QED
  BY <1>5, <1>6

LEMMA DaemonKeeps == DaemonInv /\ (Daemon!Next \/ UNCHANGED daemonVars) => DaemonInv'
BY ChoosingKeeps, LoadKeeps, RestKeeps, TickKeeps DEF Daemon!Next, Daemon!Iterate

(* The daemon is there in a behaviour of it, and stands still otherwise.   *)
LEMMA ScreenDaemon == ScreenSpec => [](part = "daemon" => DaemonInv)
<1>1. ScreenInit => (part = "daemon" => DaemonInv)
  BY DaemonInit DEF ScreenInit
<1>2. (part = "daemon" => DaemonInv) /\ [ScreenNext]_allVars => (part = "daemon" => DaemonInv)'
  <2> SUFFICES ASSUME part = "daemon" => DaemonInv, [ScreenNext]_allVars, part' = "daemon"
               PROVE  DaemonInv'
    OBVIOUS
  <2>1. part = "daemon" /\ (Daemon!Next \/ UNCHANGED daemonVars)
    BY DEF ScreenNext, InDaemon, allVars
  <2> QED
    BY <2>1, DaemonKeeps
<1> QED
  BY <1>1, <1>2, PTL DEF ScreenSpec

(* For every set of pages and settings: the page that is drawn has data in *)
(* the sample it was chosen from, whatever the administrator, the sensors  *)
(* and the service did between the steps of the iteration (run_daemon).    *)
THEOREM PagesDrawnHaveData == ScreenSpec => []DrawnPageHasData
<1>1. (part = "daemon" => DaemonInv) => DrawnPageHasData
  BY DEF DaemonInv, Sampled, Chosen, DrawnPageHasData, Daemon!DrawnPageHasData
<1> QED
  BY <1>1, ScreenDaemon, PTL

(* No page of the rotation is left before its seconds are over, unless its *)
(* data went away or its settings changed: not at a restart, and not by    *)
(* switching the display off and on (run_daemon, 1177-1188).               *)
THEOREM PagesKeepTheirTime == ScreenSpec => PageKeepsItsTime
<1> DEFINE Kept == active' # active /\ identity' = identity /\ config.rotation
                     => age >= config.seconds \/ active \notin Daemon!Pages
<1>1. ASSUME DaemonInv, Daemon!Next PROVE Kept
  <2> SUFFICES ASSUME active' # active, identity' = identity, config.rotation,
                      active \in Daemon!Pages
               PROVE  age >= config.seconds
    OBVIOUS
  <2>1. Daemon!TurnPage
    BY <1>1 DEF Daemon!Next, Daemon!Iterate, Daemon!Load, Daemon!Sample, Daemon!NewSettings,
         Daemon!PageLost, Daemon!StayOnPage, Daemon!KeepPage, Daemon!FixedPage, Daemon!Choose,
         Daemon!Draw, Daemon!Wake, Daemon!Restart, Daemon!DeviceError, Daemon!Die, Daemon!Edit,
         Daemon!Sense, Daemon!Tick
  <2>2. /\ left = 0 /\ identity = Daemon!Identity(config) /\ config \in Configs
        /\ age \in 0..MaxSeconds
    BY <1>1, <2>1 DEF Daemon!TurnPage, DaemonInv, Daemon!TypeOK
  <2>3. config.seconds <= 0 + age
    BY <1>1, <2>2 DEF DaemonInv, Clock
  <2> QED
    BY <2>2, <2>3, ConfigFacts
<1>2. (part = "daemon" => DaemonInv) /\ [ScreenNext]_allVars => [Kept]_daemonVars
  <2> SUFFICES ASSUME part = "daemon" => DaemonInv, [ScreenNext]_allVars,
                      ~UNCHANGED daemonVars
               PROVE  Kept
    OBVIOUS
  <2>1. part = "daemon" /\ Daemon!Next
    BY DEF ScreenNext, InDaemon, allVars
  <2> QED
    BY <1>1, <2>1
<1>3. [Kept]_daemonVars => [Kept]_(Daemon!vars)
  BY DEF daemonVars, Daemon!vars
<1> QED
  BY <1>2, <1>3, ScreenDaemon, PTL DEF ScreenSpec, PageKeepsItsTime, Daemon!PageKeepsItsTime

-----------------------------------------------------------------------------
(* The row being written, as a stretch of bytes. *)
InRow ==
    /\ ~Contiguous(layout)
    /\ RowStart(layout, row) <= offset
    /\ offset + rest = RowStart(layout, row) + RowBytes

(* The screen being written in one piece. *)
InScreen ==
    /\ Contiguous(layout)
    /\ FirstByte(layout) <= offset
    /\ offset + rest = FirstByte(layout) + RowBytes * Height

Writing ==
    /\ pc # "closed" => layout \in Modes /\ Valid(layout)
    /\ pc = "write" => InRow \/ InScreen

Core == TypeOK /\ Writing

USE ScreenAssumption, MemoryAssumption, ModesAssumption

LEMMA ModeTypes ==
    ASSUME NEW m \in Modes
    PROVE  /\ m.stride \in Nat /\ m.x \in Nat /\ m.y \in Nat /\ m.memory \in Nat
           /\ RowBytes \in Nat \ {0} /\ FirstByte(m) \in Nat
           /\ \A r \in Nat : RowStart(m, r) \in Nat
<1>1. m.stride \in Nat /\ m.x \in Nat /\ m.y \in Nat /\ m.memory \in Nat
  BY DEF Mode
<1>2. RowBytes \in Nat \ {0}
  BY DEF RowBytes
<1>3. FirstByte(m) \in Nat
  BY <1>1 DEF FirstByte
<1> QED
  BY <1>1, <1>2, <1>3 DEF RowStart

(* The last row of an accepted mode ends inside the memory, and so do the  *)
(* rows before it (validate_framebuffer, 153-156).                         *)
LEMMA RowsFit ==
    ASSUME NEW m \in Modes, Valid(m), NEW r \in 0..Height - 1
    PROVE  RowStart(m, r) + RowBytes <= m.memory
<1>1. RowStart(m, r) + RowBytes = (m.y + r) * m.stride + (m.x + Width) * 2
  BY ModeTypes DEF RowStart, FirstByte, RowBytes
<1>2. (m.y + r) * m.stride <= (m.y + Height - 1) * m.stride
  <2>1. m.y + r \in Nat /\ m.y + Height - 1 \in Nat /\ m.y + r <= m.y + Height - 1
    BY ModeTypes
  <2> QED
    BY <2>1, ProductGrows, ModeTypes
<1>3. (m.y + Height - 1) * m.stride + (m.x + Width) * 2 <= m.memory
  BY DEF Valid
<1>4. /\ (m.y + r) * m.stride \in Int /\ (m.y + Height - 1) * m.stride \in Int
      /\ (m.x + Width) * 2 \in Int /\ m.memory \in Int
  BY ModeTypes
<1> QED
  BY <1>1, <1>2, <1>3, <1>4

(* A whole number of rows, and where a byte lies among them. *)
LEMMA RowOfByte ==
    ASSUME NEW w \in Nat \ {0}, NEW h \in Nat \ {0}, NEW d \in 0 .. w * h - 1
    PROVE  \E r \in 0..h - 1 : r * w <= d /\ d <= r * w + w - 1
<1> DEFINE r == d \div w
<1>0. w * h \in Nat /\ d \in Nat /\ d < w * h
  OBVIOUS
<1>1. d = w * r + (d % w) /\ r \in Nat /\ d % w \in 0..w - 1
  BY <1>0
<1> HIDE DEF r
<1>2. w * r = r * w /\ r * w \in Nat
  BY <1>1
<1>3. r * w <= d /\ d <= r * w + w - 1
  BY <1>0, <1>1, <1>2
<1>4. r <= h - 1
  <2>1. SUFFICES ASSUME h <= r PROVE FALSE
    BY <1>1
  <2>2. h * w <= r * w
    BY <1>1, <2>1, ProductGrows
  <2>3. h * w = w * h
    OBVIOUS
  <2> QED
    BY <1>0, <1>2, <1>3, <2>2, <2>3
<1>5. r \in 0..h - 1
  BY <1>1, <1>4
<1> QED
  BY <1>3, <1>5

(* A screen without gaps is the one stretch of its bytes. *)
LEMMA ContiguousScreen ==
    ASSUME NEW m \in Modes, Valid(m), Contiguous(m)
    PROVE  /\ FirstByte(m) + RowBytes * Height <= m.memory
           /\ \A b \in FirstByte(m) .. FirstByte(m) + RowBytes * Height - 1 : b \in Visible(m)
<1>1. RowBytes * Height \in Nat /\ Height - 1 \in 0..Height - 1
  BY ModeTypes
<1>2. RowStart(m, Height - 1) + RowBytes = FirstByte(m) + RowBytes * Height
  <2>1. (Height - 1) * RowBytes + RowBytes = RowBytes * Height
    BY ModeTypes
  <2> QED
    BY <2>1, ModeTypes DEF RowStart, Contiguous
<1>3. FirstByte(m) + RowBytes * Height <= m.memory
  BY <1>1, <1>2, RowsFit
<1>4. ASSUME NEW b \in FirstByte(m) .. FirstByte(m) + RowBytes * Height - 1
      PROVE  b \in Visible(m)
  <2>1. b - FirstByte(m) \in 0 .. RowBytes * Height - 1
    BY <1>1, ModeTypes
  <2>2. PICK r \in 0..Height - 1 :
          r * RowBytes <= b - FirstByte(m) /\ b - FirstByte(m) <= r * RowBytes + RowBytes - 1
    BY <2>1, RowOfByte, ModeTypes
  <2>3. r * RowBytes \in Nat /\ RowStart(m, r) = FirstByte(m) + r * RowBytes
    BY ModeTypes DEF RowStart, Contiguous
  <2>4. b \in RowStart(m, r) .. RowStart(m, r) + RowBytes - 1
    BY <2>2, <2>3, ModeTypes
  <2> QED
    BY <2>4 DEF Visible
<1> QED
  BY <1>3, <1>4

(* The inductive invariant gives the property. *)
LEMMA WritingIsVisible ==
    ASSUME Core PROVE NextWriteIsVisible
<1> SUFFICES ASSUME pc = "write", NEW b \in offset .. offset + rest - 1
             PROVE  b \in Visible(layout) /\ b < layout.memory
  BY DEF NextWriteIsVisible
<1>1. layout \in Modes /\ Valid(layout) /\ (InRow \/ InScreen)
  BY DEF Core, Writing
<1>2. offset \in Nat /\ rest \in Nat /\ row \in 0..Height - 1
  BY DEF Core, TypeOK
<1>3. layout.memory \in Nat /\ FirstByte(layout) \in Nat /\ RowBytes \in Nat \ {0}
      /\ RowStart(layout, row) \in Nat
  BY <1>1, <1>2, ModeTypes
<1>4. CASE InRow
  <2>1. b \in RowStart(layout, row) .. RowStart(layout, row) + RowBytes - 1
    BY <1>2, <1>3, <1>4 DEF InRow
  <2>2. RowStart(layout, row) + RowBytes <= layout.memory
    BY <1>1, <1>2, RowsFit
  <2> QED
    BY <1>2, <1>3, <2>1, <2>2 DEF Visible
<1>5. CASE InScreen
  <2>0. RowBytes * Height \in Nat
    BY <1>3
  <2>1. b \in FirstByte(layout) .. FirstByte(layout) + RowBytes * Height - 1
    BY <1>2, <1>3, <1>5, <2>0 DEF InScreen
  <2>2. FirstByte(layout) + RowBytes * Height <= layout.memory /\ b \in Visible(layout)
    BY <1>1, <1>5, <2>1, ContiguousScreen DEF InScreen
  <2> QED
    BY <1>3, <2>0, <2>1, <2>2
<1> QED
  BY <1>1, <1>4, <1>5

-----------------------------------------------------------------------------
LEMMA InitCore == Init => Core
<1> SUFFICES ASSUME Init PROVE Core
  OBVIOUS
<1>1. 0 \in 0..MaxFrames /\ 0 \in 0..Height - 1
  OBVIOUS
<1>2. memory \in [0..Bytes - 1 -> 0..MaxFrames]
  BY <1>1 DEF Init
<1>3. TypeOK
  BY <1>1, <1>2 DEF Init, TypeOK
<1> QED
  BY <1>3 DEF Init, Core, Writing

(* Where a frame begins. *)
LEMMA DrawCore ==
    ASSUME Core, Draw PROVE Core'
<1>1. layout \in Modes /\ Valid(layout)
  BY DEF Core, TypeOK, Writing, Draw
<1>2. FirstByte(layout) \in Nat /\ RowBytes \in Nat \ {0} /\ RowBytes * Height \in Nat
  BY <1>1, ModeTypes
<1>3. TypeOK'
  <2>1. drawn' \in 0..MaxFrames /\ row' \in 0..Height - 1
    BY DEF Core, TypeOK, Draw
  <2>2. offset' \in Nat /\ rest' \in Nat
    BY <1>2 DEF Draw
  <2> QED
    BY <2>1, <2>2 DEF Core, TypeOK, Draw
<1>4. RowStart(layout, 0) = FirstByte(layout)
  BY <1>1, <1>2, ModeTypes DEF RowStart
<1>5. (InRow \/ InScreen)'
  <2>1. CASE Contiguous(layout)
    BY <1>2, <2>1 DEF Draw, InScreen, Contiguous, FirstByte, RowBytes
  <2>2. CASE ~Contiguous(layout)
    <3>1. layout' = layout /\ row' = 0 /\ offset' = RowStart(layout, 0) /\ rest' = RowBytes
      BY <1>4, <2>2 DEF Draw
    <3> QED
      BY <1>2, <1>4, <2>2, <3>1 DEF InRow, Contiguous, RowStart, FirstByte, RowBytes
  <2> QED
    BY <2>1, <2>2
<1>6. layout' \in Modes /\ Valid(layout)'
  BY <1>1 DEF Draw, Valid
<1> QED
  BY <1>3, <1>5, <1>6 DEF Core, Writing

LEMMA WriteCore ==
    ASSUME Core, Write PROVE Core'
<1>1. PICK n \in 1..rest :
        /\ memory' = [b \in DOMAIN memory |->
                        IF b \in offset .. offset + n - 1 THEN drawn ELSE memory[b]]
        /\ offset' = offset + n /\ rest' = rest - n
  BY DEF Write
<1>2. UNCHANGED <<mode, layout, drawn, pc, row, disturbed>> /\ pc = "write"
  BY DEF Write
<1>3. memory' \in [0..Bytes - 1 -> 0..MaxFrames]
  BY <1>1 DEF Core, TypeOK
<1>4. offset \in Nat /\ rest \in Nat /\ offset' \in Nat /\ rest' \in Nat
      /\ offset' + rest' = offset + rest /\ offset' >= offset
  BY <1>1 DEF Core, TypeOK
<1>5. TypeOK'
  BY <1>2, <1>3, <1>4 DEF Core, TypeOK
<1>6. layout \in Modes /\ Valid(layout) /\ (InRow \/ InScreen) /\ row \in 0..Height - 1
  BY <1>2 DEF Core, Writing, TypeOK
<1>7. RowStart(layout, row) \in Nat /\ FirstByte(layout) \in Nat
  BY <1>6, ModeTypes
<1>8. InRow => InRow'
  <2> SUFFICES ASSUME InRow PROVE InRow'
    OBVIOUS
  <2>1. RowStart(layout, row)' = RowStart(layout, row) /\ (Contiguous(layout)' <=> Contiguous(layout))
    BY <1>2 DEF RowStart, FirstByte, Contiguous, RowBytes
  <2>2. RowStart(layout, row) <= offset'
    BY <1>4, <1>7 DEF InRow
  <2>3. offset' + rest' = RowStart(layout, row) + RowBytes
    BY <1>4 DEF InRow
  <2> QED
    BY <2>1, <2>2, <2>3 DEF InRow, RowBytes
<1>9. InScreen => InScreen'
  <2> SUFFICES ASSUME InScreen PROVE InScreen'
    OBVIOUS
  <2>1. FirstByte(layout)' = FirstByte(layout) /\ (Contiguous(layout)' <=> Contiguous(layout))
    BY <1>2 DEF FirstByte, Contiguous, RowBytes
  <2>2. FirstByte(layout) <= offset'
    BY <1>4, <1>7 DEF InScreen
  <2>3. offset' + rest' = FirstByte(layout) + RowBytes * Height
    BY <1>4 DEF InScreen
  <2> QED
    BY <2>1, <2>2, <2>3 DEF InScreen, RowBytes
<1>10. Valid(layout)' /\ layout' \in Modes
  BY <1>2, <1>6 DEF Valid
<1> QED
  BY <1>5, <1>6, <1>8, <1>9, <1>10 DEF Core, Writing

LEMMA NextRowCore ==
    ASSUME Core, NextRow PROVE Core'
<1>1. layout \in Modes /\ Valid(layout) /\ row \in 0..Height - 1
  BY DEF Core, Writing, TypeOK, NextRow
<1>2. RowStart(layout, row + 1) \in Nat /\ RowBytes \in Nat
  BY <1>1, ModeTypes
<1>3. TypeOK'
  BY <1>1, <1>2 DEF Core, TypeOK, NextRow
<1>4. /\ UNCHANGED <<layout, pc>> /\ ~Contiguous(layout)
      /\ offset' = RowStart(layout, row + 1) /\ rest' = RowBytes /\ row' = row + 1
  BY DEF NextRow
<1>5. RowStart(layout, row)' = RowStart(layout, row + 1) /\ ~Contiguous(layout)'
  BY <1>4 DEF RowStart, FirstByte, Contiguous, RowBytes
<1>6. InRow'
  BY <1>2, <1>4, <1>5 DEF InRow, RowBytes
<1>7. Valid(layout)' /\ layout' \in Modes
  BY <1>1, <1>4 DEF Valid
<1> QED
  BY <1>3, <1>6, <1>7 DEF Core, Writing

(* The remaining steps do not write. *)
LEMMA OtherCore ==
    ASSUME Core, Open \/ Fail \/ Drawn \/ SetMode \/ UNCHANGED vars
    PROVE  Core'
<1>1. TypeOK'
  BY DEF Core, TypeOK, Open, Fail, Drawn, SetMode, vars
<1>2. CASE Open
  <2>1. layout' \in Modes /\ Valid(layout)' /\ pc' = "ready"
    BY <1>2 DEF Core, TypeOK, Open, Valid
  <2> QED
    BY <1>1, <2>1 DEF Core, Writing
<1>3. CASE Fail
  BY <1>1, <1>3 DEF Core, Writing, Fail
<1>4. CASE Drawn \/ SetMode \/ UNCHANGED vars
  <2>1. UNCHANGED <<layout, row, offset, rest>> /\ pc' \in {pc, "drawn"}
        /\ (pc' = "drawn" => pc # "closed") /\ (pc' = "write" => pc = "write")
    BY <1>4 DEF Drawn, SetMode, vars
  <2>2. (layout' \in Modes /\ Valid(layout)') \/ pc' = "closed"
    BY <2>1 DEF Core, Writing, Valid
  <2>3. pc' = "write" => (InRow \/ InScreen)'
    BY <2>1 DEF Core, Writing, InRow, InScreen, RowStart, FirstByte, Contiguous, RowBytes
  <2> QED
    BY <1>1, <2>2, <2>3 DEF Core, Writing
<1> QED
  BY <1>2, <1>3, <1>4

LEMMA CoreInvariant == Spec => []Core
<1>1. Core /\ [Next]_vars => Core'
  BY DrawCore, WriteCore, NextRowCore, OtherCore DEF Next
<1> QED
  BY <1>1, InitCore, PTL DEF Spec

(* Types of the daemon's and the device's variables. *)
THEOREM TypeCorrect == Spec => []TypeOK
BY CoreInvariant, PTL DEF Core

(* Whatever sizes, strides and offsets the kernel reports, and however its *)
(* writes are cut short: no pwrite leaves the visible screen or the memory *)
(* of the device (validate_framebuffer and draw).                          *)
THEOREM WritesStayVisible == Spec => []NextWriteIsVisible
BY CoreInvariant, WritingIsVisible, PTL

-----------------------------------------------------------------------------
(* A byte of row r that the draw has passed: rows before the one being     *)
(* written, and what lies before the next pwrite in that row, or in the    *)
(* screen when it is written at once.                                      *)
Passed(r, b) == r < row \/ (b < offset /\ (r = row \/ Contiguous(layout)))

(* Nobody set a mode since the draw began: the layout is the mode the      *)
(* device has, and what was passed shows the frame.                        *)
Filled ==
    ~disturbed =>
        /\ pc \in {"write", "drawn"} => mode = layout
        /\ pc = "write" =>
             \A r \in 0..Height - 1 : \A b \in RowStart(layout, r) .. RowStart(layout, r) + RowBytes - 1 :
                 Passed(r, b) => memory[b] = drawn
        /\ pc = "drawn" => \A b \in Visible(layout) : memory[b] = drawn

(* What is true of the whole device: the bytes of the screen are its own.  *)
LEMMA ScreenInMemory ==
    ASSUME NEW m \in Modes, Valid(m), NEW r \in 0..Height - 1,
           NEW b \in RowStart(m, r) .. RowStart(m, r) + RowBytes - 1
    PROVE  b \in 0..Bytes - 1 /\ FirstByte(m) <= b
<1>1. RowStart(m, r) \in Nat /\ RowBytes \in Nat /\ m.memory \in Nat /\ FirstByte(m) \in Nat
      /\ m.stride \in Nat
  BY ModeTypes
<1>2. RowStart(m, r) + RowBytes <= m.memory
  BY RowsFit
<1>3. m.memory <= Bytes
  BY DEF Valid
<1>4. r * m.stride \in Nat /\ RowStart(m, r) = FirstByte(m) + r * m.stride
  BY <1>1 DEF RowStart
<1> QED
  BY <1>1, <1>2, <1>3, <1>4

(* Rows follow each other: the next one starts at or after the end of one. *)
LEMMA RowsFollow ==
    ASSUME NEW m \in Modes, Valid(m), NEW r \in Nat
    PROVE  RowStart(m, r) + RowBytes <= RowStart(m, r + 1)
<1>1. m.stride \in Nat /\ FirstByte(m) \in Nat /\ RowBytes \in Nat
  BY ModeTypes
<1>2. RowBytes <= m.stride
  <2>1. m.xvirtual \in Nat /\ m.xvirtual >= Width /\ m.stride >= m.xvirtual * 2
    BY DEF Valid, Mode
  <2> QED
    BY <1>1, <2>1 DEF RowBytes
<1>3. (r + 1) * m.stride = r * m.stride + m.stride /\ r * m.stride \in Nat
  BY <1>1
<1> QED
  BY <1>1, <1>2, <1>3 DEF RowStart

(* Nothing of the screen is passed when a frame begins. *)
LEMMA DrawFilled ==
    ASSUME Core, Draw PROVE Filled'
<1>1. layout \in Modes /\ Valid(layout)
  BY DEF Core, TypeOK, Writing, Draw
<1>2. layout' = layout /\ mode' = mode /\ mode = layout /\ pc' = "write" /\ row' = 0
      /\ offset' = FirstByte(layout)
  BY DEF Draw
<1>3. ASSUME NEW r \in 0..Height - 1,
             NEW b \in RowStart(layout, r) .. RowStart(layout, r) + RowBytes - 1
      PROVE  ~(r < 0) /\ ~(b < FirstByte(layout))
  BY <1>1, <1>3, ScreenInMemory, ModeTypes
<1>4. \A r, b : Passed(r, b)' => r < 0 \/ b < FirstByte(layout)
  BY <1>2 DEF Passed
<1>5. \A r : RowStart(layout, r)' = RowStart(layout, r)
  BY <1>2 DEF RowStart, FirstByte
<1> QED
  BY <1>2, <1>3, <1>4, <1>5 DEF Filled, RowBytes

(* A write, however short, shows the frame in the bytes it passes and      *)
(* leaves those before them alone.                                         *)
LEMMA WriteFilled ==
    ASSUME Core, Filled, Write PROVE Filled'
<1>1. PICK n \in 1..rest :
        /\ memory' = [b \in DOMAIN memory |->
                        IF b \in offset .. offset + n - 1 THEN drawn ELSE memory[b]]
        /\ offset' = offset + n
  BY DEF Write
<1>2. UNCHANGED <<mode, layout, drawn, pc, row, disturbed>> /\ pc = "write"
  BY DEF Write
<1>3. /\ layout \in Modes /\ Valid(layout) /\ DOMAIN memory = 0..Bytes - 1
      /\ offset \in Nat /\ rest \in Nat
  BY <1>2 DEF Core, Writing, TypeOK
<1>4. \A r : RowStart(layout, r)' = RowStart(layout, r)
  BY <1>2 DEF RowStart, FirstByte
<1>5. ASSUME ~disturbed, NEW r \in 0..Height - 1,
             NEW b \in RowStart(layout, r) .. RowStart(layout, r) + RowBytes - 1, Passed(r, b)'
      PROVE  memory'[b] = drawn
  <2>1. b \in DOMAIN memory /\ b \in Nat
    BY <1>3, ScreenInMemory
  <2>2. CASE Passed(r, b)
    <3>1. memory[b] = drawn
      BY <1>2, <1>5, <2>2 DEF Filled
    <3> QED
      BY <1>1, <2>1, <3>1
  <2>3. CASE ~Passed(r, b)
    <3>1. ~(b < offset) /\ b < offset + n
      BY <1>1, <1>2, <1>5, <2>3 DEF Passed, Contiguous, RowBytes
    <3>2. b \in offset .. offset + n - 1
      BY <1>3, <2>1, <3>1
    <3> QED
      BY <1>1, <2>1, <3>2
  <2> QED
    BY <2>2, <2>3
<1>6. ~disturbed => mode' = layout'
  BY <1>2 DEF Filled
<1> QED
  BY <1>2, <1>4, <1>5, <1>6 DEF Filled, RowBytes

(* The next row begins where nothing of it is passed, and the row before   *)
(* it is complete.                                                         *)
LEMMA NextRowFilled ==
    ASSUME Core, Filled, NextRow PROVE Filled'
<1>1. /\ UNCHANGED <<mode, layout, memory, drawn, pc, disturbed>> /\ pc = "write" /\ rest = 0
      /\ ~Contiguous(layout) /\ row' = row + 1 /\ offset' = RowStart(layout, row + 1)
  BY DEF NextRow
<1>2. layout \in Modes /\ Valid(layout) /\ InRow /\ row \in 0..Height - 1 /\ offset \in Nat
  BY <1>1 DEF Core, Writing, TypeOK, InScreen
<1>3. /\ offset = RowStart(layout, row) + RowBytes /\ RowBytes \in Nat
      /\ \A r \in Nat : RowStart(layout, r) \in Nat
  BY <1>1, <1>2, ModeTypes DEF InRow
<1>4. \A r : RowStart(layout, r)' = RowStart(layout, r)
  BY <1>1 DEF RowStart, FirstByte
<1>5. ASSUME NEW r \in 0..Height - 1,
             NEW b \in RowStart(layout, r) .. RowStart(layout, r) + RowBytes - 1, Passed(r, b)'
      PROVE  Passed(r, b)
  <2>1. r < row + 1 \/ (b < RowStart(layout, row + 1) /\ r = row + 1)
    BY <1>1, <1>5 DEF Passed, Contiguous, RowBytes
  <2>2. r < row \/ r = row
    <3>1. ~(r = row + 1 /\ b < RowStart(layout, row + 1))
      BY <1>3
    <3> QED
      BY <1>2, <2>1, <3>1
  <2>3. r = row => b < offset
    BY <1>2, <1>3
  <2> QED
    BY <2>2, <2>3 DEF Passed
<1> QED
  BY <1>1, <1>4, <1>5 DEF Filled, RowBytes

(* After the last row, or the one write of the screen, every byte of the   *)
(* screen was passed.                                                      *)
LEMMA DrawnFilled ==
    ASSUME Core, Filled, Drawn PROVE Filled'
<1>1. /\ UNCHANGED <<mode, layout, memory, drawn, row, offset, disturbed>>
      /\ pc = "write" /\ pc' = "drawn" /\ rest = 0
      /\ Contiguous(layout) \/ row = Height - 1
  BY DEF Drawn
<1>2. layout \in Modes /\ Valid(layout) /\ (InRow \/ InScreen) /\ row \in 0..Height - 1
      /\ offset \in Nat
  BY <1>1 DEF Core, Writing, TypeOK
<1>3. RowBytes \in Nat /\ FirstByte(layout) \in Nat /\ RowBytes * Height \in Nat
      /\ \A r \in Nat : RowStart(layout, r) \in Nat
  BY <1>2, ModeTypes
<1>4. ASSUME NEW r \in 0..Height - 1,
             NEW b \in RowStart(layout, r) .. RowStart(layout, r) + RowBytes - 1
      PROVE  Passed(r, b)
  <2>1. CASE Contiguous(layout)
    <3>1. offset = FirstByte(layout) + RowBytes * Height
      BY <1>1, <1>2, <1>3, <2>1 DEF InRow, InScreen
    <3>2. RowStart(layout, r) + RowBytes <= FirstByte(layout) + RowBytes * Height
      <4>1. r + 1 \in Nat /\ r + 1 <= Height
        OBVIOUS
      <4>2. (r + 1) * RowBytes <= Height * RowBytes
        BY <1>3, <4>1, ProductGrows
      <4>3. (r + 1) * RowBytes = r * RowBytes + RowBytes /\ Height * RowBytes = RowBytes * Height
            /\ r * RowBytes \in Nat
        BY <1>3
      <4> QED
        BY <1>3, <2>1, <4>2, <4>3 DEF RowStart, Contiguous
    <3>3. b < offset
      BY <1>2, <1>3, <3>1, <3>2
    <3> QED
      BY <2>1, <3>3 DEF Passed
  <2>2. CASE ~Contiguous(layout)
    <3>1. row = Height - 1 /\ offset = RowStart(layout, row) + RowBytes
      BY <1>1, <1>2, <1>3, <2>2 DEF InRow, InScreen
    <3>2. r < row \/ (r = row /\ b < offset)
      BY <1>2, <1>3, <3>1
    <3> QED
      BY <3>2 DEF Passed
  <2> QED
    BY <2>1, <2>2
<1>5. ~disturbed => \A b \in Visible(layout) : memory[b] = drawn
  BY <1>1, <1>4 DEF Filled, Visible
<1>6. Visible(layout)' = Visible(layout)
  BY <1>1 DEF Visible, RowStart, FirstByte, RowBytes
<1> QED
  BY <1>1, <1>5, <1>6 DEF Filled

LEMMA OtherFilled ==
    ASSUME Core, Filled, Open \/ Fail \/ SetMode \/ UNCHANGED vars PROVE Filled'
<1>1. CASE Open
  BY <1>1 DEF Open, Filled
<1>2. CASE Fail
  BY <1>2 DEF Fail, Filled
<1>3. CASE SetMode
  BY <1>3 DEF SetMode, Filled
<1>4. CASE UNCHANGED vars
  <2>1. /\ UNCHANGED <<mode, layout, memory, drawn, pc, row, offset, disturbed>>
        /\ \A r : RowStart(layout, r)' = RowStart(layout, r)
        /\ Visible(layout)' = Visible(layout)
        /\ \A r, b : Passed(r, b)' <=> Passed(r, b)
    BY <1>4 DEF vars, Visible, RowStart, FirstByte, RowBytes, Passed, Contiguous
  <2> QED
    BY <2>1 DEF Filled, RowBytes
<1> QED
  BY <1>1, <1>2, <1>3, <1>4

(* However the writes are cut and whatever fails: a frame that was drawn   *)
(* is on the screen completely, with no byte of an older one between its   *)
(* short writes and rows, unless somebody set another mode meanwhile       *)
(* (draw and _write_all).                                                  *)
THEOREM FramesAreWhole == Spec => []NoTornFrame
<1>1. Init => Filled
  BY DEF Init, Filled
<1>2. Core /\ Filled /\ [Next]_vars => Filled'
  BY DrawFilled, WriteFilled, NextRowFilled, DrawnFilled, OtherFilled DEF Next
<1>3. Filled => NoTornFrame
  BY DEF Filled, NoTornFrame
<1> QED
  BY <1>1, <1>2, <1>3, CoreInvariant, PTL DEF Spec
=============================================================================
