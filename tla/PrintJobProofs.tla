--------------------------- MODULE PrintJobProofs ----------------------------
(* Proofs about PrintJob for any printers, labels, densities and copies: what *)
(* the printer makes of a header, and which labels it prints.                 *)
EXTENDS PrintJob, TLAPS

Papers == {"gap", "continuous"}

Labels ==
    {"set-density", "set-thickness", "wakeup", "enable", "start-job", "print-bitmap",
     "feed-dots", "position-to-gap", "adjust-position", "set-paper-type",
     "printer-location", "stop", "stop-job"}

Commands ==
    [label : Labels, operand : Seq(Int), size : Nat \ {0, 1}, bulk : BOOLEAN]

Rasters == [perRow : 1..Word - 1, height : Nat \ {0}]
Told    == [perRow : Int, height : Int]
Options == [density : Densities \cup {NoDensity}, paper : Papers]
Jobs    == [raster : Rasters, options : Options, copies : Copies, packed : PackedSizes]

(* Where a sequence sets the density, enables the engine, prints and disables *)
(* the engine, and how long it is.                                            *)
DensityAt(j) == IF profile.family = "l11" \/ j.options.paper # "gap" THEN 1 ELSE 2
EnableAt(j)  == DensityAt(j) + 2
RasterAt(j)  == IF profile.family = "l11" THEN 4 ELSE DensityAt(j) + 4
StopAt(j)    == IF profile.family = "l11" THEN 6 ELSE DensityAt(j) + 6
EndAt(j)     == IF profile.family = "l11" THEN 6 ELSE DensityAt(j) + 7

RasterCommand(j) ==
    IF profile.family = "l11" THEN L11Raster(j.raster) ELSE CompressedRaster(j.raster, j.packed)

Darkness(j) ==
    MapDensity(profile, IF j.options.density = NoDensity THEN profile.default
                        ELSE j.options.density) % 256

(* What a command is for depends on where it is in its sequence.              *)
Shaped(s, j) ==
    /\ s \in Seq(Commands) /\ Len(s) = EndAt(j)
    /\ s[DensityAt(j)].operand[1] = Darkness(j)
    /\ s[RasterAt(j)] = RasterCommand(j)
    /\ \A i \in 1..Len(s) :
          /\ s[i].label \in {"set-density", "set-thickness"} <=> i = DensityAt(j)
          /\ s[i].label \in {"enable", "start-job"} <=> i = EnableAt(j)
          /\ s[i].label = "print-bitmap" <=> i = RasterAt(j)
          /\ s[i].label \in {"stop", "stop-job"} <=> i = StopAt(j)
          /\ s[i].bulk <=> i = RasterAt(j)

-----------------------------------------------------------------------------
(* Headers. *)

LEMMA WordIsNat == Word \in Nat \ {0}
  BY DEF Word

LEMMA TwoBytes ==
    ASSUME NEW n \in Nat, n < Word
    PROVE  (n % 256) + 256 * ((n \div 256) % 256) = n
  BY DEF Word

LEMMA FourBytes ==
    ASSUME NEW n \in Nat, n \div Word < Word
    PROVE  LET m == n \div Word
           IN  Word * (256 * ((m \div 256) % 256) + (m % 256))
                  + (256 * ((n \div 256) % 256) + (n % 256)) = n
<1> DEFINE m == n \div Word
           l == n % Word
<1>1. n = Word * m + l /\ m \in Nat /\ l \in Nat
  <2>1. n = Word * m + l
    BY DEF Word
  <2>2. m \in Nat /\ l \in Nat
    BY DEF Word
  <2> QED BY <2>1, <2>2
<1>2. m < Word
  OBVIOUS
<1>3. (m % 256) + 256 * ((m \div 256) % 256) = m
  <2> HIDE DEF m
  <2> QED BY <1>1, <1>2, TwoBytes
<1>4. (n % 256) + 256 * ((n \div 256) % 256) = l
  BY DEF Word
<1> HIDE DEF m, l
<1>5. Word * (256 * ((m \div 256) % 256) + (m % 256)) = Word * m
  BY <1>1, <1>3
<1>6. 256 * ((n \div 256) % 256) + (n % 256) = l
  BY <1>1, <1>4
<1>7. Word * (256 * ((m \div 256) % 256) + (m % 256))
          + (256 * ((n \div 256) % 256) + (n % 256)) = n
  <2> DEFINE a == Word * (256 * ((m \div 256) % 256) + (m % 256))
             b == 256 * ((n \div 256) % 256) + (n % 256)
  <2>1. a = Word * m /\ b = l
    BY <1>5, <1>6
  <2> HIDE DEF a, b
  <2>2. a + b = n
    BY <1>1, <2>1
  <2> QED BY <2>2 DEF a, b
<1> QED BY <1>7 DEF m

LEMMA Bytes ==
    ASSUME NEW n \in Nat PROVE (n % 256) \in Int /\ ((n \div 256) % 256) \in Int
  OBVIOUS

LEMMA FourOf ==
    ASSUME NEW a \in Int, NEW b \in Int, NEW c \in Int, NEW d \in Int
    PROVE  LET s == <<a, b>> \o <<c, d>>
           IN  /\ s \in Seq(Int) /\ s[1] = a /\ s[2] = b
               /\ Tail(Tail(s))[1] = c /\ Tail(Tail(s))[2] = d
               /\ s[1] \in Int /\ s[2] \in Int
               /\ Tail(Tail(s))[1] \in Int /\ Tail(Tail(s))[2] \in Int
  OBVIOUS

LEMMA EightOf ==
    ASSUME NEW a \in Int, NEW b \in Int, NEW c \in Int, NEW d \in Int,
           NEW e \in Int, NEW f \in Int, NEW g \in Int, NEW h \in Int
    PROVE  LET s == <<a, b>> \o <<c, d>> \o <<e, f>> \o <<g, h>>
           IN  /\ s \in Seq(Int) /\ s[1] = a /\ s[2] = b
               /\ Tail(Tail(s))[1] = c /\ Tail(Tail(s))[2] = d
               /\ s[1] \in Int /\ s[2] \in Int
               /\ Tail(Tail(s))[1] \in Int /\ Tail(Tail(s))[2] \in Int
               /\ SubSeq(s, 5, 6)[1] = e /\ SubSeq(s, 5, 6)[2] = f
               /\ SubSeq(s, 7, 8)[1] = g /\ SubSeq(s, 7, 8)[2] = h
  OBVIOUS

LEMMA FieldIsInt ==
    ASSUME NEW s, s[1] \in Int, s[2] \in Int PROVE Field(s) \in Int
<1>1. s[1] + 256 * s[2] \in Int /\ 256 * s[1] + s[2] \in Int
  OBVIOUS
<1> QED BY <1>1, Zenon DEF Field

LEMMA L11Field ==
    ASSUME profile.family = "l11", NEW s, NEW n \in Nat, n < Word,
           s[1] = n % 256, s[2] = (n \div 256) % 256
    PROVE  Field(s) = n
<1>1. (n % 256) + 256 * ((n \div 256) % 256) = n
  BY TwoBytes
<1> QED BY <1>1, Zenon DEF Field

LEMMA CompressedField ==
    ASSUME profile.family = "compressed", NEW s, NEW n \in Nat, n < Word,
           s[1] = (n \div 256) % 256, s[2] = n % 256
    PROVE  Field(s) = n
<1>1. 256 * ((n \div 256) % 256) + (n % 256) = n
  BY TwoBytes
<1> QED BY <1>1, Zenon DEF Field

(* What a printer of each family reads in the headers. *)
LEMMA L11Header ==
    ASSUME profile.family = "l11", NEW w \in Nat, w < Word, NEW h \in Nat
    PROVE  LET c == L11Raster([perRow |-> w, height |-> h])
           IN  /\ c \in Commands /\ Declared(c) \in Told
               /\ h < Word => /\ DataSize(c) = c.size - HeaderSize
                              /\ Declared(c) = [perRow |-> w, height |-> h]
<1> DEFINE op == Little(w) \o Little(h)
           c == L11Raster([perRow |-> w, height |-> h])
<1>1. /\ op \in Seq(Int) /\ op[1] = w % 256 /\ op[2] = (w \div 256) % 256
      /\ Tail(Tail(op))[1] = h % 256 /\ Tail(Tail(op))[2] = (h \div 256) % 256
      /\ op[1] \in Int /\ op[2] \in Int
      /\ Tail(Tail(op))[1] \in Int /\ Tail(Tail(op))[2] \in Int
  BY Bytes, FourOf DEF Little
<1>2. w * h \in Nat
  OBVIOUS
<1>3. c = [label |-> "print-bitmap", operand |-> op, size |-> 8 + w * h, bulk |-> TRUE]
  BY DEF L11Raster
<1> HIDE DEF op, c
<1>4. c \in Commands
  <2>1. 8 + w * h \in Nat \ {0, 1}
    BY <1>2
  <2> QED BY <1>1, <1>3, <2>1 DEF Commands, Labels
<1>5. ASSUME h < Word PROVE Declared(c) = [perRow |-> w, height |-> h]
  <2>1. Field(op) = w
    BY <1>1, L11Field
  <2>2. Field(Tail(Tail(op))) = h
    <3> DEFINE t == Tail(Tail(op))
    <3>1. t[1] = h % 256 /\ t[2] = (h \div 256) % 256
      BY <1>1
    <3> HIDE DEF t
    <3>2. Field(t) = h
      BY <1>5, <3>1, L11Field
    <3> QED BY <3>2 DEF t
  <2>3. c.operand = op
    BY <1>3
  <2> QED BY <2>1, <2>2, <2>3, Zenon DEF Declared
<1>6. ASSUME h < Word PROVE DataSize(c) = w * h
  BY <1>5, <1>6 DEF DataSize
<1>7. c.size - HeaderSize = w * h
  BY <1>2, <1>3 DEF HeaderSize
<1>8. Declared(c) \in Told
  <2>1. c.operand = op
    BY <1>3
  <2>2. Field(op) \in Int /\ Field(Tail(Tail(op))) \in Int
    BY <1>1, FieldIsInt, Zenon
  <2>3. Declared(c) = [perRow |-> Field(op), height |-> Field(Tail(Tail(op)))]
    BY <2>1, Zenon DEF Declared
  <2> QED BY <2>2, <2>3 DEF Told
<1> QED BY <1>4, <1>5, <1>6, <1>7, <1>8 DEF c

LEMMA CompressedHeader ==
    ASSUME profile.family = "compressed", NEW w \in Nat, w < Word, NEW h \in Nat,
           NEW n \in Nat, n \div Word < Word
    PROVE  LET c == CompressedRaster([perRow |-> w, height |-> h], n)
           IN  /\ c \in Commands /\ Declared(c) \in Told
               /\ DataSize(c) = c.size - HeaderSize
               /\ h < Word => Declared(c) = [perRow |-> w, height |-> h]
<1> DEFINE m == n \div Word
           op == Big(w) \o Big(h) \o Big(m) \o Big(n)
           c == CompressedRaster([perRow |-> w, height |-> h], n)
<1>1. m \in Nat
  BY DEF Word
<1>2. /\ op \in Seq(Int) /\ op[1] = (w \div 256) % 256 /\ op[2] = w % 256
      /\ Tail(Tail(op))[1] = (h \div 256) % 256 /\ Tail(Tail(op))[2] = h % 256
      /\ op[1] \in Int /\ op[2] \in Int
      /\ Tail(Tail(op))[1] \in Int /\ Tail(Tail(op))[2] \in Int
      /\ SubSeq(op, 5, 6)[1] = (m \div 256) % 256 /\ SubSeq(op, 5, 6)[2] = m % 256
      /\ SubSeq(op, 7, 8)[1] = (n \div 256) % 256 /\ SubSeq(op, 7, 8)[2] = n % 256
  <2> HIDE DEF m
  <2> QED BY <1>1, Bytes, EightOf DEF Big
<1>3. Word * (256 * ((m \div 256) % 256) + (m % 256))
          + (256 * ((n \div 256) % 256) + (n % 256)) = n
  BY FourBytes
<1>4. c = [label |-> "print-bitmap", operand |-> op, size |-> 10 + n, bulk |-> TRUE]
  BY DEF CompressedRaster
<1> HIDE DEF op, c, m
<1>5. c \in Commands
  <2>1. 10 + n \in Nat \ {0, 1}
    OBVIOUS
  <2> QED BY <1>2, <1>4, <2>1 DEF Commands, Labels
<1>6. c.operand = op
  BY <1>4
<1>7. ASSUME h < Word PROVE Declared(c) = [perRow |-> w, height |-> h]
  <2>1. Field(op) = w
    BY <1>2, CompressedField
  <2>2. Field(Tail(Tail(op))) = h
    <3> DEFINE t == Tail(Tail(op))
    <3>1. t[1] = (h \div 256) % 256 /\ t[2] = h % 256
      BY <1>2
    <3> HIDE DEF t
    <3>2. Field(t) = h
      BY <1>7, <3>1, CompressedField
    <3> QED BY <3>2 DEF t
  <2> QED BY <1>6, <2>1, <2>2, Zenon DEF Declared
<1>8. DataSize(c) = n
  <2>1. Field(SubSeq(op, 5, 6)) = 256 * ((m \div 256) % 256) + (m % 256)
    BY <1>2, Zenon DEF Field
  <2>2. Field(SubSeq(op, 7, 8)) = 256 * ((n \div 256) % 256) + (n % 256)
    BY <1>2, Zenon DEF Field
  <2> QED BY <1>3, <1>6, <2>1, <2>2, Zenon DEF DataSize
<1>9. c.size - HeaderSize = n
  BY <1>4 DEF HeaderSize
<1>10. Declared(c) \in Told
  <2>1. Field(op) \in Int /\ Field(Tail(Tail(op))) \in Int
    BY <1>2, FieldIsInt, Zenon
  <2>2. Declared(c) = [perRow |-> Field(op), height |-> Field(Tail(Tail(op)))]
    BY <1>6, Zenon DEF Declared
  <2> QED BY <2>1, <2>2 DEF Told
<1> QED BY <1>5, <1>7, <1>8, <1>9, <1>10 DEF c

(* A printer counts exactly the data of a raster, and prints it as it is,     *)
(* except an L11 printer one whose height has more than 16 bits.              *)
LEMMA HeaderTells ==
    ASSUME profile \in Profiles, NEW j \in Jobs
    PROVE  LET c == RasterCommand(j)
           IN  /\ c \in Commands /\ Declared(c) \in Told
               /\ \/ profile.family = "compressed"
                  \/ j.raster.height < Word
                  => DataSize(c) = c.size - HeaderSize
               /\ j.raster.height < Word => Declared(c) = j.raster
<1>1. j.raster \in Rasters /\ j.packed \in PackedSizes
  BY DEF Jobs
<1> DEFINE w == j.raster.perRow
           h == j.raster.height
<1>2. w \in 1..Word - 1 /\ h \in Nat \ {0} /\ j.raster = [perRow |-> w, height |-> h]
  BY <1>1 DEF Rasters
<1> HIDE DEF w, h
<1>3. w \in Nat /\ w < Word /\ h \in Nat
  BY <1>2, WordIsNat
<1>4. j.packed \in Nat /\ j.packed \div Word < Word
  BY <1>1, PrintJobAssumption DEF PrintJobAssumption
<1>5. profile.family \in {"l11", "compressed"}
  BY PrintJobAssumption DEF PrintJobAssumption
<1>6. CASE profile.family = "l11"
  <2> DEFINE c == L11Raster([perRow |-> w, height |-> h])
  <2>1. RasterCommand(j) = c
    BY <1>2, <1>6, Zenon DEF RasterCommand
  <2>2. /\ c \in Commands /\ Declared(c) \in Told
        /\ h < Word => DataSize(c) = c.size - HeaderSize /\ Declared(c) = j.raster
    BY <1>2, <1>3, <1>6, L11Header, Zenon
  <2> HIDE DEF c
  <2> QED BY <1>3, <1>6, <2>1, <2>2 DEF h
<1>7. CASE profile.family = "compressed"
  <2> DEFINE c == CompressedRaster([perRow |-> w, height |-> h], j.packed)
  <2>1. RasterCommand(j) = c
    BY <1>2, <1>7, Zenon DEF RasterCommand
  <2>2. /\ c \in Commands /\ Declared(c) \in Told
        /\ DataSize(c) = c.size - HeaderSize
        /\ h < Word => Declared(c) = j.raster
    BY <1>2, <1>3, <1>4, <1>7, CompressedHeader, Zenon
  <2> HIDE DEF c
  <2> QED BY <1>3, <1>7, <2>1, <2>2 DEF h
<1> QED BY <1>5, <1>6, <1>7
-----------------------------------------------------------------------------
(* Images. *)

(* What is fitted to a head has rows that it can print, at least one.         *)
LEMMA Fitted ==
    ASSUME profile \in Profiles, NEW image \in Images
    PROVE  LET r == Raster(Fit(image, profile.head))
           IN  r \in Rasters /\ r.perRow * 8 < profile.head + 8
<1> DEFINE head == profile.head
           f == Fit(image, head)
<1>1. head \in Nat \ {0} /\ (head + 7) \div 8 < Word
  BY PrintJobAssumption DEF PrintJobAssumption
<1>2. image.width \in Nat \ {0} /\ image.height \in Nat \ {0}
  BY PrintJobAssumption DEF PrintJobAssumption
<1> HIDE DEF head
<1>3. Round(image.height * head, image.width) \in Int
  <2> DEFINE n == image.height * head
             d == image.width
  <2>1. n \in Int /\ d \in Nat \ {0}
    BY <1>1, <1>2
  <2> HIDE DEF n, d
  <2>2. n \div d \in Int
    BY <2>1
  <2>3. Round(n, d) = n \div d \/ Round(n, d) = n \div d + 1
    BY Zenon DEF Round
  <2> QED BY <2>2, <2>3 DEF n, d
<1>4. f.width \in Nat \ {0} /\ f.width <= head /\ f.height \in Nat \ {0}
  BY <1>1, <1>2, <1>3 DEF Fit, Larger
<1> HIDE DEF f
<1> DEFINE w == f.width
<1>5. w \in Nat \ {0} /\ w <= head
  BY <1>4
<1> HIDE DEF w
<1>6. (w + 7) \div 8 \in 1..Word - 1 /\ ((w + 7) \div 8) * 8 < head + 8
  <2> DEFINE q == (w + 7) \div 8
             r == (head + 7) \div 8
  <2>1. q \in Int /\ 8 * q <= w + 7 /\ w + 7 < 8 * q + 8
    BY <1>5
  <2>2. r \in Int /\ head + 7 < 8 * r + 8 /\ r < Word
    BY <1>1
  <2> HIDE DEF q, r
  <2> QED BY <1>1, <1>5, <2>1, <2>2, WordIsNat DEF q
<1> QED BY <1>4, <1>6 DEF Raster, Rasters, f, w, head

-----------------------------------------------------------------------------
(* Sequences. *)

LEMMA IsCommand ==
    ASSUME NEW l \in Labels, NEW o \in Seq(Int), NEW n \in Nat \ {0, 1}
    PROVE  Command(l, o, n) \in Commands
  BY DEF Command, Commands

LEMMA Mapped ==
    ASSUME profile \in Profiles, NEW j \in Jobs
    PROVE  Darkness(j) \in 0..255
<1> DEFINE d == IF j.options.density = NoDensity THEN profile.default ELSE j.options.density
<1>1. j.options.density \in Densities \cup {NoDensity}
  BY DEF Jobs, Options
<1>2. d \in Int
  BY <1>1, PrintJobAssumption DEF PrintJobAssumption
<1> HIDE DEF d
<1>3. MapDensity(profile, d) \in Int
  BY <1>2, PrintJobAssumption DEF PrintJobAssumption, MapDensity
<1> QED BY <1>3 DEF Darkness, d

LEMMA DensityCommand ==
    ASSUME profile \in Profiles, NEW j \in Jobs
    PROVE  \E c \in Commands :
              /\ SetDensity(profile, j.options) = <<c>>
              /\ c.label \in {"set-density", "set-thickness"}
              /\ c.operand[1] = Darkness(j) /\ ~c.bulk
<1> DEFINE n == IF profile.command = "set-thickness" THEN 5 ELSE 4
           c == Command(profile.command, <<Darkness(j)>>, n)
<1>1. profile.command \in {"set-density", "set-thickness"}
  BY PrintJobAssumption DEF PrintJobAssumption
<1>2. <<Darkness(j)>> \in Seq(Int) /\ <<Darkness(j)>>[1] = Darkness(j)
  BY Mapped
<1>3. c \in Commands
  <2>1. n \in Nat \ {0, 1}
    OBVIOUS
  <2>2. profile.command \in Labels
    BY <1>1 DEF Labels
  <2> QED BY <1>2, <2>1, <2>2, IsCommand, Zenon
<1>4. SetDensity(profile, j.options) = <<c>>
  BY Zenon DEF SetDensity, Darkness
<1>5. c.label = profile.command /\ c.operand = <<Darkness(j)>> /\ c.bulk = FALSE
  BY DEF Command
<1> HIDE DEF c
<1> QED BY <1>1, <1>2, <1>3, <1>4, <1>5

LEMMA SixCommands ==
    ASSUME NEW a \in Commands, NEW b \in Commands, NEW c \in Commands,
           NEW d \in Commands, NEW e \in Commands, NEW f \in Commands
    PROVE  LET s == <<a>> \o <<b, c, d, e, f>>
           IN  /\ s \in Seq(Commands) /\ Len(s) = 6
               /\ s[1] = a /\ s[2] = b /\ s[3] = c /\ s[4] = d /\ s[5] = e /\ s[6] = f
  OBVIOUS

LEMMA EightCommands ==
    ASSUME NEW a \in Commands, NEW b \in Commands, NEW c \in Commands,
           NEW d \in Commands, NEW e \in Commands, NEW f \in Commands,
           NEW g \in Commands, NEW h \in Commands
    PROVE  LET s == <<>> \o <<a>> \o <<b, c, d, e, f, g, h>>
           IN  /\ s \in Seq(Commands) /\ Len(s) = 8
               /\ s[1] = a /\ s[2] = b /\ s[3] = c /\ s[4] = d
               /\ s[5] = e /\ s[6] = f /\ s[7] = g /\ s[8] = h
  OBVIOUS

LEMMA NineCommands ==
    ASSUME NEW a \in Commands, NEW b \in Commands, NEW c \in Commands,
           NEW d \in Commands, NEW e \in Commands, NEW f \in Commands,
           NEW g \in Commands, NEW h \in Commands, NEW i \in Commands
    PROVE  LET s == <<a>> \o <<b>> \o <<c, d, e, f, g, h, i>>
           IN  /\ s \in Seq(Commands) /\ Len(s) = 9
               /\ s[1] = a /\ s[2] = b /\ s[3] = c /\ s[4] = d /\ s[5] = e
               /\ s[6] = f /\ s[7] = g /\ s[8] = h /\ s[9] = i
  OBVIOUS

LEMMA L11Shaped ==
    ASSUME profile \in Profiles, profile.family = "l11", NEW j \in Jobs
    PROVE  Shaped(Sequence(j), j)
<1> DEFINE s == Sequence(j)
<1>1. PICK a \in Commands :
         /\ SetDensity(profile, j.options) = <<a>>
         /\ a.label \in {"set-density", "set-thickness"}
         /\ a.operand[1] = Darkness(j) /\ ~a.bulk
  BY DensityCommand
<1> DEFINE b == Command("wakeup", <<>>, 15)
           c == Command("enable", <<>>, 4)
           d == L11Raster(j.raster)
           e == IF j.options.paper = "gap" THEN Command("position-to-gap", <<>>, 2)
                                           ELSE Command("feed-dots", <<100>>, 3)
           f == Command("stop", <<>>, 4)
<1>2. b \in Commands /\ c \in Commands /\ e \in Commands /\ f \in Commands
  <2>1. b \in Commands /\ c \in Commands /\ f \in Commands
    BY DEF Command, Commands, Labels
  <2>2. /\ Command("position-to-gap", <<>>, 2) \in Commands
        /\ Command("feed-dots", <<100>>, 3) \in Commands
    BY DEF Command, Commands, Labels
  <2> QED BY <2>1, <2>2, Zenon
<1>3. d \in Commands /\ d = RasterCommand(j)
  <2>1. d = RasterCommand(j)
    BY Zenon DEF RasterCommand
  <2> QED BY <2>1, HeaderTells
<1>4. s = <<a>> \o <<b, c, d, e, f>>
  BY <1>1, Zenon DEF Sequence, L11Sequence
<1>5. /\ b.label = "wakeup" /\ ~b.bulk /\ c.label = "enable" /\ ~c.bulk
      /\ d.label = "print-bitmap" /\ d.bulk
      /\ e.label \in {"position-to-gap", "feed-dots"} /\ ~e.bulk
      /\ f.label = "stop" /\ ~f.bulk
  BY DEF Command, L11Raster
<1> HIDE DEF s, b, c, d, e, f
<1>6. /\ s \in Seq(Commands) /\ Len(s) = 6
      /\ s[1] = a /\ s[2] = b /\ s[3] = c /\ s[4] = d /\ s[5] = e /\ s[6] = f
  BY <1>2, <1>3, <1>4, SixCommands
<1>7. /\ DensityAt(j) = 1 /\ EnableAt(j) = 3 /\ RasterAt(j) = 4
      /\ StopAt(j) = 6 /\ EndAt(j) = 6
  BY DEF DensityAt, EnableAt, RasterAt, StopAt, EndAt
<1>8. ASSUME NEW i \in 1..6
      PROVE  /\ s[i].label \in {"set-density", "set-thickness"} <=> i = 1
             /\ s[i].label \in {"enable", "start-job"} <=> i = 3
             /\ s[i].label = "print-bitmap" <=> i = 4
             /\ s[i].label \in {"stop", "stop-job"} <=> i = 6
             /\ s[i].bulk <=> i = 4
  <2>1. i = 1 \/ i = 2 \/ i = 3 \/ i = 4 \/ i = 5 \/ i = 6
    OBVIOUS
  <2> QED BY <1>1, <1>5, <1>6, <2>1
<1>9. /\ s[DensityAt(j)].operand[1] = Darkness(j)
      /\ s[RasterAt(j)] = RasterCommand(j)
  BY <1>1, <1>3, <1>6, <1>7
<1> QED BY <1>6, <1>7, <1>8, <1>9 DEF Shaped, s

LEMMA CompressedShaped ==
    ASSUME profile \in Profiles, profile.family = "compressed", NEW j \in Jobs
    PROVE  Shaped(Sequence(j), j)
<1> DEFINE s == Sequence(j)
           gap == j.options.paper = "gap"
<1>1. PICK a \in Commands :
         /\ SetDensity(profile, j.options) = <<a>>
         /\ a.label \in {"set-density", "set-thickness"}
         /\ a.operand[1] = Darkness(j) /\ ~a.bulk
  BY DensityCommand
<1> DEFINE p == Command("set-paper-type", <<32>>, 4)
           b == Command("wakeup", <<>>, 6)
           c == Command("start-job", <<>>, 4)
           d == IF gap THEN Command("adjust-position", <<81>>, 3)
                       ELSE Command("feed-dots", Little(100), 5)
           e == CompressedRaster(j.raster, j.packed)
           f == Command("printer-location", IF gap THEN <<32, 0>> ELSE <<0, 0>>, 4)
           g == Command("stop-job", <<>>, 4)
           h == Command("adjust-position", IF gap THEN <<80>> ELSE <<0>>, 3)
<1>2. /\ p \in Commands /\ b \in Commands /\ c \in Commands /\ d \in Commands
      /\ f \in Commands /\ g \in Commands /\ h \in Commands
  <2>1. p \in Commands /\ b \in Commands /\ c \in Commands /\ g \in Commands
    BY DEF Command, Commands, Labels
  <2>2. /\ Command("adjust-position", <<81>>, 3) \in Commands
        /\ Command("feed-dots", Little(100), 5) \in Commands
    BY DEF Command, Commands, Labels, Little
  <2>3. d \in Commands
    BY <2>2, Zenon
  <2>4. f \in Commands /\ h \in Commands
    <3>1. /\ (IF gap THEN <<32, 0>> ELSE <<0, 0>>) \in Seq(Int)
          /\ (IF gap THEN <<80>> ELSE <<0>>) \in Seq(Int)
      OBVIOUS
    <3> QED BY <3>1 DEF Command, Commands, Labels
  <2> QED BY <2>1, <2>3, <2>4
<1>3. e \in Commands /\ e = RasterCommand(j)
  <2>1. e = RasterCommand(j)
    BY Zenon DEF RasterCommand
  <2> QED BY <2>1, HeaderTells
<1>4. s = (IF gap THEN <<p>> ELSE <<>>) \o <<a>> \o <<b, c, d, e, f, g, h>>
  <2>1. profile.family # "l11"
    OBVIOUS
  <2> QED BY <1>1, <2>1, Zenon DEF Sequence, CompressedSequence
<1>5. /\ p.label = "set-paper-type" /\ ~p.bulk
      /\ b.label = "wakeup" /\ ~b.bulk /\ c.label = "start-job" /\ ~c.bulk
      /\ d.label \in {"adjust-position", "feed-dots"} /\ ~d.bulk
      /\ e.label = "print-bitmap" /\ e.bulk
      /\ f.label = "printer-location" /\ ~f.bulk
      /\ g.label = "stop-job" /\ ~g.bulk /\ h.label = "adjust-position" /\ ~h.bulk
  BY DEF Command, CompressedRaster
<1>6. profile.family # "l11"
  OBVIOUS
<1>7. CASE gap
  <2>1. /\ DensityAt(j) = 2 /\ EnableAt(j) = 4 /\ RasterAt(j) = 6
        /\ StopAt(j) = 8 /\ EndAt(j) = 9
    BY <1>6, <1>7 DEF DensityAt, EnableAt, RasterAt, StopAt, EndAt
  <2>2. s = <<p>> \o <<a>> \o <<b, c, d, e, f, g, h>>
    BY <1>4, <1>7, Zenon
  <2> HIDE DEF s, p, b, c, d, e, f, g, h, gap
  <2>3. /\ s \in Seq(Commands) /\ Len(s) = 9
        /\ s[1] = p /\ s[2] = a /\ s[3] = b /\ s[4] = c /\ s[5] = d
        /\ s[6] = e /\ s[7] = f /\ s[8] = g /\ s[9] = h
    BY <1>2, <1>3, <2>2, NineCommands
  <2>4. ASSUME NEW i \in 1..9
        PROVE  /\ s[i].label \in {"set-density", "set-thickness"} <=> i = 2
               /\ s[i].label \in {"enable", "start-job"} <=> i = 4
               /\ s[i].label = "print-bitmap" <=> i = 6
               /\ s[i].label \in {"stop", "stop-job"} <=> i = 8
               /\ s[i].bulk <=> i = 6
    <3>1. \/ i = 1 \/ i = 2 \/ i = 3 \/ i = 4 \/ i = 5
          \/ i = 6 \/ i = 7 \/ i = 8 \/ i = 9
      OBVIOUS
    <3> QED BY <1>1, <1>5, <2>3, <3>1
  <2>5. /\ s[DensityAt(j)].operand[1] = Darkness(j)
        /\ s[RasterAt(j)] = RasterCommand(j)
    BY <1>1, <1>3, <2>1, <2>3
  <2> QED BY <2>1, <2>3, <2>4, <2>5 DEF Shaped, s
<1>8. CASE ~gap
  <2>1. /\ DensityAt(j) = 1 /\ EnableAt(j) = 3 /\ RasterAt(j) = 5
        /\ StopAt(j) = 7 /\ EndAt(j) = 8
    BY <1>6, <1>8 DEF DensityAt, EnableAt, RasterAt, StopAt, EndAt
  <2>2. s = <<>> \o <<a>> \o <<b, c, d, e, f, g, h>>
    BY <1>4, <1>8, Zenon
  <2> HIDE DEF s, p, b, c, d, e, f, g, h, gap
  <2>3. /\ s \in Seq(Commands) /\ Len(s) = 8
        /\ s[1] = a /\ s[2] = b /\ s[3] = c /\ s[4] = d
        /\ s[5] = e /\ s[6] = f /\ s[7] = g /\ s[8] = h
    BY <1>2, <1>3, <2>2, EightCommands
  <2>4. ASSUME NEW i \in 1..8
        PROVE  /\ s[i].label \in {"set-density", "set-thickness"} <=> i = 1
               /\ s[i].label \in {"enable", "start-job"} <=> i = 3
               /\ s[i].label = "print-bitmap" <=> i = 5
               /\ s[i].label \in {"stop", "stop-job"} <=> i = 7
               /\ s[i].bulk <=> i = 5
    <3>1. \/ i = 1 \/ i = 2 \/ i = 3 \/ i = 4 \/ i = 5
          \/ i = 6 \/ i = 7 \/ i = 8
      OBVIOUS
    <3> QED BY <1>1, <1>5, <2>3, <3>1
  <2>5. /\ s[DensityAt(j)].operand[1] = Darkness(j)
        /\ s[RasterAt(j)] = RasterCommand(j)
    BY <1>1, <1>3, <2>1, <2>3
  <2> QED BY <2>1, <2>3, <2>4, <2>5 DEF Shaped, s
<1> QED BY <1>7, <1>8

LEMMA SequenceShaped ==
    ASSUME profile \in Profiles, NEW j \in Jobs
    PROVE  Shaped(Sequence(j), j)
<1>1. profile.family \in {"l11", "compressed"}
  BY PrintJobAssumption DEF PrintJobAssumption
<1> QED BY <1>1, L11Shaped, CompressedShaped

LEMMA Places ==
    ASSUME NEW j
    PROVE  /\ DensityAt(j) \in Nat /\ EnableAt(j) \in Nat /\ RasterAt(j) \in Nat
           /\ StopAt(j) \in Nat /\ EndAt(j) \in Nat
           /\ 1 <= DensityAt(j) /\ DensityAt(j) < EnableAt(j)
           /\ EnableAt(j) < RasterAt(j) /\ RasterAt(j) < StopAt(j)
           /\ StopAt(j) <= EndAt(j)
  BY DEF DensityAt, EnableAt, RasterAt, StopAt, EndAt

(* The bulk stream of a sequence begins at its raster.                        *)
LEMMA BulkAtRaster ==
    ASSUME NEW j, NEW s, Shaped(s, j)
    PROVE  FirstBulk(s) = RasterAt(j)
<1> DEFINE First(i) == s[i].bulk /\ \A k \in 1..i - 1 : ~s[k].bulk
           r == RasterAt(j)
<1>1. /\ DOMAIN s = 1..EndAt(j) /\ r \in 1..EndAt(j)
      /\ \A i \in 1..EndAt(j) : s[i].bulk <=> i = r
  BY Places DEF Shaped
<1>2. EndAt(j) \in Nat
  BY Places
<1> HIDE DEF r
<1>3. r \in DOMAIN s /\ First(r)
  <2>1. \A k \in 1..r - 1 : k \in 1..EndAt(j) /\ k # r
    BY <1>1, <1>2
  <2> QED BY <1>1, <2>1
<1>4. \A i \in DOMAIN s : First(i) => i = r
  BY <1>1
<1>5. FirstBulk(s) = CHOOSE i \in DOMAIN s : First(i)
  BY Zenon DEF FirstBulk
<1> HIDE DEF First
<1>6. First(CHOOSE i \in DOMAIN s : First(i)) /\ (CHOOSE i \in DOMAIN s : First(i)) \in DOMAIN s
  BY <1>3, Zenon
<1> QED BY <1>4, <1>5, <1>6, Zenon DEF r

-----------------------------------------------------------------------------
(* The invariant. *)

LabelRecords == [raster : Told, darkness : 0..255]

(* How many commands of its sequence the copy has sent.                       *)
Sent == (IF pc = "preamble" THEN RasterAt(job) - 1 ELSE EndAt(job)) - Len(todo)

StateOK ==
    /\ profile \in Profiles
    /\ pc \in {"idle", "preamble", "bulk"}
    /\ outcome \in {"none", "ok", "failed"}
    /\ jobs \in 0..MaxJobs
    /\ due \in Nat /\ open \in BOOLEAN /\ garbled \in BOOLEAN /\ clean \in BOOLEAN
    /\ darkness \in 0..255
    /\ labels \in Seq(LabelRecords)

(* There is a print in hand, made for this head, or none was asked for yet.   *)
JobOK ==
    \/ job \in Jobs /\ job.raster.perRow * 8 < profile.head + 8
    \/ /\ pc = "idle" /\ outcome = "none"
       /\ job.raster = [perRow |-> 0, height |-> 0] /\ job.copies = 0

(* What is left to send is the rest of the sequence of the print.             *)
TodoOK ==
    pc # "idle" =>
        /\ todo \in Seq(Commands)
        /\ copy \in Nat \ {0} /\ copy <= job.copies
        /\ Sent >= (IF pc = "preamble" THEN 0 ELSE RasterAt(job) - 1)
        /\ \A i \in 1..Len(todo) : todo[i] = Sequence(job)[Sent + i]

(* The engine is as far as the commands sent.                                 *)
EngineOK ==
    clean /\ pc # "idle" =>
        /\ due = 0
        /\ Sent >= DensityAt(job) => darkness = Darkness(job)
        /\ Sent >= EnableAt(job) => (open <=> Sent < StopAt(job))
        /\ Tellable => Len(labels) = IF Sent >= RasterAt(job) THEN copy ELSE copy - 1

LabelsOK == clean /\ Tellable => \A i \in DOMAIN labels : labels[i] = Asked

(* How prints ended. *)
EndOK ==
    pc = "idle" =>
        /\ outcome = "none" => labels = <<>> /\ copy = 0
        /\ outcome = "failed" =>
               /\ copy \in Nat \ {0} /\ copy <= job.copies
               /\ clean /\ Tellable => Len(labels) \in {copy - 1, copy}
        /\ outcome = "ok" =>
               /\ copy = Larger(0, job.copies)
               /\ clean => /\ due = 0
                           /\ job.copies > 0 => ~open
                           /\ Tellable => Len(labels) = copy

IInv == StateOK /\ JobOK /\ TodoOK /\ EngineOK /\ LabelsOK /\ EndOK /\ Understood

LEMMA IInvInit == Init => IInv
<1> SUFFICES ASSUME Init PROVE IInv
  OBVIOUS
<1>1. /\ profile \in Profiles /\ pc = "idle" /\ outcome = "none" /\ jobs = 0
      /\ job.raster = [perRow |-> 0, height |-> 0] /\ job.copies = 0
      /\ copy = 0 /\ due = 0 /\ open = FALSE /\ darkness = 0 /\ labels = <<>>
      /\ garbled = FALSE /\ clean = TRUE
  BY DEF Init
<1>2. StateOK
  <2>1. MaxJobs \in Nat
    BY PrintJobAssumption DEF PrintJobAssumption
  <2>2. <<>> \in Seq(LabelRecords)
    OBVIOUS
  <2>3. labels \in Seq(LabelRecords)
    BY <1>1, <2>2, Zenon
  <2>4. jobs \in 0..MaxJobs /\ darkness \in 0..255 /\ due \in Nat
    BY <1>1, <2>1
  <2> QED BY <1>1, <2>3, <2>4, Zenon DEF StateOK
<1>3. LabelsOK
  BY <1>1 DEF LabelsOK
<1>4. JobOK /\ TodoOK /\ EngineOK /\ EndOK /\ Understood
  BY <1>1 DEF JobOK, TodoOK, EngineOK, EndOK, Understood
<1> QED BY <1>2, <1>3, <1>4 DEF IInv

(* What the next command of a copy does to a printer that is not waiting for  *)
(* the rest of an earlier one.                                                *)
LEMMA ObeyAt ==
    ASSUME IInv, job \in Jobs, NEW k \in 1..EndAt(job), NEW c,
           c = Sequence(job)[k], Obey(c)
    PROVE  /\ due' = due
           /\ darkness' = IF k = DensityAt(job) THEN Darkness(job) ELSE darkness
           /\ open' = IF k = EnableAt(job) THEN TRUE
                      ELSE IF k = StopAt(job) THEN FALSE ELSE open
           /\ k # RasterAt(job) => labels' = labels /\ garbled' = garbled
           /\ k = RasterAt(job) =>
                 /\ labels' = IF open
                              THEN Append(labels, [raster   |-> Declared(RasterCommand(job)),
                                                   darkness |-> darkness])
                              ELSE labels
                 /\ garbled' = (garbled \/ DataSize(RasterCommand(job))
                                               # RasterCommand(job).size - HeaderSize)
<1> DEFINE s == Sequence(job)
<1>1. Shaped(s, job)
  BY SequenceShaped DEF IInv, StateOK
<1> HIDE DEF s
<1>2. /\ c.label \in {"set-density", "set-thickness"} <=> k = DensityAt(job)
      /\ c.label \in {"enable", "start-job"} <=> k = EnableAt(job)
      /\ c.label = "print-bitmap" <=> k = RasterAt(job)
      /\ c.label \in {"stop", "stop-job"} <=> k = StopAt(job)
      /\ k = DensityAt(job) => c.operand[1] = Darkness(job)
      /\ k = RasterAt(job) => c = RasterCommand(job)
  BY <1>1 DEF Shaped, s
<1>3. EnableAt(job) # StopAt(job)
  BY Places
<1>4. open \in BOOLEAN
  BY DEF IInv, StateOK
<1>5. due' = due /\ darkness' = IF k = DensityAt(job) THEN Darkness(job) ELSE darkness
  BY <1>2, Zenon DEF Obey
<1>6. open' = (\/ c.label \in {"enable", "start-job"}
               \/ open /\ c.label \notin {"stop", "stop-job"})
  BY Zenon DEF Obey
<1>7. open' = IF k = EnableAt(job) THEN TRUE ELSE IF k = StopAt(job) THEN FALSE ELSE open
  BY <1>2, <1>3, <1>4, <1>6
<1>8. k # RasterAt(job) => labels' = labels /\ garbled' = garbled
  BY <1>2, Zenon DEF Obey
<1>9. k = RasterAt(job) =>
         /\ labels' = IF open
                      THEN Append(labels, [raster   |-> Declared(RasterCommand(job)),
                                           darkness |-> darkness])
                      ELSE labels
         /\ garbled' = (garbled \/ DataSize(RasterCommand(job))
                                       # RasterCommand(job).size - HeaderSize)
  BY <1>2, Zenon DEF Obey
<1> QED BY <1>5, <1>7, <1>8, <1>9

(* A copy that begins has its whole sequence before it.                       *)
LEMMA CopyBegins ==
    ASSUME profile \in Profiles, profile' = profile, NEW j \in Jobs, job' = j,
           pc' = "preamble", todo' = Preamble(Sequence(j))
    PROVE  /\ todo' \in Seq(Commands) /\ Sent' = 0
           /\ \A i \in 1..Len(todo') : todo'[i] = Sequence(j)[i]
<1> DEFINE s == Sequence(j)
           r == RasterAt(j)
<1>1. Shaped(s, j)
  BY SequenceShaped
<1>2. FirstBulk(s) = r
  BY <1>1, BulkAtRaster
<1>3. s \in Seq(Commands) /\ r \in 1..Len(s)
  BY <1>1, Places DEF Shaped
<1>4. todo' = SubSeq(s, 1, r - 1)
  BY <1>2, Zenon DEF Preamble
<1> HIDE DEF s, r
<1>5. /\ todo' \in Seq(Commands) /\ Len(todo') = r - 1
      /\ \A i \in 1..Len(todo') : todo'[i] = s[i]
  BY <1>3, <1>4
<1>6. RasterAt(j)' = RasterAt(j)
  BY DEF RasterAt, DensityAt
<1>7. RasterAt(job)' = r
  BY <1>6, Zenon DEF RasterAt, DensityAt, r
<1>8. r \in Int
  BY Places DEF r
<1>9. Sent' = 0
  BY <1>5, <1>7, <1>8 DEF Sent
<1> QED BY <1>5, <1>9 DEF s

LEMMA SameJob ==
    ASSUME profile' = profile, job' = job
    PROVE  /\ DensityAt(job)' = DensityAt(job) /\ EnableAt(job)' = EnableAt(job)
           /\ RasterAt(job)' = RasterAt(job) /\ StopAt(job)' = StopAt(job)
           /\ EndAt(job)' = EndAt(job) /\ Darkness(job)' = Darkness(job)
           /\ Sequence(job)' = Sequence(job) /\ Tellable' = Tellable /\ Asked' = Asked
<1>1. DensityAt(job)' = DensityAt(job)
  BY Zenon DEF DensityAt
<1>2. EnableAt(job)' = EnableAt(job) /\ RasterAt(job)' = RasterAt(job)
      /\ StopAt(job)' = StopAt(job) /\ EndAt(job)' = EndAt(job)
  BY <1>1, Zenon DEF EnableAt, RasterAt, StopAt, EndAt
<1>3. Darkness(job)' = Darkness(job) /\ Asked' = Asked /\ Tellable' = Tellable
  BY Zenon DEF Darkness, Asked, Tellable
<1>4. Sequence(job)' = Sequence(job)
  BY Zenon DEF Sequence
<1> QED BY <1>1, <1>2, <1>3, <1>4

LEMMA SendStep == IInv /\ SendCommand => IInv'
<1> SUFFICES ASSUME IInv, SendCommand PROVE IInv'
  OBVIOUS
<1> DEFINE c == Head(todo)
           k == Sent + 1
<1>1. /\ pc \in {"preamble", "bulk"} /\ todo # <<>> /\ Feed(c, c.size) /\ todo' = Tail(todo)
      /\ UNCHANGED <<profile, pc, job, copy, outcome, jobs, clean>>
  BY DEF SendCommand
<1>2. /\ job \in Jobs /\ job.raster.perRow * 8 < profile.head + 8
      /\ todo \in Seq(Commands) /\ copy \in Nat \ {0} /\ copy <= job.copies
      /\ Sent >= (IF pc = "preamble" THEN 0 ELSE RasterAt(job) - 1)
      /\ \A i \in 1..Len(todo) : todo[i] = Sequence(job)[Sent + i]
  BY <1>1 DEF IInv, JobOK, TodoOK
<1>3. /\ RasterAt(job) \in Nat \ {0} /\ EndAt(job) \in Nat /\ RasterAt(job) < EndAt(job)
  BY Places
<1>4. c \in Commands /\ c = todo[1] /\ Len(todo) \in Nat \ {0}
  BY <1>1, <1>2
<1>5. Sent \in Int /\ k \in 1..EndAt(job) /\ c = Sequence(job)[k]
  <2>1. Sent \in Int /\ Sent <= EndAt(job) - 1 /\ Sent >= 0
    BY <1>2, <1>3, <1>4 DEF Sent
  <2> QED BY <1>2, <1>3, <1>4, <2>1
<1>6. Sent' = Sent + 1
  <2>1. Len(todo') = Len(todo) - 1
    BY <1>1, <1>2
  <2> QED BY <1>1, <1>3, <1>4, <2>1, SameJob DEF Sent
<1>7. c.size \in Nat
  BY <1>4 DEF Commands
<1> HIDE DEF c
<1>8. JobOK'
  BY <1>1, <1>2 DEF JobOK
<1>9. TodoOK'
  <2>1. todo' \in Seq(Commands) /\ Len(todo') = Len(todo) - 1
        /\ \A i \in 1..Len(todo') : todo'[i] = todo[i + 1]
    BY <1>1, <1>2
  <2>2. ASSUME NEW i \in 1..Len(todo') PROVE todo'[i] = Sequence(job)[Sent' + i]
    <3>1. i + 1 \in 1..Len(todo) /\ Sent + (i + 1) = Sent' + i
      BY <1>4, <1>5, <1>6, <2>1
    <3>2. todo'[i] = todo[i + 1]
      BY <2>1
    <3> QED BY <1>2, <3>1, <3>2
  <2>3. Sent' >= (IF pc' = "preamble" THEN 0 ELSE RasterAt(job)' - 1)
    BY <1>1, <1>2, <1>3, <1>5, <1>6, SameJob
  <2>4. Sequence(job)' = Sequence(job)
    BY <1>1, SameJob
  <2> QED BY <1>1, <1>2, <2>1, <2>2, <2>3, <2>4 DEF TodoOK
<1>10. EndOK'
  BY <1>1 DEF EndOK
<1>11. ASSUME due > 0 PROVE StateOK' /\ EngineOK' /\ LabelsOK' /\ Understood'
  <2>1. due \in Nat
    BY DEF IInv, StateOK
  <2>2. due' = Larger(0, due - c.size) /\ garbled' = (garbled \/ c.size > 0)
        /\ UNCHANGED <<open, darkness, labels>>
    BY <1>1, <1>11, <2>1 DEF Feed
  <2>3. due' \in Nat
    BY <1>7, <2>1, <2>2 DEF Larger
  <2>4. ~clean
    BY <1>1, <1>11, <2>1 DEF IInv, EngineOK
  <2>5. StateOK'
    BY <1>1, <2>2, <2>3 DEF IInv, StateOK
  <2> QED BY <1>1, <2>4, <2>5 DEF EngineOK, LabelsOK, Understood
<1>12. ASSUME due = 0 PROVE StateOK' /\ EngineOK' /\ LabelsOK' /\ Understood'
  <2>1. Obey(c)
    BY <1>1, <1>7, <1>12 DEF Feed
  <2> DEFINE r == RasterCommand(job)
             label == [raster |-> Declared(r), darkness |-> darkness]
  <2>2. /\ due' = due
        /\ darkness' = IF k = DensityAt(job) THEN Darkness(job) ELSE darkness
        /\ open' = IF k = EnableAt(job) THEN TRUE
                   ELSE IF k = StopAt(job) THEN FALSE ELSE open
        /\ k # RasterAt(job) => labels' = labels /\ garbled' = garbled
        /\ k = RasterAt(job) =>
              /\ labels' = IF open THEN Append(labels, label) ELSE labels
              /\ garbled' = (garbled \/ DataSize(r) # r.size - HeaderSize)
    BY <1>2, <1>5, <2>1, ObeyAt, Zenon
  <2>3. /\ r \in Commands /\ Declared(r) \in Told
        /\ profile.family = "compressed" \/ Tellable => DataSize(r) = r.size - HeaderSize
        /\ Tellable => Declared(r) = job.raster
    BY <1>2, HeaderTells DEF IInv, StateOK, Tellable
  <2>4. Darkness(job) \in 0..255
    BY <1>2, Mapped DEF IInv, StateOK
  <2>5. label \in LabelRecords
    BY <2>3 DEF LabelRecords, IInv, StateOK
  <2> HIDE DEF r, label, k
  <2>6. StateOK'
    <3>1. labels' \in Seq(LabelRecords)
      BY <2>2, <2>5 DEF IInv, StateOK
    <3>2. darkness' \in 0..255 /\ due' \in Nat /\ open' \in BOOLEAN /\ garbled' \in BOOLEAN
      BY <2>2, <2>4 DEF IInv, StateOK
    <3> QED BY <1>1, <3>1, <3>2 DEF IInv, StateOK
  <2>7. Understood'
    <3>1. profile.family \in {"l11", "compressed"}
      BY PrintJobAssumption DEF PrintJobAssumption, IInv, StateOK
    <3>2. Tellable' = Tellable
      BY <1>1, SameJob
    <3> QED BY <1>1, <2>2, <2>3, <3>1, <3>2 DEF IInv, Understood
  <2>8. ASSUME clean
        PROVE  /\ Sent >= DensityAt(job) => darkness = Darkness(job)
               /\ Sent >= EnableAt(job) => (open <=> Sent < StopAt(job))
               /\ Tellable => Len(labels) = IF Sent >= RasterAt(job) THEN copy ELSE copy - 1
               /\ Tellable => \A i \in DOMAIN labels : labels[i] = Asked
    BY <1>1, <2>8 DEF IInv, EngineOK, LabelsOK
  <2>9. labels \in Seq(LabelRecords) /\ open \in BOOLEAN
    BY DEF IInv, StateOK
  <2>10. ASSUME clean, Tellable, k = RasterAt(job)
         PROVE  labels' = Append(labels, Asked) /\ Len(labels') = copy
    <3>1. open /\ darkness = Darkness(job) /\ Len(labels) = copy - 1
      BY <1>5, <2>8, <2>10, Places DEF k
    <3>2. label = Asked
      BY <2>3, <2>10, <3>1, Zenon DEF label, Asked, Darkness
    <3> QED BY <1>2, <2>2, <2>9, <2>10, <3>1, <3>2
  <2>11. LabelsOK'
    <3> SUFFICES ASSUME clean, Tellable PROVE \A i \in DOMAIN labels' : labels'[i] = Asked
      BY <1>1, SameJob DEF LabelsOK
    <3>1. CASE k = RasterAt(job)
      <4>1. \A i \in DOMAIN labels : labels[i] = Asked
        BY <2>8
      <4> HIDE DEF Asked
      <4> QED BY <2>9, <2>10, <3>1, <4>1
    <3>2. CASE k # RasterAt(job)
      BY <2>2, <2>8, <3>2
    <3> QED BY <3>1, <3>2
  <2>12. EngineOK'
    <3> SUFFICES ASSUME clean
                 PROVE  /\ due' = 0
                        /\ k >= DensityAt(job) => darkness' = Darkness(job)
                        /\ k >= EnableAt(job) => (open' <=> k < StopAt(job))
                        /\ Tellable => Len(labels') = IF k >= RasterAt(job) THEN copy ELSE copy - 1
      BY <1>1, <1>6, SameJob DEF EngineOK, k
    <3>1. k \in Int /\ k = Sent + 1
      BY <1>5 DEF k
    <3>2. k >= DensityAt(job) => darkness' = Darkness(job)
      BY <1>5, <2>2, <2>8, <3>1, Places
    <3>3. k >= EnableAt(job) => (open' <=> k < StopAt(job))
      BY <1>5, <2>2, <2>8, <2>9, <3>1, Places
    <3>4. ASSUME Tellable
          PROVE  Len(labels') = IF k >= RasterAt(job) THEN copy ELSE copy - 1
      <4>1. CASE k = RasterAt(job)
        BY <2>10, <3>1, <3>4, <4>1, Places
      <4>2. CASE k # RasterAt(job)
        BY <1>5, <2>2, <2>8, <3>1, <3>4, <4>2, Places
      <4> QED BY <4>1, <4>2
    <3> QED BY <1>12, <2>2, <3>2, <3>3, <3>4
  <2> QED BY <2>6, <2>7, <2>11, <2>12
<1>13. due > 0 \/ due = 0
  BY DEF IInv, StateOK
<1> QED BY <1>8, <1>9, <1>10, <1>11, <1>12, <1>13 DEF IInv

LEMMA PreambleStep == IInv /\ PreambleSent => IInv'
<1> SUFFICES ASSUME IInv, PreambleSent PROVE IInv'
  OBVIOUS
<1> DEFINE s == Sequence(job)
           r == RasterAt(job)
           e == EndAt(job)
<1>1. /\ pc = "preamble" /\ todo = <<>> /\ pc' = "bulk" /\ todo' = Bulk(s)
      /\ UNCHANGED <<profile, job, copy, outcome, jobs, engine, clean>>
  BY DEF PreambleSent
<1>2. /\ job \in Jobs /\ job.raster.perRow * 8 < profile.head + 8
      /\ copy \in Nat \ {0} /\ copy <= job.copies
  BY <1>1 DEF IInv, JobOK, TodoOK
<1>3. Shaped(s, job)
  BY <1>2, SequenceShaped DEF IInv, StateOK
<1>4. r \in Nat \ {0} /\ e \in Nat /\ r < e
  BY Places
<1>5. Sent = r - 1
  BY <1>1, <1>4 DEF Sent
<1>6. FirstBulk(s) = r /\ s \in Seq(Commands) /\ Len(s) = e
  BY <1>3, BulkAtRaster DEF Shaped
<1>7. todo' = SubSeq(s, r, e)
  BY <1>1, <1>6, Zenon DEF Bulk
<1> HIDE DEF s, r, e
<1>8. /\ todo' \in Seq(Commands) /\ Len(todo') = e - r + 1
      /\ \A i \in 1..Len(todo') : todo'[i] = s[(r - 1) + i]
  BY <1>4, <1>6, <1>7
<1>9. Sent' = r - 1
  <2>1. EndAt(job)' = e
    BY <1>1, SameJob DEF e, engine
  <2> QED BY <1>1, <1>4, <1>8, <2>1 DEF Sent
<1>10. StateOK' /\ JobOK' /\ EndOK'
  BY <1>1, <1>2 DEF IInv, StateOK, JobOK, EndOK, engine
<1>11. TodoOK'
  <2>1. RasterAt(job)' = r /\ Sequence(job)' = s
    BY <1>1, SameJob DEF r, s
  <2>2. Sent' >= RasterAt(job)' - 1
    BY <1>4, <1>9, <2>1
  <2> QED BY <1>1, <1>2, <1>8, <1>9, <2>1, <2>2 DEF TodoOK, engine
<1>12. EngineOK' /\ LabelsOK' /\ Understood'
  <2>1. /\ DensityAt(job)' = DensityAt(job) /\ EnableAt(job)' = EnableAt(job)
        /\ RasterAt(job)' = RasterAt(job) /\ StopAt(job)' = StopAt(job)
        /\ Darkness(job)' = Darkness(job) /\ Tellable' = Tellable /\ Asked' = Asked
    BY <1>1, SameJob
  <2>2. Sent' = Sent
    BY <1>5, <1>9
  <2> QED BY <1>1, <2>1, <2>2 DEF IInv, EngineOK, LabelsOK, Understood, engine
<1> QED BY <1>10, <1>11, <1>12 DEF IInv

LEMMA CopyStep == IInv /\ CopyDone => IInv'
<1> SUFFICES ASSUME IInv, CopyDone PROVE IInv'
  OBVIOUS
<1>1. /\ pc = "bulk" /\ todo = <<>> /\ NextCopy(job, copy + 1)
      /\ UNCHANGED <<profile, job, jobs, engine, clean>>
  BY DEF CopyDone
<1>2. /\ job \in Jobs /\ job.raster.perRow * 8 < profile.head + 8
      /\ copy \in Nat \ {0} /\ copy <= job.copies
  BY <1>1 DEF IInv, JobOK, TodoOK
<1>3. job.copies \in Int
  BY <1>2, PrintJobAssumption DEF PrintJobAssumption, Jobs
<1>4. Sent = EndAt(job)
  BY <1>1, Places DEF Sent
<1>5. clean => /\ due = 0 /\ ~open
               /\ Tellable => Len(labels) = copy
  <2>1. /\ Sent >= StopAt(job) /\ Sent >= EnableAt(job) /\ Sent >= RasterAt(job)
        /\ ~(Sent < StopAt(job))
    BY <1>4, Places
  <2> QED BY <1>1, <2>1 DEF IInv, EngineOK
<1>6. /\ DensityAt(job)' = DensityAt(job) /\ EnableAt(job)' = EnableAt(job)
      /\ RasterAt(job)' = RasterAt(job) /\ StopAt(job)' = StopAt(job)
      /\ Darkness(job)' = Darkness(job) /\ Tellable' = Tellable /\ Asked' = Asked
      /\ Sequence(job)' = Sequence(job)
  BY <1>1, SameJob
<1>7. LabelsOK' /\ Understood'
  BY <1>1, <1>6 DEF IInv, LabelsOK, Understood, engine
<1>8. CASE copy + 1 <= job.copies
  <2>1. /\ copy' = copy + 1 /\ pc' = "preamble" /\ todo' = Preamble(Sequence(job))
        /\ outcome' = outcome
    BY <1>1, <1>2, <1>3, <1>8 DEF NextCopy
  <2>2. /\ todo' \in Seq(Commands) /\ Sent' = 0
        /\ \A i \in 1..Len(todo') : todo'[i] = Sequence(job)[i]
    <3>1. PICK j \in Jobs : job = j
      BY <1>2
    <3> QED BY <1>1, <2>1, <3>1, CopyBegins DEF IInv, StateOK
  <2>3. StateOK' /\ JobOK' /\ EndOK'
    BY <1>1, <1>2, <2>1 DEF IInv, StateOK, JobOK, EndOK, engine
  <2>4. TodoOK'
    <3>1. \A i \in 1..Len(todo') : todo'[i] = Sequence(job)[Sent' + i]
      BY <2>2
    <3> QED BY <1>1, <1>2, <1>3, <1>6, <1>8, <2>1, <2>2, <3>1 DEF TodoOK
  <2>5. EngineOK'
    <3>1. /\ ~(Sent' >= DensityAt(job)) /\ ~(Sent' >= EnableAt(job))
          /\ ~(Sent' >= RasterAt(job))
      BY <2>2, Places
    <3>2. copy' - 1 = copy
      BY <1>2, <2>1
    <3> QED BY <1>1, <1>5, <1>6, <2>1, <3>1, <3>2 DEF EngineOK, engine
  <2> QED BY <1>7, <2>3, <2>4, <2>5 DEF IInv
<1>9. CASE copy + 1 > job.copies
  <2>1. pc' = "idle" /\ outcome' = "ok" /\ copy' = copy
    BY <1>1, <1>2, <1>3, <1>9 DEF NextCopy
  <2>2. StateOK' /\ JobOK' /\ TodoOK' /\ EngineOK'
    BY <1>1, <1>2, <2>1 DEF IInv, StateOK, JobOK, TodoOK, EngineOK, engine
  <2>3. copy = Larger(0, job.copies)
    BY <1>2, <1>3, <1>9 DEF Larger
  <2>4. EndOK'
    BY <1>1, <1>5, <1>6, <2>1, <2>3 DEF EndOK, engine
  <2> QED BY <1>7, <2>2, <2>4 DEF IInv
<1> QED BY <1>2, <1>3, <1>8, <1>9

LEMMA BreakStep == IInv /\ BreakOff => IInv'
<1> SUFFICES ASSUME IInv, BreakOff PROVE IInv'
  OBVIOUS
<1>1. /\ pc \in {"preamble", "bulk"} /\ pc' = "idle" /\ outcome' = "failed"
      /\ UNCHANGED <<profile, job, copy, jobs, clean>>
  BY DEF BreakOff
<1>2. /\ job \in Jobs /\ job.raster.perRow * 8 < profile.head + 8
      /\ copy \in Nat \ {0} /\ copy <= job.copies /\ todo \in Seq(Commands)
  BY <1>1 DEF IInv, JobOK, TodoOK
<1>3. due \in Nat
  BY DEF IInv, StateOK
<1>4. /\ UNCHANGED <<open, darkness, labels>> /\ due' \in Nat /\ garbled' \in BOOLEAN
      /\ clean => garbled' = garbled
  <2>1. CASE UNCHANGED engine
    BY <1>3, <2>1 DEF engine, IInv, StateOK
  <2>2. ASSUME todo # <<>>, NEW n \in {1, Head(todo).size - 1}, Feed(Head(todo), n)
        PROVE  /\ UNCHANGED <<open, darkness, labels>> /\ due' \in Nat /\ garbled' \in BOOLEAN
               /\ clean => garbled' = garbled
    <3> DEFINE size == Head(todo).size
    <3>1. size \in Nat \ {0, 1}
      <4>1. Head(todo) \in Commands
        BY <1>2, <2>2
      <4> QED BY <4>1 DEF Commands
    <3> HIDE DEF size
    <3>2. n \in Nat \ {0} /\ n < size
      BY <2>2, <3>1 DEF size
    <3>3. CASE due > 0
      <4>1. ~clean
        BY <1>1, <1>3, <3>3 DEF IInv, EngineOK
      <4>2. due' = Larger(0, due - n) /\ garbled' = (garbled \/ n > 0)
            /\ UNCHANGED <<open, darkness, labels>>
        BY <1>3, <2>2, <3>3 DEF Feed
      <4> QED BY <1>3, <3>2, <4>1, <4>2 DEF Larger, IInv, StateOK
    <3>4. CASE due = 0
      <4>1. due' = (IF n = 0 THEN 0 ELSE size - n) /\ UNCHANGED <<open, darkness, labels, garbled>>
        BY <2>2, <3>1, <3>2, <3>4 DEF Feed, size
      <4> QED BY <3>1, <3>2, <4>1 DEF IInv, StateOK
    <3> QED BY <1>3, <3>3, <3>4
  <2> QED BY <2>1, <2>2 DEF BreakOff
<1>5. StateOK' /\ JobOK' /\ TodoOK' /\ EngineOK'
  BY <1>1, <1>2, <1>4 DEF IInv, StateOK, JobOK, TodoOK, EngineOK
<1>6. Tellable' = Tellable /\ Asked' = Asked
  BY <1>1, SameJob
<1>7. LabelsOK' /\ Understood'
  BY <1>1, <1>4, <1>6 DEF IInv, LabelsOK, Understood
<1>8. EndOK'
  <2>1. clean /\ Tellable => Len(labels) \in {copy - 1, copy}
    BY <1>1 DEF IInv, EngineOK
  <2> QED BY <1>1, <1>2, <1>4, <1>6, <2>1 DEF EndOK
<1> QED BY <1>5, <1>7, <1>8 DEF IInv

LEMMA PrintStep ==
    ASSUME IInv, NEW image \in Images, NEW density \in Densities \cup {NoDensity},
           NEW paper \in Papers, NEW copies \in Copies, NEW packed \in PackedSizes,
           PrintImage(image, [density |-> density, paper |-> paper], copies, packed)
    PROVE  IInv'
<1> DEFINE options == [density |-> density, paper |-> paper]
           raster == Raster(Fit(image, profile.head))
<1>1. /\ pc = "idle" /\ jobs < MaxJobs /\ jobs' = jobs + 1 /\ Route
      /\ job' = [raster |-> raster, options |-> options, copies |-> copies, packed |-> packed]
      /\ labels' = <<>> /\ UNCHANGED <<profile, darkness>>
      /\ \/ copies > 0 /\ NextCopy(job', 1)
         \/ copies <= 0 /\ copy' = 0 /\ outcome' = "ok" /\ UNCHANGED <<pc, todo>>
  BY DEF PrintImage
<1>2. raster \in Rasters /\ raster.perRow * 8 < profile.head + 8
  BY Fitted DEF IInv, StateOK
<1> HIDE DEF raster
<1>3. job' \in Jobs /\ job'.raster = raster /\ job'.copies = copies
  BY <1>1, <1>2 DEF Jobs, Options
<1>4. PICK j \in Jobs : job' = j
  BY <1>3
<1>5. /\ clean' = (due' = 0 /\ ~garbled') /\ clean' \in BOOLEAN
      /\ due' \in Nat /\ open' \in BOOLEAN /\ garbled' \in BOOLEAN
  <2>1. due \in Nat /\ open \in BOOLEAN /\ garbled \in BOOLEAN
    BY DEF IInv, StateOK
  <2>2. clean' = (due' = 0 /\ ~garbled')
    BY <1>1, Zenon DEF Route
  <2>3. clean' \in BOOLEAN
    BY <2>2
  <2>4. CASE UNCHANGED <<due, open, garbled>>
    BY <2>1, <2>2, <2>3, <2>4
  <2>5. CASE due' = 0 /\ garbled' = FALSE /\ open' \in {open, FALSE}
    <3>1. open' \in BOOLEAN
      BY <2>1, <2>5
    <3> QED BY <2>2, <2>3, <2>5, <3>1
  <2>6. UNCHANGED <<due, open, garbled>> \/ (due' = 0 /\ garbled' = FALSE /\ open' \in {open, FALSE})
    BY <1>1, Zenon DEF Route
  <2> QED BY <2>4, <2>5, <2>6, Zenon
<1>6. LabelsOK' /\ Understood' /\ JobOK'
  <2>1. LabelsOK'
    BY <1>1 DEF LabelsOK
  <2>2. Understood'
    BY <1>5 DEF Understood
  <2>3. JobOK'
    BY <1>1, <1>2, <1>3 DEF JobOK
  <2> QED BY <2>1, <2>2, <2>3
<1>7. ASSUME pc' \in {"idle", "preamble"}, outcome' \in {"none", "ok", "failed"}
      PROVE  StateOK'
  <2>1. labels' \in Seq(LabelRecords)
    <3>1. <<>> \in Seq(LabelRecords)
      OBVIOUS
    <3> QED BY <1>1, <3>1, Zenon
  <2>2. jobs' \in 0..MaxJobs
    BY <1>1, PrintJobAssumption DEF PrintJobAssumption, IInv, StateOK
  <2> QED BY <1>1, <1>5, <1>7, <2>1, <2>2 DEF IInv, StateOK
<1>8. copies \in Int
  BY PrintJobAssumption DEF PrintJobAssumption
<1>9. Len(labels') = 0
  BY <1>1
<1>10. CASE copies > 0
  <2>1. copy' = 1 /\ pc' = "preamble" /\ todo' = Preamble(Sequence(j)) /\ outcome' = outcome
    BY <1>1, <1>3, <1>4, <1>8, <1>10 DEF NextCopy
  <2>2. /\ todo' \in Seq(Commands) /\ Sent' = 0
        /\ \A i \in 1..Len(todo') : todo'[i] = Sequence(j)[i]
    BY <1>1, <1>4, <2>1, CopyBegins DEF IInv, StateOK
  <2>3. StateOK'
    BY <1>7, <2>1 DEF IInv, StateOK
  <2>4. EndOK'
    BY <2>1 DEF EndOK
  <2>5. TodoOK'
    <3>1. Sequence(job)' = Sequence(j)
      BY <1>1, <1>4, Zenon DEF Sequence
    <3>2. \A i \in 1..Len(todo') : todo'[i] = Sequence(job)'[Sent' + i]
      BY <2>2, <3>1
    <3>3. 1 <= copies
      BY <1>8, <1>10
    <3> QED BY <1>3, <2>1, <2>2, <3>2, <3>3 DEF TodoOK
  <2>6. EngineOK'
    <3>1. /\ DensityAt(job)' = DensityAt(j) /\ EnableAt(job)' = EnableAt(j)
          /\ RasterAt(job)' = RasterAt(j)
      BY <1>1, <1>4, Zenon DEF DensityAt, EnableAt, RasterAt
    <3>2. /\ ~(Sent' >= DensityAt(job)') /\ ~(Sent' >= EnableAt(job)')
          /\ ~(Sent' >= RasterAt(job)')
      BY <2>2, <3>1, Places
    <3>3. Len(labels') = copy' - 1
      BY <1>9, <2>1
    <3> QED BY <1>5, <2>1, <3>2, <3>3 DEF EngineOK
  <2> QED BY <1>6, <2>3, <2>4, <2>5, <2>6 DEF IInv
<1>11. CASE copies <= 0
  <2>1. copy' = 0 /\ outcome' = "ok" /\ pc' = "idle"
    BY <1>1, <1>8, <1>11
  <2>2. StateOK' /\ TodoOK' /\ EngineOK'
    BY <1>7, <2>1 DEF TodoOK, EngineOK
  <2>3. EndOK'
    <3>1. Larger(0, copies) = 0 /\ ~(copies > 0)
      BY <1>8, <1>11 DEF Larger
    <3> QED BY <1>3, <1>5, <1>9, <2>1, <3>1 DEF EndOK
  <2> QED BY <1>6, <2>2, <2>3 DEF IInv
<1> QED BY <1>8, <1>10, <1>11

LEMMA IInvNext == IInv /\ [Next]_vars => IInv'
<1> SUFFICES ASSUME IInv, [Next]_vars PROVE IInv'
  OBVIOUS
<1>1. ASSUME NEW image \in Images, NEW density \in Densities \cup {NoDensity},
             NEW paper \in {"gap", "continuous"}, NEW copies \in Copies,
             NEW packed \in PackedSizes,
             PrintImage(image, [density |-> density, paper |-> paper], copies, packed)
      PROVE  IInv'
  BY <1>1, PrintStep DEF Papers
<1>2. CASE SendCommand
  BY <1>2, SendStep
<1>3. CASE PreambleSent
  BY <1>3, PreambleStep
<1>4. CASE CopyDone
  BY <1>4, CopyStep
<1>5. CASE BreakOff
  BY <1>5, BreakStep
<1>6. CASE UNCHANGED vars
  <2>1. /\ UNCHANGED <<profile, pc, todo, job, copy, outcome, jobs, clean>>
        /\ UNCHANGED <<due, open, darkness, labels, garbled>>
    BY <1>6 DEF vars, engine
  <2>2. /\ DensityAt(job)' = DensityAt(job) /\ EnableAt(job)' = EnableAt(job)
        /\ RasterAt(job)' = RasterAt(job) /\ StopAt(job)' = StopAt(job)
        /\ EndAt(job)' = EndAt(job) /\ Darkness(job)' = Darkness(job)
        /\ Sequence(job)' = Sequence(job) /\ Tellable' = Tellable /\ Asked' = Asked
    BY <2>1, SameJob
  <2>3. Sent' = Sent
    BY <2>1, <2>2, Zenon DEF Sent
  <2>4. StateOK' /\ JobOK' /\ EndOK' /\ LabelsOK' /\ Understood'
    BY <2>1, <2>2 DEF IInv, StateOK, JobOK, EndOK, LabelsOK, Understood
  <2>5. TodoOK' /\ EngineOK'
    BY <2>1, <2>2, <2>3 DEF IInv, TodoOK, EngineOK
  <2> QED BY <2>4, <2>5 DEF IInv
<1> QED BY <1>1, <1>2, <1>3, <1>4, <1>5, <1>6 DEF Next

LEMMA Inductive == Spec => []IInv
  BY IInvInit, IInvNext, PTL DEF Spec

-----------------------------------------------------------------------------
(* The types of the state. *)
THEOREM JobTyped == Spec => []TypeOK
<1>1. IInv => TypeOK
  <2> SUFFICES ASSUME IInv PROVE TypeOK
    OBVIOUS
  <2>1. \A i \in DOMAIN labels : labels[i].darkness \in 0..255
    <3>1. \A i \in DOMAIN labels : labels[i] \in LabelRecords
      BY DEF IInv, StateOK
    <3> QED BY <3>1 DEF LabelRecords
  <2>2. job.raster.perRow \in Nat /\ job.raster.height \in Nat
    <3>1. CASE job \in Jobs
      <4>1. job.raster \in Rasters
        BY <3>1 DEF Jobs
      <4> QED BY <4>1 DEF Rasters
    <3>2. CASE job.raster = [perRow |-> 0, height |-> 0]
      BY <3>2
    <3> QED BY <3>1, <3>2 DEF IInv, JobOK
  <2>3. copy \in 0..Larger(0, job.copies)
    <3>1. job.copies \in Int
      <4>1. CASE job \in Jobs
        <5>1. job.copies \in Copies
          BY <4>1 DEF Jobs
        <5> QED BY <5>1, PrintJobAssumption DEF PrintJobAssumption
      <4>2. CASE job.copies = 0
        BY <4>2
      <4> QED BY <4>1, <4>2 DEF IInv, JobOK
    <3>2. \/ copy \in Nat \ {0} /\ copy <= job.copies
          \/ copy = Larger(0, job.copies) \/ copy = 0
      <4>1. CASE pc # "idle"
        BY <4>1 DEF IInv, TodoOK
      <4>2. CASE pc = "idle"
        BY <4>2 DEF IInv, EndOK, StateOK
      <4> QED BY <4>1, <4>2
    <3> QED BY <3>1, <3>2 DEF Larger
  <2> QED BY <2>1, <2>2, <2>3 DEF IInv, StateOK, TypeOK
<1> QED BY <1>1, Inductive, PTL

(* Every label of a print on a clean link is the one that was asked for, fits *)
(* the head, has a row at least, and no copy comes twice, for any printers,   *)
(* images and densities.                                                      *)
THEOREM OwnLabels == Spec => []LabelsAreOwn
<1>1. IInv => LabelsAreOwn
  <2> SUFFICES ASSUME IInv, clean, Tellable
               PROVE  /\ \A i \in DOMAIN labels :
                            /\ labels[i] = Asked
                            /\ labels[i].raster.perRow * 8 < profile.head + 8
                            /\ labels[i].raster.height >= 1
                      /\ Len(labels) \in {0, copy - 1, copy}
    BY DEF LabelsAreOwn
  <2>1. \A i \in DOMAIN labels : labels[i] = Asked
    BY DEF IInv, LabelsOK
  <2>2. Asked.raster = job.raster
    BY DEF Asked
  <2>3. CASE job \in Jobs /\ job.raster.perRow * 8 < profile.head + 8
    <3>1. job.raster.height >= 1
      <4>1. job.raster \in Rasters
        BY <2>3 DEF Jobs
      <4> QED BY <4>1 DEF Rasters
    <3>2. Len(labels) \in {0, copy - 1, copy}
      <4>1. CASE pc # "idle"
        BY <4>1 DEF IInv, EngineOK
      <4>2. CASE pc = "idle"
        BY <4>2 DEF IInv, EndOK, StateOK
      <4> QED BY <4>1, <4>2
    <3> HIDE DEF Asked
    <3> QED BY <2>1, <2>2, <2>3, <3>1, <3>2
  <2>4. CASE pc = "idle" /\ outcome = "none"
    BY <2>4 DEF IInv, EndOK
  <2> QED BY <2>3, <2>4 DEF IInv, JobOK
<1> QED BY <1>1, Inductive, PTL

(* A print that ends well has put all its copies on paper, and leaves the     *)
(* printer disabled and not in the middle of a command.                       *)
THEOREM AllCopies == Spec => []CopiesPrinted
<1>1. IInv => CopiesPrinted
  BY DEF IInv, EndOK, CopiesPrinted
<1> QED BY <1>1, Inductive, PTL

(* The printer never takes data for commands or commands for data.            *)
THEOREM NeverGarbled == Spec => []Understood
<1>1. IInv => Understood
  BY DEF IInv
<1> QED BY <1>1, Inductive, PTL
=============================================================================
