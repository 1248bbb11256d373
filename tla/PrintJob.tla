------------------------------ MODULE PrintJob -------------------------------
(* A label on its way to the paper: the image is fitted to the print head     *)
(* (imaging.py), turned into the command sequence of its printer's family     *)
(* (protocols/l11.py, protocols/compressed.py), cut into a preamble and a     *)
(* bulk part and sent once per copy (client.py).  The printer reads the       *)
(* stream it is given; it is external, and as simple as the code's comments   *)
(* take it to be.                                                             *)
(*                                                                            *)
(* A command is its label, the operand bytes that matter, its size in bytes   *)
(* and its bulk flag.  Pixels and the zlib stream are sizes only.             *)
EXTENDS Integers, Sequences

CONSTANTS
    Profiles,         \* the printers: family, density command, map, default, head
    Images,           \* rendered labels: width and height in pixels
    Densities,        \* densities callers ask for
    NoDensity,        \* the caller leaves the density to the profile
    Copies,           \* numbers of copies callers ask for
    PackedSizes,      \* sizes zlib may compress a raster to
    MaxJobs           \* bound on prints

(* The values of a 16-bit field. *)
Word == 256 * 256

ASSUME PrintJobAssumption ==
    /\ \A p \in Profiles :
          /\ p.family \in {"l11", "compressed"}
          /\ p.command \in {"set-density", "set-thickness"}
          /\ p.map # <<>> => 1 \in DOMAIN p.map
          /\ \A d \in DOMAIN p.map : p.map[d] \in Int
          /\ p.default \in Int
          /\ p.head \in Nat \ {0} /\ (p.head + 7) \div 8 < Word
    /\ \A i \in Images : i.width \in Nat \ {0} /\ i.height \in Nat \ {0}
    /\ Densities \subseteq Int /\ NoDensity \notin Densities
    /\ Copies \subseteq Int
    /\ \A n \in PackedSizes : n \in Nat \ {0} /\ n \div Word < Word
    /\ MaxJobs \in Nat

VARIABLES
    profile,          \* the printer's profile
    pc, todo,         \* "idle", "preamble" or "bulk"; commands left to send
    job, copy,        \* the print, and its copy that is being sent
    outcome,          \* how the last print ended
    jobs,             \* prints so far, for the bound
    due,              \* bytes of a broken-off command the printer waits for
    open, darkness,   \* is its engine enabled, and how dark does it print?
    labels,           \* the labels it printed in this print
    garbled,          \* has it misread bytes since its link came up?
    clean             \* had it not when this print began, and was nothing due?

engine == <<due, open, darkness, labels, garbled>>
vars   == <<profile, pc, todo, job, copy, outcome, jobs, engine, clean>>

-----------------------------------------------------------------------------
(* imaging.py *)

Larger(m, n) == IF m > n THEN m ELSE n

(* round(m / n): to the nearest, ties to even. *)
Round(m, n) ==
    LET q == m \div n
        r == m % n
    IN  IF 2 * r > n \/ (2 * r = n /\ q % 2 = 1) THEN q + 1 ELSE q

(* Mutant: a flat image is scaled down to nothing. *)
FitToNothing(image, head) ==
    IF image.width <= head THEN image
    ELSE [width |-> head, height |-> Round(image.height * head, image.width)]

(* fit_to_printhead: what is too wide is scaled down, to one row at least. *)
Fit(image, head) ==
    IF image.width <= head THEN image
    ELSE [width  |-> head,
          height |-> Larger(1, Round(image.height * head, image.width))]

(* to_raster: every row starts on a byte boundary. *)
Raster(image) == [perRow |-> (image.width + 7) \div 8, height |-> image.height]

-----------------------------------------------------------------------------
(* protocols/ *)

Command(label, operand, size) ==
    [label |-> label, operand |-> operand, size |-> size, bulk |-> FALSE]

Little(n) == <<n % 256, (n \div 256) % 256>>

Big(n) == <<(n \div 256) % 256, n % 256>>

(* map_density: off the map counts as its first entry; without a map it is    *)
(* sent as it is.                                                             *)
MapDensity(p, d) ==
    IF p.map = <<>> THEN d ELSE IF d \in DOMAIN p.map THEN p.map[d] ELSE p.map[1]

(* Mutant: without a density from the caller none is set. *)
DensityOfCaller(p, options) ==
    IF options.density = NoDensity THEN <<>>
    ELSE <<Command(p.command, <<MapDensity(p, options.density) % 256>>, 4)>>

(* Mutant: the operand is not cut to a byte. *)
SetDensityUncut(p, options) ==
    LET d == IF options.density = NoDensity THEN p.default ELSE options.density
    IN  <<Command(p.command, <<MapDensity(p, d)>>,
                  IF p.command = "set-thickness" THEN 5 ELSE 4)>>

(* The density of the caller, or the profile's. *)
SetDensity(p, options) ==
    LET d == IF options.density = NoDensity THEN p.default ELSE options.density
    IN  <<Command(p.command, <<MapDensity(p, d) % 256>>,
                  IF p.command = "set-thickness" THEN 5 ELSE 4)>>

(* Mutant: the fields of the L11 header in the order of the other family. *)
L11RasterBig(raster) ==
    [label |-> "print-bitmap", operand |-> Big(raster.perRow) \o Big(raster.height),
     size |-> 8 + raster.perRow * raster.height, bulk |-> TRUE]

L11Raster(raster) ==
    [label |-> "print-bitmap", operand |-> Little(raster.perRow) \o Little(raster.height),
     size |-> 8 + raster.perRow * raster.height, bulk |-> TRUE]

(* L11Protocol.build_print_sequence *)
L11Sequence(raster, p, options) ==
    SetDensity(p, options) \o
    <<Command("wakeup", <<>>, 15),
      Command("enable", <<>>, 4),
      L11Raster(raster),
      IF options.paper = "gap" THEN Command("position-to-gap", <<>>, 2)
                               ELSE Command("feed-dots", <<100>>, 3),
      Command("stop", <<>>, 4)>>

CompressedRaster(raster, packed) ==
    [label   |-> "print-bitmap",
     operand |-> Big(raster.perRow) \o Big(raster.height)
                     \o Big(packed \div Word) \o Big(packed),
     size    |-> 10 + packed, bulk |-> TRUE]

(* CompressedProtocol.build_print_sequence *)
CompressedSequence(raster, p, options, packed) ==
    LET gap == options.paper = "gap"
    IN  (IF gap THEN <<Command("set-paper-type", <<32>>, 4)>> ELSE <<>>)
        \o SetDensity(p, options) \o
        <<Command("wakeup", <<>>, 6),
          Command("start-job", <<>>, 4),
          IF gap THEN Command("adjust-position", <<81>>, 3)
                 ELSE Command("feed-dots", Little(100), 5),
          CompressedRaster(raster, packed),
          Command("printer-location", IF gap THEN <<32, 0>> ELSE <<0, 0>>, 4),
          Command("stop-job", <<>>, 4),
          Command("adjust-position", IF gap THEN <<80>> ELSE <<0>>, 3)>>

Sequence(j) ==
    IF profile.family = "l11" THEN L11Sequence(j.raster, profile, j.options)
    ELSE CompressedSequence(j.raster, profile, j.options, j.packed)

-----------------------------------------------------------------------------
(* The printer. *)

(* A 16-bit field of a raster header, in the byte order of the family. *)
Field(bytes) ==
    IF profile.family = "l11" THEN bytes[1] + 256 * bytes[2]
                              ELSE 256 * bytes[1] + bytes[2]

(* The label a raster command makes the printer print: an L11 printer counts  *)
(* its data by the two fields, one of the other family by the length field.   *)
Declared(c) == [perRow |-> Field(c.operand), height |-> Field(Tail(Tail(c.operand)))]

DataSize(c) ==
    IF profile.family = "l11" THEN Declared(c).perRow * Declared(c).height
    ELSE Word * Field(SubSeq(c.operand, 5, 6)) + Field(SubSeq(c.operand, 7, 8))

HeaderSize == IF profile.family = "l11" THEN 8 ELSE 10

Obey(c) ==
    /\ open' = (\/ c.label \in {"enable", "start-job"}
                \/ open /\ c.label \notin {"stop", "stop-job"})
    /\ darkness' = IF c.label \in {"set-density", "set-thickness"} THEN c.operand[1]
                   ELSE darkness
    /\ IF c.label = "print-bitmap"
       THEN /\ labels' = IF open THEN Append(labels, [raster |-> Declared(c),
                                                      darkness |-> darkness])
                         ELSE labels
            /\ garbled' = (garbled \/ DataSize(c) # c.size - HeaderSize)
       ELSE UNCHANGED <<labels, garbled>>
    /\ UNCHANGED due

(* The printer is given the first n bytes of a command.  What it still waits  *)
(* for of an earlier one swallows them.                                       *)
Feed(c, n) ==
    \/ /\ due > 0
       /\ due' = Larger(0, due - n)
       /\ garbled' = (garbled \/ n > 0)
       /\ UNCHANGED <<open, darkness, labels>>
    \/ /\ due = 0 /\ n < c.size
       /\ due' = IF n = 0 THEN 0 ELSE c.size - n
       /\ UNCHANGED <<open, darkness, labels, garbled>>
    \/ /\ due = 0 /\ n = c.size
       /\ Obey(c)

-----------------------------------------------------------------------------
Init ==
    /\ profile \in Profiles
    /\ pc = "idle" /\ todo = <<>>
    /\ job = [raster |-> [perRow |-> 0, height |-> 0],
              options |-> [density |-> NoDensity, paper |-> "gap"],
              copies |-> 0, packed |-> 0]
    /\ copy = 0 /\ outcome = "none" /\ jobs = 0
    /\ due = 0 /\ open = FALSE /\ darkness = 0 /\ labels = <<>> /\ garbled = FALSE
    /\ clean = TRUE

FirstBulk(commands) ==
    CHOOSE i \in DOMAIN commands :
        commands[i].bulk /\ \A j \in 1..i - 1 : ~commands[j].bulk

(* _split_at_bulk: everything from the first bulk command on is one stream. *)
Preamble(commands) == SubSeq(commands, 1, FirstBulk(commands) - 1)

(* Mutant: only what is flagged goes into the bulk stream. *)
BulkFlagged(commands) == SelectSeq(commands, LAMBDA c : c.bulk)

Bulk(commands) == SubSeq(commands, FirstBulk(commands), Len(commands))

(* Another copy is sent, or none is left and the print is over. *)
NextCopy(j, n) ==
    \/ /\ n <= j.copies
       /\ copy' = n
       /\ pc' = "preamble" /\ todo' = Preamble(Sequence(j))
       /\ UNCHANGED outcome
    \/ /\ n > j.copies
       /\ pc' = "idle" /\ todo' = <<>>
       /\ outcome' = "ok"
       /\ UNCHANGED copy

(* A print has the link of the one before it, or a new one: a printer that    *)
(* loses its link forgets the command that was broken off, and may be         *)
(* disabled.                                                                  *)
Route ==
    /\ \/ UNCHANGED <<due, open, garbled>>
       \/ due' = 0 /\ garbled' = FALSE /\ open' \in {open, FALSE}
    /\ clean' = (due' = 0 /\ ~garbled')

(* print_image is called.                                                     *)
PrintImage(image, options, copies, packed) ==
    /\ pc = "idle" /\ jobs < MaxJobs
    /\ jobs' = jobs + 1
    /\ Route
    /\ job' = [raster |-> Raster(Fit(image, profile.head)), options |-> options,
               copies |-> copies, packed |-> packed]
    /\ labels' = <<>>
    /\ \/ copies > 0 /\ NextCopy(job', 1)
       \/ copies <= 0 /\ copy' = 0 /\ outcome' = "ok" /\ UNCHANGED <<pc, todo>>
    /\ UNCHANGED <<profile, darkness>>

SendCommand ==
    /\ pc \in {"preamble", "bulk"} /\ todo # <<>>
    /\ Feed(Head(todo), Head(todo).size)
    /\ todo' = Tail(todo)
    /\ UNCHANGED <<profile, pc, job, copy, outcome, jobs, clean>>

PreambleSent ==
    /\ pc = "preamble" /\ todo = <<>>
    /\ pc' = "bulk"
    /\ todo' = Bulk(Sequence(job))
    /\ UNCHANGED <<profile, job, copy, outcome, jobs, engine, clean>>

(* The copy is out and confirmed (PrinterClient). *)
CopyDone ==
    /\ pc = "bulk" /\ todo = <<>>
    /\ NextCopy(job, copy + 1)
    /\ UNCHANGED <<profile, job, jobs, engine, clean>>

(* The send breaks off: before the next command, or inside of it, near either *)
(* end.                                                                       *)
BreakOff ==
    /\ pc \in {"preamble", "bulk"}
    /\ \/ UNCHANGED engine
       \/ /\ todo # <<>>
          /\ \E n \in {1, Head(todo).size - 1} : Feed(Head(todo), n)
    /\ pc' = "idle" /\ todo' = <<>>
    /\ outcome' = "failed"
    /\ UNCHANGED <<profile, job, copy, jobs, clean>>

Next ==
    \/ \E image \in Images, density \in Densities \cup {NoDensity},
         paper \in {"gap", "continuous"}, copies \in Copies, packed \in PackedSizes :
             PrintImage(image, [density |-> density, paper |-> paper], copies, packed)
    \/ SendCommand \/ PreambleSent \/ CopyDone \/ BreakOff

Spec == Init /\ [][Next]_vars

-----------------------------------------------------------------------------
TypeOK ==
    /\ profile \in Profiles
    /\ pc \in {"idle", "preamble", "bulk"}
    /\ job.raster.perRow \in Nat /\ job.raster.height \in Nat
    /\ copy \in 0..Larger(0, job.copies)
    /\ outcome \in {"none", "ok", "failed"}
    /\ jobs \in 0..MaxJobs
    /\ due \in Nat /\ open \in BOOLEAN /\ garbled \in BOOLEAN /\ clean \in BOOLEAN
    /\ darkness \in 0..255
    /\ \A i \in DOMAIN labels : labels[i].darkness \in 0..255

(* Rasters whose height the 16-bit field of the header can tell. *)
Tellable == job.raster.height < Word

(* The label that was asked for. *)
Asked ==
    [raster   |-> job.raster,
     darkness |-> MapDensity(profile, IF job.options.density = NoDensity
                                      THEN profile.default
                                      ELSE job.options.density) % 256]

(* Whatever was printed before, and however far this print gets: every label  *)
(* of it is the one that was asked for, as dark as it was asked for, no wider *)
(* than the head and not scaled to nothing (imaging.py:66), and no copy comes *)
(* twice.                                                                     *)
LabelsAreOwn ==
    clean /\ Tellable =>
        /\ \A i \in DOMAIN labels :
              /\ labels[i] = Asked
              /\ labels[i].raster.perRow * 8 < profile.head + 8
              /\ labels[i].raster.height >= 1
        /\ Len(labels) \in {0, copy - 1, copy}

(* A print that ends well has put all its copies on paper and leaves the      *)
(* printer as the next one needs it: disabled, and not in the middle of a     *)
(* command (test_protocol.py: "ends with stop").                              *)
CopiesPrinted ==
    pc = "idle" /\ outcome = "ok" /\ clean /\ Tellable =>
        /\ Len(labels) = Larger(0, job.copies)
        /\ due = 0
        /\ job.copies > 0 => ~open

(* The printer never takes data for commands or commands for data: each       *)
(* header agrees with what follows it, in the byte order of its family.  The  *)
(* exceptions are a print on the kept link of one that broke off inside of a  *)
(* command, and a raster of 65536 rows or more, beyond an L11 header.         *)
Understood == garbled /\ clean => profile.family = "l11" /\ ~Tellable
=============================================================================
