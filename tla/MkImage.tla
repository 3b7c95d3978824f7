------------------------------ MODULE MkImage ------------------------------
(***************************************************************************)
(* mkimage, the tool that puts the header of U-Boot in front of a file or  *)
(* of several, and lists an image (mkimage.c, image.h).  It truncates the  *)
(* image, writes an empty header, a table of sizes and the files, and      *)
(* fills the header in at the end.  It can be killed at any point, a write *)
(* can come out short, and the files can change while it runs.  An image   *)
(* that exists can be damaged; the tool runs up to MaxRuns times.          *)
(***************************************************************************)
EXTENDS Integers, SequencesExt, TLC, Crc32

CONSTANTS
  Path,        \* data files
  Content,     \* what a data file can hold: sequences of bytes
  Command,     \* the command lines, as records (see Defaults)
  LongBytes,   \* sizeof(long) where the tool runs, 4 or 8
  AddrSpace,   \* 2^32, the range of addr and ep
  Time,        \* the modification time that the header gets
  MaxRuns, MaxChanges,   \* bounds on runs and on changes of the data files
  Masks, Spots,          \* bits that damage inverts, bytes of the data it reaches
  Missing,     \* no such file
  NoHeader     \* the image is shorter than a header

ASSUME MkImageAssumption ==
  /\ AddrSpace \in Nat /\ AddrSpace > 64
  /\ LongBytes \in {4, 8}
  /\ Missing \notin Content

VARIABLES
  fs,        \* the data files
  image,     \* the image file: its header and what follows, or Missing
  pc,        \* where the tool is; "idle" between runs
  cmd,       \* the command line of the run
  todo,      \* the file of the list, or the field of the header, that is next
  checksum,  \* of the data
  verdict,   \* how the last run has ended
  runs, changes,   \* counts that are bounded
  owner,     \* history: the command that has written the image
  changed,   \* history: a data file has changed since then
  damaged    \* history: the image has been damaged since then

vars == <<fs, image, pc, cmd, todo, checksum, verdict, runs, changes,
          owner, changed, damaged>>

-----------------------------------------------------------------------------
(* Words and the header, in bytes; integers are big-endian *)

Bits(n) == {i \in 0 .. 30 : (n \div 2 ^ i) % 2 = 1}

Word(w) == [i \in 1 .. 4 |-> {b \in 0 .. 7 : b + 8 * (4 - i) \in w}]

Zeros(n) == [i \in 1 .. n |-> {}]

IH_MAGIC == Bits(654645590)
IH_NMLEN == 32
HeaderSize == 64

ZeroHeader ==
  [f \in {"magic", "hcrc", "time", "size", "load", "ep", "dcrc",
          "os", "arch", "type", "comp"} |-> {}] @@ [name |-> Zeros(IH_NMLEN)]

HeaderBytes(h) ==
  Word(h.magic) \o Word(h.hcrc) \o Word(h.time) \o Word(h.size) \o Word(h.load)
    \o Word(h.ep) \o Word(h.dcrc) \o <<h.os, h.arch, h.type, h.comp>> \o h.name

HeaderCrc(h) == crc32({}, HeaderBytes([h EXCEPT !.hcrc = {}]))

-----------------------------------------------------------------------------
(* The command line *)

(* The codes of image.h, by the names that the command line has for them *)
IH_OS ==
  <<"openbsd", "netbsd", "freebsd", "4_4bsd", "linux", "svr4", "esix", "solaris",
    "irix", "sco", "dell", "ncr", "lynxos", "vxworks", "psos", "qnx", "u-boot",
    "rtems", "artos", "unity">>
IH_CPU ==
  <<"alpha", "arm", "x86", "ia64", "mips", "mips64", "ppc", "s390", "sh", "sparc",
    "sparc64", "m68k", "nios", "microblaze", "nios2", "blackfin">> @@ (22 :> "arm64")
IH_TYPE ==
  <<"standalone", "kernel", "ramdisk", "multi", "firmware", "script", "filesystem">>
IH_COMP == (0 :> "none") @@ (1 :> "gzip") @@ (2 :> "bzip2")

(* The tables of mkimage.c: the command line cannot name one of the systems. *)
arch_name == IH_CPU
os_name == Front(IH_OS)
type_name == IH_TYPE
comp_name == IH_COMP

(* The values of a name: none when it is not valid *)
get_table_entry(table, name) == {v \in DOMAIN table : table[v] = name}

Code(table, name) == Bits(CHOOSE v \in get_table_entry(table, name) : TRUE)

(* No option: -l, -d (a list of files), -x, -a, -e, -n, -A, -C, -O, -T *)
Defaults ==
  [l |-> FALSE, d |-> <<>>, x |-> FALSE, a |-> 0, e |-> Missing, n |-> <<>>,
   A |-> "ppc", C |-> "gzip", O |-> "linux", T |-> "kernel"]

EntryPoint(c) ==
  IF c.e # Missing THEN c.e
  ELSE IF c.x THEN (c.a + HeaderSize) % AddrSpace ELSE c.a

(* The sum on the right is one of size_t: it does not wrap around. *)
Usable(c) ==
  /\ get_table_entry(arch_name, c.A) # {} /\ get_table_entry(comp_name, c.C) # {}
  /\ get_table_entry(os_name, c.O) # {} /\ get_table_entry(type_name, c.T) # {}
  /\ c.l # (c.d # <<>>)
  /\ c.x => EntryPoint(c) = c.a + HeaderSize

HasTable(c) == c.T \in {"multi", "script"}

-----------------------------------------------------------------------------
(* The tool *)

Init ==
  /\ fs \in [Path -> Content \union {Missing}]
  /\ image = Missing
  /\ pc = "idle" /\ cmd = Defaults /\ todo = 0 /\ checksum = {} /\ verdict = "none"
  /\ runs = 0 /\ changes = 0
  /\ owner = Defaults /\ changed = FALSE /\ damaged = FALSE

(* Only the tool moves. *)
World == <<fs, changes, changed, damaged>>

Exit(how) == pc' = "idle" /\ verdict' = how /\ todo' = 0 /\ checksum' = {}

GoTo(where, next) == pc' = where /\ todo' = next /\ UNCHANGED verdict

(* A command line that is not accepted leaves everything as it is.  No run *)
(* follows damage: Accepted is what -l would say of the image.              *)
Start(c) ==
  /\ pc = "idle" /\ runs < MaxRuns /\ ~damaged
  /\ runs' = runs + 1 /\ cmd' = c
  /\ IF Usable(c)
     THEN GoTo(IF c.l THEN "list" ELSE "open", 0) /\ UNCHANGED checksum
     ELSE Exit("failure")
  /\ UNCHANGED <<image, owner, World>>

(* What -l accepts.  It does not look at ih_size. *)
Accepted(im) ==
  /\ im # Missing /\ im.hdr # NoHeader
  /\ im.hdr.magic = IH_MAGIC
  /\ im.hdr.hcrc = HeaderCrc(im.hdr)
  /\ im.hdr.dcrc = crc32({}, im.body)

(* The name that -l prints for a code *)
put_table_entry(table, w) ==
  IF \E v \in DOMAIN table : Bits(v) = w
  THEN table[CHOOSE v \in DOMAIN table : Bits(v) = w] ELSE "Unknown"

print_type(h) ==
  [A |-> put_table_entry(arch_name, h.arch), O |-> put_table_entry(os_name, h.os),
   T |-> put_table_entry(type_name, h.type), C |-> put_table_entry(comp_name, h.comp)]

(* The name ends with its first zero byte, or fills the field. *)
ImageName(h) ==
  LET ends == {i \in 1 .. IH_NMLEN : h.name[i] = {}}
  IN SubSeq(h.name, 1, IF ends = {} THEN IH_NMLEN ELSE Min(ends) - 1)

(* What -l prints, but for Contents *)
print_header(h) ==
  print_type(h) @@ [n |-> ImageName(h), size |-> h.size, a |-> h.load, e |-> h.ep]

(* The big-endian word i of the data, and whether the entry i of a table of *)
(* entries that are n bytes long is 0                                       *)
SizeAt(body, i) ==
  LET n[k \in 0 .. 32] ==
        IF k = 0 THEN 0
        ELSE n[k - 1] + (IF (k - 1) % 8 \in body[4 * i - (k - 1) \div 8]
                         THEN 2 ^ (k - 1) ELSE 0)
  IN n[32]

IsEnd(body, i, n) == \A j \in n * (i - 1) + 1 .. n * i : body[j] = {}

(* The sizes that -l prints for an image with a table.  It reads the table  *)
(* as numbers of the type long, of which it prints the first word.          *)
Contents(body) ==
  LET ends == {i \in 1 .. Len(body) \div LongBytes : IsEnd(body, i, LongBytes)}
  IN [i \in 1 .. Min(ends) - 1 |-> SizeAt(body, (LongBytes \div 4) * (i - 1) + 1)]

List ==
  /\ pc = "list"
  /\ Exit(IF Accepted(image) THEN "success" ELSE "failure")
  /\ UNCHANGED <<image, cmd, runs, owner, World>>

(* open() truncates the image. *)
Open ==
  /\ pc = "open"
  /\ image' = [hdr |-> NoHeader, body |-> <<>>]
  /\ owner' = cmd /\ changed' = FALSE /\ damaged' = FALSE
  /\ GoTo("dummy", 0)
  /\ UNCHANGED <<fs, cmd, checksum, runs, changes>>

DummyHeader ==
  /\ pc = "dummy"
  /\ image' = [image EXCEPT !.hdr = ZeroHeader]
  /\ GoTo(IF HasTable(cmd) THEN "table" ELSE "copy", 1)
  /\ UNCHANGED <<cmd, checksum, runs, owner, World>>

Written(bytes) == image' = [image EXCEPT !.body = @ \o bytes]

(* A write that fails has written a part; the tool ends. *)
WrittenInPart(bytes) ==
  /\ \E k \in 0 .. Len(bytes) - 1 : Written(SubSeq(bytes, 1, k))
  /\ Exit("failure")

(* The size that stat() gives now; the table ends with 0. *)
TableEntry ==
  /\ pc = "table"
  /\ IF todo > Len(cmd.d)
     THEN \/ Written(Word({})) /\ GoTo("copy", 1) /\ UNCHANGED checksum
          \/ WrittenInPart(Word({}))
     ELSE LET file == fs[cmd.d[todo]] IN
          \/ /\ file = Missing
             /\ Exit("failure") /\ UNCHANGED image
          \/ /\ file # Missing
             /\ Written(Word(Bits(Len(file)))) /\ GoTo("table", todo + 1)
             /\ UNCHANGED checksum
          \/ /\ file # Missing
             /\ WrittenInPart(Word(Bits(Len(file))))
  /\ UNCHANGED <<cmd, runs, owner, World>>

(* The space for the header, which a file for execution in place begins with *)
Reserved == [i \in 1 .. HeaderSize |-> 0 .. 7]

(* Mutant: a file of length 0 is copied like any other. *)
EmptyCopyable(i) ==
  /\ HasTable(cmd) \/ Len(cmd.d) = 1
  /\ fs[cmd.d[i]] # Missing
  /\ cmd.x => IsPrefix(Reserved, fs[cmd.d[i]])

(* Without a table, data_file:data_file is the name of one file.  A file   *)
(* of length 0 cannot be mapped.                                           *)
Copyable(i) ==
  /\ HasTable(cmd) \/ Len(cmd.d) = 1
  /\ fs[cmd.d[i]] \notin {Missing, <<>>}
  /\ cmd.x => IsPrefix(Reserved, fs[cmd.d[i]])

(* Mutant: a file that cannot be copied is passed over. *)
CopyGoesOn ==
  /\ pc = "copy" /\ ~Copyable(todo)
  /\ IF todo < Len(cmd.d) THEN GoTo("copy", todo + 1) ELSE GoTo("hash", 0)
  /\ UNCHANGED <<image, cmd, checksum, runs, owner, World>>

CopyFails ==
  /\ pc = "copy" /\ ~Copyable(todo)
  /\ Exit("failure")
  /\ UNCHANGED <<image, cmd, runs, owner, World>>

Used(file, xip) == IF xip THEN SubSeq(file, HeaderSize + 1, Len(file)) ELSE file

Tail4(n) == (4 - (n % 4)) % 4

(* The last file is not padded. *)
LastFile == ~HasTable(cmd) \/ todo = Len(cmd.d)

copy_file ==
  /\ pc = "copy" /\ Copyable(todo)
  /\ LET data == Used(fs[cmd.d[todo]], cmd.x)
     IN \/ /\ Written(data) /\ UNCHANGED checksum
           /\ IF LastFile THEN GoTo("hash", 0)
              ELSE IF Tail4(Len(data)) = 0 THEN GoTo("copy", todo + 1)
              ELSE GoTo("pad", todo)
        \/ WrittenInPart(data)
  /\ UNCHANGED <<cmd, runs, owner, World>>

(* All the files before ended on a multiple of 4, so the image tells the tail. *)
Pad ==
  /\ pc = "pad"
  /\ LET zeros == Zeros(Tail4(Len(image.body)))
     IN \/ Written(zeros) /\ GoTo("copy", todo + 1) /\ UNCHANGED checksum
        \/ WrittenInPart(zeros)
  /\ UNCHANGED <<cmd, runs, owner, World>>

HashData ==
  /\ pc = "hash"
  /\ checksum' = crc32({}, image.body)
  /\ GoTo("fill", 1)
  /\ UNCHANGED <<image, cmd, runs, owner, World>>

(* The fields in the order in which they are stored *)
Fields ==
  <<"magic", "time", "size", "load", "ep", "dcrc", "os", "arch", "type", "comp", "name">>

NewHeader ==
  [magic |-> IH_MAGIC, time |-> Bits(Time), size |-> Bits(Len(image.body)),
   load |-> Bits(cmd.a), ep |-> Bits(EntryPoint(cmd)), dcrc |-> checksum,
   os |-> Code(os_name, cmd.O), arch |-> Code(arch_name, cmd.A),
   type |-> Code(type_name, cmd.T), comp |-> Code(comp_name, cmd.C),
   name |-> SubSeq(cmd.n \o Zeros(IH_NMLEN), 1, IH_NMLEN)]

FillField ==
  /\ pc = "fill"
  /\ image' = [image EXCEPT !.hdr[Fields[todo]] = NewHeader[Fields[todo]]]
  /\ IF todo = Len(Fields) THEN GoTo("seal", 0) ELSE GoTo("fill", todo + 1)
  /\ UNCHANGED <<cmd, checksum, runs, owner, World>>

(* ih_hcrc is still 0 when the header's checksum is computed. *)
SealHeader ==
  /\ pc = "seal"
  /\ image' = [image EXCEPT !.hdr.hcrc = crc32({}, HeaderBytes(image.hdr))]
  /\ GoTo("close", 0)
  /\ UNCHANGED <<cmd, checksum, runs, owner, World>>

Close ==
  /\ pc = "close"
  /\ Exit("success")
  /\ UNCHANGED <<image, cmd, runs, owner, World>>

(* A signal ends the tool, or a call of open, fstat or mmap fails, or the   *)
(* write of the empty header.                                               *)
Killed ==
  /\ pc # "idle"
  /\ Exit("failure")
  /\ UNCHANGED <<image, cmd, runs, owner, World>>

-----------------------------------------------------------------------------
(* The world around it *)

(* A data file is written again, created or removed while the tool runs;    *)
(* between runs the change would only be another initial state.             *)
Change(p) ==
  /\ pc # "idle"
  /\ changes < MaxChanges /\ changes' = changes + 1
  /\ fs' \in {[fs EXCEPT ![p] = c] : c \in (Content \union {Missing}) \ {fs[p]}}
  /\ changed' = TRUE
  /\ UNCHANGED <<image, pc, cmd, todo, checksum, verdict, runs, owner, damaged>>

(* Bits of one byte of the data, or of one field, are inverted in an image   *)
(* that was complete.                                                        *)
Damage ==
  /\ pc = "idle" /\ verdict = "success" /\ ~damaged /\ ~cmd.l
  /\ damaged' = TRUE
  /\ \E mask \in Masks :
       \/ \E f \in DOMAIN ZeroHeader \ {"name"} :
            image' = [image EXCEPT !.hdr[f] = SymDiff(@, mask)]
       \/ \E i \in Spots \intersect (1 .. Len(image.body)) :
            image' = [image EXCEPT !.body[i] = SymDiff(@, mask)]
  /\ UNCHANGED <<fs, pc, cmd, todo, checksum, verdict, runs, changes, owner, changed>>

ToolNext ==
  \/ \E c \in Command : Start(c)
  \/ List \/ Open \/ DummyHeader \/ TableEntry \/ CopyFails \/ copy_file \/ Pad
  \/ HashData \/ FillField \/ SealHeader \/ Close \/ Killed

Next ==
  \/ ToolNext
  \/ \E p \in Path : Change(p)
  \/ Damage

Spec == Init /\ [][Next]_vars

-----------------------------------------------------------------------------
(* What an image should be *)

Padded(data) == data \o Zeros(Tail4(Len(data)))

Body(c) ==
  LET data == [i \in DOMAIN c.d |-> Used(fs[c.d[i]], c.x)]
  IN (IF HasTable(c)
      THEN FlattenSeq([i \in DOMAIN c.d |-> Word(Bits(Len(fs[c.d[i]])))]) \o Word({})
      ELSE <<>>)
       \o FlattenSeq([i \in DOMAIN c.d |->
                       IF i < Len(c.d) THEN Padded(data[i]) ELSE data[i]])

(* How the boot loader takes an image with a table apart, by the comment in *)
(* image.h: the words before the first 0 are the sizes.                     *)
FilesIn(body) ==
  LET ends == {i \in 1 .. Len(body) \div 4 : IsEnd(body, i, 4)}
      count == (CHOOSE i \in ends : \A j \in ends : i <= j) - 1
      start[i \in 1 .. count + 1] ==
        IF i = 1 THEN 4 * (count + 1)
        ELSE start[i - 1] + SizeAt(body, i - 1) + Tail4(SizeAt(body, i - 1))
  IN [i \in 1 .. count |-> SubSeq(body, start[i] + 1, start[i] + SizeAt(body, i))]

-----------------------------------------------------------------------------
(* Properties *)

(* An image that -l accepts is whole: whatever kills the tool, fails in it  *)
(* or starts it anew, a part of an image or a mixture of two is refused;    *)
(* and what -l prints of it is what the command line asked for, the name    *)
(* cut to its field.  Data files that change while the tool runs are        *)
(* excepted (main, copy_file, print_header).                                *)
AcceptedIsWhole ==
  ~changed /\ Accepted(image) =>
    /\ \A i \in DOMAIN owner.d : fs[owner.d[i]] # Missing
    /\ image.body = Body(owner)
    /\ LET shown == print_header(image.hdr)
       IN /\ \A option \in {"A", "O", "T", "C"} : shown[option] = owner[option]
          /\ shown.n = SubSeq(owner.n, 1, Min({Len(owner.n), IH_NMLEN}))
          /\ shown.size = Bits(Len(image.body))
          /\ shown.a = Bits(owner.a) /\ shown.e = Bits(EntryPoint(owner))

(* The table that an accepted image begins with leads to every file, byte   *)
(* for byte: no size is 0, which would end it, and the padding is where     *)
(* image.h says; and -l lists their sizes.  Execution in place is excepted  *)
(* (the sizes in the table are those of the files with the space for the    *)
(* header, the data has lost it), and so are data files that change between *)
(* stat and copy, and a host where a long has 8 bytes.                      *)
FilesFound ==
  ~changed /\ HasTable(owner) /\ ~owner.x /\ Accepted(image) =>
    /\ FilesIn(image.body) = [i \in DOMAIN owner.d |-> fs[owner.d[i]]]
    /\ Contents(image.body) = [i \in DOMAIN owner.d |-> Len(fs[owner.d[i]])]

(* Damage to one byte of the data or one field of the header is noticed.    *)
DamageRefused == damaged => ~Accepted(image)

(* The two checksums are the remainders of the divisions that crc32.c       *)
(* describes, with the table, the chunks of eight and what is left over;    *)
(* and the 256 entries of the table that is built in are those that         *)
(* make_crc_table would compute, those the data does not reach included.    *)
CrcIsRemainder ==
  /\ TableIsMade
  /\ pc = "fill" => checksum = Remainder(image.body)
  /\ pc = "close" =>
       image.hdr.hcrc = Remainder(HeaderBytes([image.hdr EXCEPT !.hcrc = {}]))

=============================================================================
