------------------------------ MODULE MediaStore ------------------------------
(***************************************************************************)
(* The memory card of the simulated camera (camera-media-store): the walk  *)
(* that gives every file and directory under the media root a handle, the  *)
(* answers computed from that table, the search for the thumbnail inside a *)
(* raw file, and the stream that sends a range of a file as a data phase.  *)
(* The table is that of the last scan; the files are read when they are    *)
(* asked for, so the card may have changed in between.                     *)
(*                                                                         *)
(* A path is a sequence of names, and names are numbers in their order.    *)
(* A node of the card is a directory, a file or a symbolic link; a file    *)
(* has a size, a type, a generation (raised when it is rewritten) and,     *)
(* when it is a raw file, the structure of its header and preview.         *)
(***************************************************************************)
EXTENDS Integers, Sequences, FiniteSets, SequencesExt

CONSTANTS
  Cards,      \* cards: functions from paths to nodes
  Files,      \* what a file that is rewritten may become
  MaxLinks,   \* links the operating system follows in one path
  Ceiling,    \* SIZE_CEILING, the largest size an ObjectInfo can state
  HeaderLen,  \* RAF_HEADER_LEN
  Offsets,    \* offsets of partial reads
  Lengths,    \* lengths of partial reads
  ChunkBytes, \* DATA_CHUNK_BYTES
  MaxChanges  \* bound: changes of the card

VARIABLES
  card,     \* the files below the media root
  scanned,  \* the card that the last scan saw (history), as a set
  table,    \* by_handle
  job,      \* the command that is being answered
  changes

vars == <<card, scanned, table, job, changes>>  \* camera-media-store/lib.rs:161-165

Outside == <<0>>   \* a link target that is not below the root; no name is 0
Root == <<>>
\* camera-media-store/lib.rs:490-499
Short == [off |-> 0, len |-> 0]  \* a read past the end of a file
Idle == [st |-> "idle"]

CardAssumption ==
  /\ \A c \in Cards : \A p \in DOMAIN c :
       /\ p # Root
       /\ Len(p) > 1 => Front(p) \in DOMAIN c /\ c[Front(p)].kind = "dir"
       /\ c[p].kind = "link" /\ c[p].to \in DOMAIN c => c[c[p].to].kind # "link"
  /\ \A f \in Files : f.kind = "file"
  /\ MaxLinks \in Nat /\ Ceiling \in Nat /\ HeaderLen \in Nat
  /\ Offsets \subseteq Nat /\ Lengths \subseteq 0..Ceiling
  /\ ChunkBytes \in Nat \ {0} /\ MaxChanges \in Nat

-----------------------------------------------------------------------------
(* The walk over the card. *)

\* PathBuf's order: component by component, a directory before what it holds.
PathBefore(a, b) ==
  \/ IsStrictPrefix(a, b)
  \/ \E k \in 1..Len(a) : /\ k <= Len(b) /\ a[k] < b[k]
                          /\ \A j \in 1..(k - 1) : a[j] = b[j]

\* camera-media-store/lib.rs:230-232
Children(c, dir) == {p \in DOMAIN c : Len(p) = Len(dir) + 1 /\ IsPrefix(dir, p)}

IsDir(c, p) == p = Root \/ c[p].kind = "dir"  \* camera-media-store/lib.rs:245-246

\* Where an entry leads: itself, or the target of a link that stays below the root.
\* A link that leaves the root, dangles, or has too many links before it is skipped.
Real(c, p, links) ==  \* camera-media-store/lib.rs:233-244
  IF c[p].kind # "link" THEN {p}
  ELSE {t \in {c[p].to} : links < MaxLinks /\ t \in DOMAIN c \cup {Root}}

Entry(c, at, real) == [path |-> at, dir |-> IsDir(c, real),  \* camera-media-store/lib.rs:245-251
                       size |-> IF IsDir(c, real) THEN 0 ELSE c[real].size,
                       ext |-> at[Len(at)] % 10]

RECURSIVE collect(_, _, _, _)
collect(c, dir, at, links) ==
  UNION {UNION {LET here == Append(at, Last(p)) IN
                {Entry(c, here, real)} \cup
                (IF IsDir(c, real)
                 THEN collect(c, real, here, IF c[p].kind = "link" THEN links + 1 ELSE links)
                 ELSE {})
                : real \in Real(c, p, links)}
         : p \in Children(c, dir)}

\* Mutant: the entries below a linked directory are recorded where they really are
\* (ScanReal).
RECURSIVE collectReal(_, _, _, _)
collectReal(c, dir, at, links) ==
  UNION {UNION {{Entry(c, Append(at, Last(p)), real)} \cup
                (IF IsDir(c, real)
                 THEN collectReal(c, real, real, IF c[p].kind = "link" THEN links + 1 ELSE links)
                 ELSE {})
                : real \in Real(c, p, links)}
         : p \in Children(c, dir)}

\* The handle of a path among sorted entries, 0 for the root.
HandleOf(es, p) == IF \E i \in DOMAIN es : es[i].path = p  \* camera-media-store/lib.rs:191-196
                   THEN CHOOSE i \in DOMAIN es : es[i].path = p ELSE 0

\* camera-media-store/lib.rs:17-25
Types == [n \in 0..9 |-> CASE n = 1 -> "jpeg" [] n = 2 -> "raf" [] n = 3 -> "mov" [] OTHER -> "undefined"]

\* The extension decides the format; a name's last digit stands for its extension.
\* camera-media-store/lib.rs:356-369
format_of(e) == IF e.dir THEN "association" ELSE Types[e.ext]

\* camera-media-store/lib.rs:198-225
Row(es, i) == [path |-> es[i].path, parent |-> HandleOf(es, Front(es[i].path)),
               dir |-> es[i].dir, size |-> es[i].size, format |-> format_of(es[i])]

Table(es) == [i \in DOMAIN es |-> Row(es, i)]  \* camera-media-store/lib.rs:161-165

\* The entries in the order of their paths.
Sorted(es) == [i \in 1..Cardinality(es) |->  \* camera-media-store/lib.rs:188-189
                 CHOOSE e \in es : Cardinality({x \in es : PathBefore(x.path, e.path)}) = i - 1]

ScanReal(c) == Table(Sorted(collectReal(c, Root, Root, 0)))

scan(c) == Table(Sorted(collect(c, Root, Root, 0)))

-----------------------------------------------------------------------------
(* The answers. *)

\* camera-media-store/lib.rs:274-281
handles(query) == {h \in DOMAIN table : /\ query.parent # {} => table[h].parent \in query.parent
                                        /\ query.format # {} => table[h].format \in query.format}

Reported(size) == IF size < Ceiling THEN size ELSE Ceiling  \* camera-media-store/lib.rs:27-30

object_info(h) == [size |-> Reported(table[h].size), parent |-> table[h].parent,
                   format |-> table[h].format]

reports_size_sentinel(h) == table[h].size >= Ceiling  \* camera-media-store/lib.rs:305-309

Smaller(a, b) == IF a < b THEN a ELSE b

\* A range of an object: clamped to the size that the scan saw.
read_range(h, offset, len) ==
  [path |-> table[h].path, offset |-> offset,
   len |-> Smaller(len, IF offset > table[h].size THEN 0 ELSE table[h].size - offset)]

-----------------------------------------------------------------------------
(* The thumbnail inside a raw file: the header names a JPEG preview, one of whose APP1   *)
(* segments holds the thumbnail. Positions are bytes of the file.                        *)

raf_header_preview(f) ==
  IF f.size < HeaderLen \/ ~f.pic.magic \/ f.pic.off = 0 \/ f.pic.len = 0
       \/ f.pic.off + f.pic.len > f.size
  THEN {} ELSE {[off |-> f.pic.off, len |-> f.pic.len]}

\* The embedded thumbnail of one APP1 segment, relative to the segment's data.
exif_thumbnail_span(seg) ==
  {[off |-> 6 + e.off, len |-> e.len] :
     e \in {x \in seg.exif : /\ x.len > 0 /\ x.soi
                          /\ 6 + x.off + x.len <= seg.len - 2}}

\* The walk over the markers of the preview, from segment i at position pos; Short when
\* it reads past the end of the file.
RECURSIVE Markers(_, _, _, _)
Markers(f, end, pos, i) ==
  IF pos + 4 > end \/ i > Len(f.pic.segs) THEN {}
  ELSE LET seg == f.pic.segs[i]
           at == pos + 2 + seg.fill
           next == at + seg.len
       IN IF at > f.size THEN {Short}
          ELSE IF seg.id \in {"noMarker", "eoi", "sos"} \/ at > end THEN {}
          ELSE IF seg.id = "alone" THEN Markers(f, end, at, i + 1)
          ELSE IF at + 2 > end THEN {}
          ELSE IF at + 2 > f.size THEN {Short}
          ELSE IF seg.len < 2 \/ next > end THEN {}
          ELSE IF seg.id = "app1" /\ next > f.size THEN {Short}
          ELSE IF seg.id = "app1" /\ exif_thumbnail_span(seg) # {}
          THEN {[off |-> at + 2 + s.off, len |-> s.len] : s \in exif_thumbnail_span(seg)}
          ELSE Markers(f, end, next, i + 1)

\* Mutant: an APP1 segment that reaches past the end of the file is taken as read.
PreviewUnread(f, jpeg) ==
  IF jpeg.off # f.pic.off \/ ~f.pic.soi THEN {}
  ELSE Markers([f EXCEPT !.size = jpeg.off + jpeg.len], jpeg.off + jpeg.len, jpeg.off + 2, 1)

\* The file is opened again: the preview's place is that of the first reading.
jpeg_exif_thumbnail(f, jpeg) ==
  IF jpeg.off + 2 > f.size THEN {Short}
  ELSE IF jpeg.off # f.pic.off \/ ~f.pic.soi THEN {}
  ELSE Markers(f, jpeg.off + jpeg.len, jpeg.off + 2, 1)

-----------------------------------------------------------------------------
(* Commands. *)

\* The node a recorded path leads to now.
RECURSIVE Follow(_, _, _)
Follow(c, at, rest) ==
  IF rest = <<>> THEN {at}
  ELSE LET p == Append(at, Head(rest)) IN
       IF p \notin DOMAIN c THEN {}
       ELSE IF c[p].kind # "link" THEN Follow(c, p, Tail(rest))
       ELSE IF c[p].to \in DOMAIN c \cup {Root} THEN Follow(c, c[p].to, Tail(rest)) ELSE {}

\* The file behind a path, if it can be opened.
Opened(path) == {card[p] : p \in {q \in Follow(card, Root, path) : q # Root /\ card[q].kind = "file"}}

Init ==  \* camera-media-store/lib.rs:168-176
  /\ card \in Cards
  /\ scanned = {} /\ table = <<>>
  /\ job = Idle /\ changes = 0

\* Server::bind opens the root and scans it; a start that fails leaves no table.
Start ==
  /\ job = Idle /\ card \notin scanned
  /\ scanned' = {card} /\ table' = scan(card)
  /\ UNCHANGED <<card, job, changes>>

Refuse(op, h) == job' = [st |-> "refused", op |-> op, h |-> h]  \* engine.rs:1185

\* GetObjectHandles of a camera without a transfer queue (CaptureQueue has that one), and the
\* state document.
List(query) ==
  /\ job = Idle /\ scanned # {}
  /\ job' = [st |-> "listed", query |-> query, found |-> handles(query)]
  /\ UNCHANGED <<card, scanned, table, changes>>

\* GetObjectInfo.
Info(h) ==
  /\ job = Idle /\ scanned # {}
  /\ IF h \in DOMAIN table
     THEN job' = [st |-> "info", h |-> h, info |-> object_info(h), large |-> reports_size_sentinel(h)]
     ELSE Refuse("info", h)
  /\ UNCHANGED <<card, scanned, table, changes>>

\* The data phase of a range: its length is announced before a byte is read.
Streaming(op, h, source, of) ==  \* camera-sim-service/lib.rs:3276-3315
  [st |-> IF source.len > Ceiling THEN "failed" ELSE "stream", op |-> op, h |-> h,
   source |-> source, of |-> of, at |-> 0, got |-> <<>>]

\* GetPartialObject and GetObject; the latter asks for the whole of a size that fits.
Get(op, h, offset, len) ==
  /\ job = Idle /\ scanned # {}
  /\ op = "object" => offset = 0 /\ (h \in DOMAIN table => len = Reported(table[h].size))
  /\ IF h \in DOMAIN table
     THEN job' = Streaming(op, h, read_range(h, offset, len), {})
     ELSE Refuse(op, h)
  /\ UNCHANGED <<card, scanned, table, changes>>

\* GetThumb of a picture or of anything without a preview, or the header of a raw file.
Thumb(h) ==
  /\ job = Idle /\ scanned # {}
  /\ IF h \notin DOMAIN table THEN Refuse("thumb", h)
     ELSE CASE table[h].format = "raf" ->
                 IF \E f \in Opened(table[h].path) : raf_header_preview(f) # {}
                 THEN \E f \in Opened(table[h].path) : \E s \in raf_header_preview(f) :
                        job' = [st |-> "preview", h |-> h, jpeg |-> s]
                 ELSE Refuse("thumb", h)
            [] table[h].format = "jpeg" ->
                 job' = Streaming("thumb", h, [path |-> table[h].path, offset |-> 0,
                                               len |-> table[h].size], {})
            [] OTHER -> job' = Streaming("thumb", h, [path |-> table[h].path, offset |-> 0,
                                                      len |-> 0], {})
  /\ UNCHANGED <<card, scanned, table, changes>>

\* The second half of a raw file's thumbnail: the preview is read from the file as it is now.
Preview ==
  /\ job.st = "preview"
  /\ IF \E f \in Opened(table[job.h].path) : jpeg_exif_thumbnail(f, job.jpeg) \notin {{}, {Short}}
     THEN \E f \in Opened(table[job.h].path) : \E s \in jpeg_exif_thumbnail(f, job.jpeg) :
            job' = Streaming("thumb", job.h, [path |-> table[job.h].path, offset |-> s.off,
                                              len |-> s.len], {f})
     ELSE Refuse("thumb", job.h)
  /\ UNCHANGED <<card, scanned, table, changes>>

\* Mutant: the length is that of the file, whatever the range.
ReadToEnd(source, at, max) ==
  UNION {{[k \in 1..Smaller(max, IF f.size > source.offset + at THEN f.size - source.offset - at ELSE 0)
           |-> <<f.gen, source.offset + at + k>>]}
         : f \in Opened(source.path)}

\* The bytes that one read of a chunk finds: a position and the generation it was read from.
read_chunk(source, at, max) ==
  UNION {{[k \in 1..Smaller(Smaller(max, source.len - at),
                            IF f.size > source.offset + at THEN f.size - source.offset - at ELSE 0)
           |-> <<f.gen, source.offset + at + k>>]}
         : f \in Opened(source.path)}

\* One turn of stream_data_phase: a chunk, or the end it announced, or an error.
Chunk ==
  /\ job.st = "stream"
  /\ IF job.at >= job.source.len THEN job' = [job EXCEPT !.st = "sent"]
     ELSE IF \E b \in read_chunk(job.source, job.at, ChunkBytes) : b # <<>>
     THEN \E b \in read_chunk(job.source, job.at, ChunkBytes) :
            job' = [job EXCEPT !.at = @ + Len(b), !.got = @ \o b]
     ELSE job' = [job EXCEPT !.st = "failed"]
  /\ UNCHANGED <<card, scanned, table, changes>>

Done ==
  /\ job.st \notin {"idle", "stream", "preview"}
  /\ job' = Idle
  /\ UNCHANGED <<card, scanned, table, changes>>

\* The user of the card: a file is rewritten or removed.
Rewrite(p, f) ==
  /\ changes < MaxChanges /\ card[p].kind = "file"
  /\ card' = [card EXCEPT ![p] = [f EXCEPT !.gen = card[p].gen + 1]]
  /\ changes' = changes + 1
  /\ UNCHANGED <<scanned, table, job>>

Erase(p) ==
  /\ changes < MaxChanges /\ card[p].kind = "file"
  /\ card' = [q \in DOMAIN card \ {p} |-> card[q]]
  /\ changes' = changes + 1
  /\ UNCHANGED <<scanned, table, job>>

Queries == [parent : {{}, {0}, {1}}, format : {{}, {"raf"}}]
Asked == 1..(Len(table) + 1)

Next ==
  \/ Start
  \/ \E q \in Queries : List(q)
  \/ \E h \in Asked : Info(h) \/ Thumb(h)
  \/ \E h \in Asked, o \in Offsets, l \in Lengths : Get("partial", h, o, l)
  \/ \E h \in Asked, l \in 0..Ceiling : Get("object", h, 0, l)
  \/ Preview \/ Chunk \/ Done
  \/ \E p \in DOMAIN card : Erase(p) \/ \E f \in Files : Rewrite(p, f)

Spec == Init /\ [][Next]_vars

-----------------------------------------------------------------------------
TypeOK ==
  /\ \A c \in scanned : table = scan(c)
  /\ job.st \in {"idle", "refused", "listed", "info", "preview", "stream", "sent", "failed"}
  /\ changes \in 0..MaxChanges

\* What a path leads to when it is followed name by name, and the links on the way.
Step(c, r, n) ==
  IF r.at = Outside \/ ~IsDir(c, r.at) \/ Append(r.at, n) \notin DOMAIN c THEN [at |-> Outside, links |-> 0]
  ELSE LET p == Append(r.at, n) IN
       IF c[p].kind # "link" THEN [at |-> p, links |-> r.links]
       ELSE IF c[p].to \in DOMAIN c \cup {Root} /\ r.links < MaxLinks
       THEN [at |-> c[p].to, links |-> r.links + 1] ELSE [at |-> Outside, links |-> 0]

Leads(c, path) == FoldLeft(LAMBDA r, n : Step(c, r, n), [at |-> Root, links |-> 0], path).at

\* Scanning (collect, scan): the objects are exactly the paths that can be followed from the
\* root without leaving it, each under the directory or link that holds it, so that listing by
\* parent from the root reaches every object once, and a parent has a smaller handle.
TreeIsWhole ==
  \A c \in scanned :
    /\ \A h \in DOMAIN table : Leads(c, table[h].path) # Outside
    /\ \A h \in DOMAIN table, n \in {Last(p) : p \in DOMAIN c} :
         LET child == Append(table[h].path, n) IN
         Leads(c, child) # Outside => \E k \in DOMAIN table : k > h /\ table[k].path = child
                                                               /\ table[k].parent = h
    /\ \A n \in {Last(p) : p \in DOMAIN c} :
         Leads(c, <<n>>) # Outside => \E k \in DOMAIN table : table[k].path = <<n>> /\ table[k].parent = 0
    /\ \A h, k \in DOMAIN table : table[h].path = table[k].path => h = k
    /\ \A h \in DOMAIN table : table[h].parent # 0 =>
         table[table[h].parent].dir /\ table[table[h].parent].path = Front(table[h].path)

\* Reading (read_range, read_chunk, stream_data_phase): what is sent is, byte for byte, the
\* range that was asked for, never more than the scan saw; a range is reported as sent only
\* when its announced length was sent, and while the card is as scanned nothing fails.
StreamIsExact ==
  job.st \in {"stream", "sent", "failed"} =>
    /\ Len(job.got) = job.at /\ job.at <= job.source.len
    /\ \A k \in 1..Len(job.got) : job.got[k][2] = job.source.offset + k
    /\ job.of = {} => job.source.offset + job.source.len <= table[job.h].size \/ job.source.len = 0
    /\ job.st = "sent" => job.at = job.source.len
    /\ job.st = "failed" => card \notin scanned \/ job.source.len > Ceiling
    /\ job.op = "object" /\ job.st = "sent" => job.at = Reported(table[job.h].size)

\* A raw file's thumbnail (extract_raf_thumbnail), found by two readings of the file, lies
\* inside the file that the second one read, also when the file changed in between.
ThumbnailIsInside ==
  job.st \in {"stream", "sent", "failed"} => \A f \in job.of :
    /\ job.source.offset + job.source.len <= f.size
    /\ job.source.offset >= f.pic.off + 2

\* Sizes (object_info): an object whose size does not fit is announced as large, one whose
\* size does is announced exactly.
SizeIsStated ==
  job.st = "info" => /\ job.info.size <= Ceiling
                     /\ ~job.large => job.info.size = table[job.h].size

MediaIsHonest == TreeIsWhole /\ StreamIsExact /\ ThumbnailIsInside /\ SizeIsStated
=============================================================================
