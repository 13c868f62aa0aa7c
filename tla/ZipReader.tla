----------------------------- MODULE ZipReader -----------------------------
(***************************************************************************)
(* How unzip.c reads a package: where it finds the end record, how it      *)
(* walks the central directory, when it agrees to open a file and how much *)
(* of it each read delivers.                                               *)
(*                                                                         *)
(* A package is its entries in order, the length of its comment, the       *)
(* number of bytes in front of the first entry (negative if the file has   *)
(* lost its head), the number of bytes that are really there, whether it   *)
(* has the records of Zip64, and what is damaged.  Only the places of the  *)
(* records are kept.  The data of the files hold no signature of a record. *)
(***************************************************************************)
EXTENDS Integers, Sequences, FiniteSets

CONSTANTS
  MaxComment,      \* how far back the end record is looked for (0xffff)
  BufReadComment,  \* in steps of how many bytes (0x400)
  CopyBuffer       \* how much a read asks for (65536)

ASSUME BufferAssumption ==
  /\ MaxComment \in Nat
  /\ BufReadComment \in Nat \ {0}
  /\ CopyBuffer \in Nat \ {0}

LocalHeader == 30
CentralHeader == 46
EndRecord == 22
EndRecord64 == 56  \* Zip64 puts its own end record and a locator for it
Locator64 == 20    \* in front of the end record, which then says nothing
Descriptor == 16  \* follows the data of an entry that was streamed

Stored == 0
Deflated == 8
Bzip2ed == 12

\* One record may be damaged: a central header, a local header, the end record,
\* or the data of a file at one byte.  There the card cannot be read, or the
\* inflater notices, or it sees the end of the stream, or nobody notices.
NoDamage == [part |-> "none", entry |-> 0, at |-> 0, as |-> "none"]

Entries ==
  [dir : STRING, base : STRING, so : BOOLEAN, method : Nat, streamed : BOOLEAN,
   usize : Nat, csize : Nat, name : Nat, extra : Nat]

Archives ==
  [entries : Seq(Entries), comment : Nat, prefix : Int, size : Nat,
   zip64 : BOOLEAN,
   damage :
     [part : {"none", "central", "local", "end", "data"}, entry : Nat, at : Nat,
      as : {"none", "unreadable", "inflate error", "end of stream", "unnoticed"}]]

Damaged(z, part, k) == z.damage.part = part /\ z.damage.entry = k

MinOf(a, b) == IF a < b THEN a ELSE b

MaxIn(S) == CHOOSE x \in S : \A y \in S : y <= x
-----------------------------------------------------------------------------
(***************************************************************************)
(* The places of the records, counted from the first byte of the archive   *)
(* as its own records count them.                                          *)
(***************************************************************************)
LocalSize(e) ==
  LocalHeader + e.name + e.csize + (IF e.streamed THEN Descriptor ELSE 0)

CentralSize(e) == CentralHeader + e.name + e.extra

\* What the local header says of an entry that was streamed: nothing.
LocalSizes(e) == IF e.streamed THEN <<0, 0>> ELSE <<e.csize, e.usize>>

Total(size(_), entries) ==
  LET sum[j \in 0..Len(entries)] ==
        IF j = 0 THEN 0 ELSE sum[j - 1] + size(entries[j])
  IN  sum[Len(entries)]

Before(z, k) == SubSeq(z.entries, 1, k - 1)

LocalOffset(z, k) == Total(LocalSize, Before(z, k))
CentralOffset(z) == Total(LocalSize, z.entries)
CentralLength(z) == Total(CentralSize, z.entries)
ItemOffset(z, k) == CentralOffset(z) + Total(CentralSize, Before(z, k))

\* Where the Zip64 end record is, as the locator counts
EndOffset64(z) == CentralOffset(z) + CentralLength(z)

\* From the first byte of the file, where the locator and the end record should be
LocatorPos(z) == z.prefix + EndOffset64(z) + EndRecord64

EndPos(z) ==
  z.prefix + CentralOffset(z) + CentralLength(z)
    + (IF z.zip64 THEN EndRecord64 + Locator64 ELSE 0)

WholeSize(z) == EndPos(z) + EndRecord + z.comment

\* Every record is there, but perhaps not all of the comment behind them.  With
\* Zip64's own end record and locator the plain end record is never looked at.
Complete(z) ==
  z.prefix >= 0 /\ z.size >= EndPos(z) + (IF z.zip64 THEN 0 ELSE EndRecord)

\* getByte, getShort, getLong: a field of n bytes is read whole or not at all
CanRead(z, pos, n) == pos >= 0 /\ pos + n <= z.size

\* Where four bytes read as the signature of the end record
EndSignatures(z) == {p \in {EndPos(z)} : CanRead(z, p, 4)}
LocatorSignatures(z) == {p \in {LocatorPos(z)} : z.zip64 /\ CanRead(z, p, 4)}
-----------------------------------------------------------------------------
(***************************************************************************)
(* Opening the archive.                                                    *)
(***************************************************************************)

\* Windows of BufReadComment + 4 bytes, the last one first, each beginning
\* BufReadComment bytes before the one after it; in a window the last
\* signature counts.  0 means not found, so one at 0 is never found.
SearchBack(z, signatures) ==
  LET maxBack == MinOf(MaxComment, z.size)
      found[back \in 0..maxBack] ==
        IF back >= maxBack THEN 0
        ELSE LET next == MinOf(back + BufReadComment, maxBack)
                 from == z.size - next
                 read == MinOf(BufReadComment + 4, next)
                 hits == {p \in signatures : from <= p /\ p + 4 <= from + read}
             IN  IF hits \ {0} = {} THEN found[next] ELSE MaxIn(hits)
  IN  IF maxBack < 4 THEN 0 ELSE found[4]

SearchCentralDir(z) == SearchBack(z, EndSignatures(z))

\* What the search is for: the last signature, if it lies within MaxComment
\* bytes of the end and not at the very start.
LastSignature(z) ==
  LET near == {p \in EndSignatures(z) : p > 0 /\ z.size - p <= MaxComment}
  IN  IF near = {} THEN 0 ELSE MaxIn(near)

\* The end record that the locator names, if it is there: its offset is not
\* corrected for what is in front of the archive.
SearchCentralDir64(z) ==
  LET at == SearchBack(z, LocatorSignatures(z))
      offset == EndOffset64(z)
  IN  IF /\ at # 0 /\ CanRead(z, at, Locator64)
         /\ CanRead(z, offset, 4) /\ z.prefix = 0
      THEN offset ELSE 0

Closed == [open |-> FALSE, before |-> 0, num |-> 0, pos |-> 0, ok |-> FALSE]

\* unz64local_GetCurrentFileInfoInternal at a place of the central directory:
\* the fixed part of an entry's header, then its name, the walk through its
\* extra fields and its comment.  The answer is the entry, 0 for a failure.
CentralHeaderAt(z, pos) ==
  {k \in DOMAIN z.entries : /\ z.prefix + ItemOffset(z, k) = pos
                            /\ ~ Damaged(z, "central", k)
                            /\ CanRead(z, pos, CentralHeader)}

CurrentFileInfo(z, r) ==
  LET pos == r.pos + r.before
      here == {k \in CentralHeaderAt(z, pos) :
                 CanRead(z, pos, CentralSize(z.entries[k]))}
  IN  IF here = {} THEN 0 ELSE MaxIn(here)

\* unzGoToFirstFile
GoToFirstFile(z, r) ==
  LET s == [r EXCEPT !.num = 0, !.pos = CentralOffset(z)]
  IN  [s EXCEPT !.ok = CurrentFileInfo(z, s) # 0]

\* The end record is whole, speaks of one disk and agrees with itself.
EndRecordOk(z, central, length) ==
  central # 0 /\ CanRead(z, central, length) /\ ~ Damaged(z, "end", 0)

\* The directory must end before the end record; how far before tells how many
\* bytes are in front of the archive.
BytesBefore(z, central) == central - CentralOffset(z) - CentralLength(z)

Opened(z, central) ==
  GoToFirstFile(z, [Closed EXCEPT !.open = TRUE, !.before = BytesBefore(z, central)])

\* A Zip64 end record tells where the directory is; the other one of such an
\* archive has only ones for it, which lie far behind the end of the file.
UnzOpen64(z, central) ==
  IF EndRecordOk(z, central, EndRecord64) THEN Opened(z, central) ELSE Closed

\* Mutant: the directory may seem to reach past the end record.
UnzOpenAnyway(z) ==
  LET central64 == SearchCentralDir64(z)
      central == SearchCentralDir(z)
  IN  IF central64 # 0 THEN UnzOpen64(z, central64)
      ELSE IF EndRecordOk(z, central, EndRecord) /\ ~ z.zip64
      THEN Opened(z, central) ELSE Closed

\* unzOpenInternal
UnzOpen(z) ==
  LET central64 == SearchCentralDir64(z)
      central == SearchCentralDir(z)
  IN  IF central64 # 0 THEN UnzOpen64(z, central64)
      ELSE IF /\ EndRecordOk(z, central, EndRecord)
              /\ BytesBefore(z, central) >= 0 /\ ~ z.zip64
      THEN Opened(z, central) ELSE Closed

\* unzGoToNextFile: what it answers, and the reader after it.
GoToNextFile(z, r) ==
  LET e == z.entries[CurrentFileInfo(z, r)]
      s == [r EXCEPT !.num = @ + 1, !.pos = @ + CentralSize(e)]
      ok == CurrentFileInfo(z, s) # 0
  IN  IF ~ r.ok \/ r.num + 1 = Len(z.entries)
      THEN [status |-> "end of list", reader |-> r]
      ELSE [status |-> IF ok THEN "ok" ELSE "error", reader |-> [s EXCEPT !.ok = ok]]
-----------------------------------------------------------------------------
(***************************************************************************)
(* Reading one file.                                                       *)
(***************************************************************************)

\* unz64local_CheckCurrentFileCoherencyHeader: the local header is there, has
\* the method of the central one, a method known here, and the same sizes and
\* checksum unless it was streamed, when they follow the data.
Coherent(z, r, k) ==
  LET e == z.entries[k]
      at == LocalOffset(z, k) + r.before
  IN  /\ z.prefix + LocalOffset(z, k) = at
      /\ CanRead(z, at, LocalHeader)
      /\ ~ Damaged(z, "local", k)
      /\ e.method \in {Stored, Deflated, Bzip2ed}
      /\ e.streamed \/ LocalSizes(e) = <<e.csize, e.usize>>

\* unzOpenCurrentFile3
CanOpen(z, r) == r.ok /\ Coherent(z, r, CurrentFileInfo(z, r))

\* There is no bzip2 in the build: such a file is read as it is packed.
Raw(e) == e.method = Bzip2ed

Length(e) == IF Raw(e) THEN e.csize ELSE e.usize

\* inflate() at a damaged byte: an error loses the whole buffer; the end of the
\* stream does not.
Inflate(damage, done, want) ==
  CASE damage.as = "inflate error" -> -1
    [] damage.as = "end of stream" -> damage.at - done
    [] OTHER                       -> want

\* unzReadCurrentFile after done bytes: the bytes it delivers, or -1.
ReadCurrentFile(z, k, done) ==
  LET e == z.entries[k]
      want == MinOf(CopyBuffer, Length(e) - done)
      hit == /\ Damaged(z, "data", k)
             /\ done <= z.damage.at /\ z.damage.at < done + want
  IN  IF ~ hit THEN want
      ELSE IF z.damage.as = "unreadable" THEN -1
      ELSE IF Raw(e) \/ e.method = Stored THEN want
      ELSE Inflate(z.damage, done, want)

\* What the loops of CopyFile and CopyStartupScript get to write.
Delivered(z, k) ==
  LET upto[done \in 0..Length(z.entries[k])] ==
        LET n == ReadCurrentFile(z, k, done)
        IN  IF n <= 0 THEN done
            ELSE IF n < MinOf(CopyBuffer, Length(z.entries[k]) - done) THEN done + n
            ELSE upto[done + n]
  IN  upto[0]

\* Every byte is delivered, and is the one that was packed.
AsPacked(z, k) ==
  /\ ~ Raw(z.entries[k])
  /\ Delivered(z, k) = z.entries[k].usize
  /\ ~ (Damaged(z, "data", k) /\ z.damage.at < z.entries[k].usize)

\* Mutant: the checksum is never compared.
CrcErrorNever(z, k, got) == FALSE

\* unzCloseCurrentFile: the checksum is compared only if every byte was read.
CrcError(z, k, got) ==
  /\ ~ Raw(z.entries[k])
  /\ got = z.entries[k].usize
  /\ ~ AsPacked(z, k)
=============================================================================
