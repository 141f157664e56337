--------------------------- MODULE CompressedFile ---------------------------
(***************************************************************************)
(* The file wrapper of the Beam file systems, with LZMA added              *)
(* (beam/shims/beam-io-with-lzma-filesystem.py): it writes one packed      *)
(* stream, and reads a file of one or more of them through a buffer.  Of   *)
(* the compression libraries, which are external, a model is enough that   *)
(* packs each byte as one unit and ends a stream with another, End.        *)
(***************************************************************************)
EXTENDS Integers, SequencesExt

CONSTANTS Bytes,
          NewLine,
          End,        \* the unit a stream ends with
          ReadSize,   \* how many units are fetched at once
          Writes,
          Reads,
          Offsets,
          MaxStored   \* bound: the units of a file

ASSUME CompressedFileAssumption ==
    /\ NewLine \in Bytes /\ End \notin Bytes
    /\ ReadSize \in Nat \ {0, 1}   \* readline fetches half of it
    /\ Writes \subseteq Seq(Bytes)
    /\ Reads \subseteq Nat /\ Offsets \subseteq Int
    /\ MaxStored \in Nat

VARIABLES stored,   \* the units in the underlying file
          mode,     \* "w", "r", or "closed"
          strict,   \* whether the format raises after the end of a stream (bzip2, LZMA,
                    \* Zstandard) or keeps what comes then (gzip, deflate)
          packer,   \* of a writer: the bytes not yet in the file, and whether it was flushed
          reader,   \* of a reader: the decompressor, the buffer and the positions
          call,     \* the last call, with its arguments
          result,   \* what the last call that reads returned
          raised    \* whether a call raised

vars == <<stored, mode, strict, packer, reader, call, result, raised>>

Unpacked(units) ==
    LET bytes[i \in 0 .. Len(units)] ==
          IF i = 0 THEN << >>
          ELSE IF units[i] = End THEN bytes[i - 1]
          ELSE Append(bytes[i - 1], units[i])
    IN  bytes[Len(units)]

\* No size is remembered before the first seek from the end.
Unknown == 0

FreshPacker == [pending |-> << >>, flushed |-> FALSE]

\* `at` is the position in the underlying file, `read` that in the buffer, `position`
\* that in the unpacked bytes, and `size` their number.
FreshReader ==
    [at |-> 0, ended |-> FALSE, unused |-> << >>, buffer |-> << >>, read |-> 0,
     eof |-> FALSE, position |-> 0, size |-> Unknown, raised |-> FALSE]

Init ==
    /\ stored = << >> /\ mode = "w" /\ strict \in BOOLEAN
    /\ packer = FreshPacker /\ reader = FreshReader
    /\ call = <<"open">> /\ result = << >> /\ raised = FALSE

-----------------------------------------------------------------------------
(* Writing *)

\* The position moves before the compressor may refuse, which it does once flushed.
write(data) ==
    /\ mode = "w" /\ ~raised
    /\ Len(stored) + Len(packer.pending) + Len(data) < MaxStored
    /\ call' = <<"write", data>>
    /\ reader' = [reader EXCEPT !.position = @ + Len(data)]
    /\ IF packer.flushed THEN raised' = TRUE /\ UNCHANGED <<stored, packer>>
       ELSE \E k \in 0 .. Len(packer.pending) + Len(data) :
              LET all == packer.pending \o data IN
              /\ stored' = stored \o SubSeq(all, 1, k)
              /\ packer' = [packer EXCEPT !.pending = SubSeq(all, k + 1, Len(all))]
              /\ UNCHANGED raised
    /\ UNCHANGED <<mode, strict, result>>

\* A compressor is flushed once only.
Flushed ==
    IF packer.flushed THEN raised' = TRUE /\ UNCHANGED <<stored, packer>>
    ELSE /\ stored' = stored \o packer.pending \o <<End>>
         /\ packer' = [pending |-> << >>, flushed |-> TRUE]
         /\ UNCHANGED raised

flush ==
    /\ mode = "w" /\ ~raised
    /\ Flushed
    /\ UNCHANGED <<mode, strict, reader, call, result>>

close ==
    /\ mode # "closed" /\ ~raised
    /\ IF mode = "w" THEN Flushed ELSE UNCHANGED <<stored, packer, raised>>
    /\ mode' = IF raised' THEN mode ELSE "closed"
    /\ UNCHANGED <<strict, reader, call, result>>

\* External: another file is put behind a closed one, or its writer dies; then it is
\* opened for reading.
Open(more) ==
    /\ more = << >> \/ mode = "closed"
    /\ Len(stored) + Len(more) <= MaxStored
    /\ stored' = stored \o more
    /\ mode' = "r"
    /\ packer' = FreshPacker /\ reader' = FreshReader
    /\ call' = <<"open">> /\ result' = << >> /\ raised' = FALSE
    /\ UNCHANGED strict

-----------------------------------------------------------------------------
(* Reading, as functions of the state of a reader *)

Unread(r) == SubSeq(r.buffer, r.read + 1, Len(r.buffer))

_clear_read_buffer(r) == [r EXCEPT !.buffer = << >>, !.read = 0]

\* A fault: what was not read yet is dropped with the rest of the buffer.
CompactedToNothing(r, n) ==
    IF ~r.eof /\ r.read > 0 /\ Len(Unread(r)) < n THEN _clear_read_buffer(r) ELSE r

\* Before a large read the buffer drops what was read.
Compacted(r, n) ==
    IF ~r.eof /\ r.read > 0 /\ Len(Unread(r)) < n
    THEN [_clear_read_buffer(r) EXCEPT !.buffer = Unread(r)]
    ELSE r

_initialize_decompressor(r) == [r EXCEPT !.ended = FALSE, !.unused = << >>]

\* The decompressor unpacks up to the end of its stream and keeps what follows; when
\* it has ended, it keeps all of it or raises.
Decompressed(r, units) ==
    LET ends == {i \in DOMAIN units : units[i] = End}
        stop == IF ends = {} THEN Len(units) + 1 ELSE Min(ends)
    IN  IF r.ended /\ strict THEN [r EXCEPT !.raised = TRUE]
        ELSE IF r.ended THEN [r EXCEPT !.unused = @ \o units]
        ELSE [r EXCEPT !.buffer = @ \o SubSeq(units, 1, stop - 1),
                       !.ended = ends # {},
                       !.unused = SubSeq(units, stop + 1, Len(units))]

\* What follows the end of a stream is another stream; else more units are fetched.
Fetched(r) ==
    LET units == SubSeq(stored, r.at + 1, Min({r.at + ReadSize, Len(stored)}))
    IN  IF r.unused # << >> THEN Decompressed(_initialize_decompressor(r), r.unused)
        ELSE IF units = << >> THEN [r EXCEPT !.eof = TRUE]
        ELSE Decompressed([r EXCEPT !.at = @ + Len(units)], units)

\* A loop ends where a turn changes nothing: all do within this number of turns.
MostTurns == 2 * Len(stored) + 2

Looped(Turn(_), start) ==
    LET after[i \in 0 .. MostTurns] == IF i = 0 THEN start ELSE Turn(after[i - 1])
    IN  after[MostTurns]

Filled(r, n) ==
    LET Turn(s) == IF s.raised \/ s.eof \/ Len(Unread(s)) >= n THEN s ELSE Fetched(s)
    IN  Looped(Turn, r)

_fetch_to_internal_buffer(r, n) == Filled(Compacted(r, n), n)

_read_from_internal_buffer(r, data) ==
    IF r.raised THEN r
    ELSE [r EXCEPT !.read = @ + Len(data), !.position = @ + Len(data)]

\* A call of read: the reader after it, and what it returns.  With a negative number
\* nothing is fetched, and all of the buffer is returned.
read(r, n) ==
    LET f == _fetch_to_internal_buffer(r, n)
        data == IF n < 0 THEN Unread(f) ELSE SubSeq(Unread(f), 1, Min({n, Len(Unread(f))}))
    IN  [reader |-> _read_from_internal_buffer(f, data), data |-> data]

BufferedLine(r) ==
    LET ends == {i \in DOMAIN Unread(r) : Unread(r)[i] = NewLine}
    IN  IF ends = {} THEN Unread(r) ELSE SubSeq(Unread(r), 1, Min(ends))

readline(r) ==
    LET Turn(c) ==
          LET f == _fetch_to_internal_buffer(c.reader, ReadSize \div 2)
              line == BufferedLine(f)
          IN  IF c.ends THEN c
              ELSE [reader |-> _read_from_internal_buffer(f, line),
                    data |-> c.data \o line,
                    ends |-> f.raised \/ line = << >> \/ Last(line) = NewLine]
    IN  Looped(Turn, [reader |-> r, data |-> << >>, ends |-> FALSE])

\* A fault: the decompressor goes on with what it had.
_rewind_keeping(r) ==
    [_clear_read_buffer(r) EXCEPT !.at = 0, !.eof = FALSE, !.position = 0]

_rewind(r) ==
    _initialize_decompressor(
      [_clear_read_buffer(r) EXCEPT !.at = 0, !.eof = FALSE, !.position = 0])

ReadToEnd(r) ==
    LET Turn(c) == IF c.reader.raised \/ c.data = << >> THEN c ELSE read(c.reader, ReadSize)
    IN  Looped(Turn, read(r, ReadSize)).reader

Skip(r, n) ==
    LET Turn(c) ==
          LET call_ == read(c.reader, Min({ReadSize, c.left}))
          IN  IF c.reader.raised \/ c.left = 0 THEN c
              ELSE [reader |-> call_.reader,
                    left |-> IF call_.data = << >> THEN 0 ELSE c.left - Len(call_.data)]
    IN  Looped(Turn, [reader |-> r, left |-> n]).reader

\* A fault: the size is that of what one read gives.
SizedAtOnce(r) ==
    LET once == read(r, ReadSize).reader
    IN  IF r.size # Unknown THEN r
        ELSE IF once.raised THEN once
        ELSE [once EXCEPT !.size = once.position]

\* Only a size other than 0 is remembered.
Sized(r) ==
    LET end == ReadToEnd(r)
    IN  IF r.size # Unknown THEN r
        ELSE IF end.raised THEN end
        ELSE [end EXCEPT !.size = end.position]

\* A seek by a reader that knows the size if it needs it.
SeekFrom(s, offset, whence) ==
    LET target == offset + (CASE whence = "set" -> 0 [] whence = "cur" -> s.position
                              [] whence = "end" -> s.size)
        from == IF target < s.position THEN _rewind(s) ELSE s
    IN  IF s.raised THEN s ELSE Skip(from, target - from.position)

seek(r, offset, whence) ==
    SeekFrom(IF whence = "end" THEN Sized(r) ELSE r, offset, whence)

-----------------------------------------------------------------------------
(* Specification *)

\* A call on an open reader that did not raise.
Calls(name) ==
    /\ mode = "r" /\ ~raised
    /\ call' = name
    /\ UNCHANGED <<stored, mode, strict, packer>>

Returns(outcome) ==
    /\ reader' = outcome.reader
    /\ raised' = outcome.reader.raised
    /\ result' = IF raised' THEN result ELSE outcome.data

Read(n) == Calls(<<"read", n>>) /\ Returns(read(reader, n))
Readline == Calls(<<"readline">>) /\ Returns(readline(reader))
Seek(offset, whence) ==
    /\ Calls(<<"seek", offset, whence>>)
    /\ reader' = seek(reader, offset, whence)
    /\ raised' = reader'.raised
    /\ UNCHANGED result

Next ==
    \/ \E data \in Writes : write(data)
    \/ flush
    \/ close
    \/ \E data \in {<<>>} \cup {d \o <<End>> : d \in Writes} : Open(data)
    \/ \E n \in Reads : Read(n)
    \/ Readline
    \/ \E offset \in Offsets, whence \in {"set", "cur", "end"} : Seek(offset, whence)

Spec == Init /\ [][Next]_vars

-----------------------------------------------------------------------------
(* Properties *)

Content == Unpacked(stored) \o packer.pending

\* A strict format, a stream that ends where a fetch ends, and another one behind it.
Brittle ==
    strict /\ \E i \in 1 .. Len(stored) - 1 : stored[i] = End /\ i % ReadSize = 0

TypeOK ==
    /\ stored \in Seq(Bytes \cup {End}) /\ mode \in {"w", "r", "closed"}
    /\ packer.pending \in Seq(Bytes)
    /\ reader.at \in 0 .. Len(stored) /\ reader.read \in 0 .. Len(reader.buffer)
    /\ reader.unused # << >> => reader.ended
    /\ reader.size \in {Unknown, Len(Content)}
    /\ result \in Seq(Bytes)

(***************************************************************************)
(* Behind the position lies what the buffer still holds, then what the     *)
(* decompressor has not unpacked, then the rest of the file: through any   *)
(* reads, rewinds and ends of streams nothing is lost or kept twice.  Only *)
(* a strict format raises, and only when a stream ends where a fetch ended *)
(* and another one follows.                                                *)
(***************************************************************************)
NothingLost ==
    /\ mode = "r" /\ ~raised =>
         LET rest == SubSeq(stored, reader.at + 1, Len(stored))
         IN  Content = SubSeq(Content, 1, reader.position)
                         \o Unread(reader) \o Unpacked(reader.unused \o rest)
    /\ mode = "r" /\ raised => Brittle

PF == INSTANCE PlainFile WITH
        content <- Content, position <- reader.position, broken <- raised,
        sealed <- packer.flushed, brittle <- mode = "r" /\ Brittle

(***************************************************************************)
(* Every call returns and leaves what it would with a plain file of the    *)
(* unpacked bytes: across streams, after a writer that died, and when a    *)
(* seek leaves the file.  Two kinds of call raise instead, and no other: a *)
(* writer's after a flush, and a reader's of a brittle file, although the  *)
(* comment in the fetching loop has concatenated files be read.            *)
(***************************************************************************)
ImplementsPlainFile == PF!Spec
=============================================================================
