------------------------------- MODULE LocSnap -------------------------------
(***************************************************************************)
(* The file snap-node-locations appends to every three hours and           *)
(* print-node-locations reads (nodes/loc_snap.go).  A file is a sequence   *)
(* of 4-byte words (uint64s are two: low, high); a location is one word,   *)
(* longitude and latitude as 16 bits each.                                 *)
(***************************************************************************)
EXTENDS Integers, Sequences, SequencesExt

CONSTANT LocRange     \* 0x10000

ASSUME LocAssumption == LocRange \in Nat \ {0}

Ones == LocRange * LocRange - 1

\* Degrees (integers here) to 16 bits, and a rational back: numerator over
\* LocRange of degrees.  180 and 90 degrees wrap to 0.
Coded(degrees, half) == (((degrees + half) * LocRange) \div (2 * half)) % LocRange
Decoded(code, half) == code * 2 * half - half * LocRange

LocWord(loc) == Coded(loc.lon, 180) + LocRange * Coded(loc.lat, 90)
LocOf(word) == [lon |-> Decoded(word % LocRange, 180), lat |-> Decoded(word \div LocRange, 90)]

\* A snapshot: prefix, stamp and count, then the locations.
\* Mutant: the count is of bytes.
SnapshotWords_Bytes(stamp, locs) ==
  <<Ones, Ones, stamp, 0, 4 * Len(locs), 0>> \o [i \in DOMAIN locs |-> LocWord(locs[i])]
SnapshotWords(stamp, locs) ==
  <<Ones, Ones, stamp, 0, Len(locs), 0>> \o [i \in DOMAIN locs |-> LocWord(locs[i])]

\* The reader at word pos (from 0) of the file: what it prints from there on,
\* and how it ends: "eof", "short" when less than a header is left, "panic"
\* when the file ends before the locations do.
\* Without a prefix it goes on two words later.
PrintLocsSnapshot(file) ==
  LET Word(pos, i) == file[pos + i + 1]
      Marked(pos) == Word(pos, 0) = Ones /\ Word(pos, 1) = Ones
      Count(pos) == Word(pos, 4) + LocRange * LocRange * Word(pos, 5)
      Snapshot(pos) == [stamp |-> Word(pos, 2),
                        locs |-> [i \in 1..Count(pos) |-> LocOf(Word(pos, 5 + i))]]
      from[pos \in 0..Len(file)] ==
        LET rest == Len(file) - pos
        IN  CASE rest = 0 -> [read |-> <<>>, end |-> "eof"]
              [] rest \in 1..5 -> [read |-> <<>>, end |-> "short"]
              [] rest >= 6 /\ ~Marked(pos) -> from[pos + 2]
              [] rest >= 6 /\ Marked(pos) /\ rest < 6 + Count(pos) ->
                   [read |-> <<>>, end |-> "panic"]
              [] OTHER ->
                   LET later == from[pos + 6 + Count(pos)]
                   IN  [later EXCEPT !.read = <<Snapshot(pos)>> \o @]
  IN  from[0]

\* Snapshots saved one after the other, the append of number torn (if any) having
\* written no more than its first words words.
SavedFile(snapshots, torn, words) ==
  FlattenSeq([k \in DOMAIN snapshots |->
    LET w == SnapshotWords(snapshots[k].stamp, snapshots[k].locs)
    IN  IF k = torn THEN SubSeq(w, 1, words) ELSE w])

----------------------------------------------------------------------------
\* What was saved before an append was torn by a crash or a full disk is read
\* back, in order, each location at most one step of the 16 bits further south
\* and west; without such an append it is all, and the reading ends well
\* (loc_snap.go 34-62, 104-139).
SnapshotsRead(snapshots, torn, words) ==
  LET result == PrintLocsSnapshot(SavedFile(snapshots, torn, words))
      kept == IF torn = 0 THEN Len(snapshots) ELSE torn - 1
      Close(degrees, decoded, half) == degrees * LocRange - decoded \in 0..(2 * half - 1)
  IN  /\ Len(result.read) >= kept
      /\ \A k \in 1..kept :
           LET saved == snapshots[k] read == result.read[k]
           IN  /\ read.stamp = saved.stamp /\ Len(read.locs) = Len(saved.locs)
               /\ \A i \in DOMAIN saved.locs :
                    /\ Close(saved.locs[i].lon, read.locs[i].lon, 180)
                    /\ Close(saved.locs[i].lat, read.locs[i].lat, 90)
      /\ torn = 0 => Len(result.read) = kept /\ result.end = "eof"
=============================================================================
