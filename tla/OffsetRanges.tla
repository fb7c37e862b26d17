---------------------------- MODULE OffsetRanges ----------------------------
(***************************************************************************)
(* DeliveryTracker._insert_offset: the delivered offsets of one partition  *)
(* kept as a sorted list of half-open ranges <<start, end>>, merged where  *)
(* they touch.  The benchmark subtracts the groups' committed offsets from *)
(* these ranges, so an offset lost or covered twice is a wrong result.     *)
(***************************************************************************)
EXTENDS Integers, Sequences, FiniteSets, SequencesExt, FiniteSetsExt

\* Tuple order, by which bisect_left searches the list.
Less(r, s) == r[1] < s[1] \/ (r[1] = s[1] /\ r[2] < s[2])

\* bisect_left: how many ranges of the sorted list come before the new one.
Bisect(ranges, offset) ==
  Cardinality({i \in DOMAIN ranges : Less(ranges[i], <<offset, offset + 1>>)})

TouchesLeft(ranges, offset) ==
  LET index == Bisect(ranges, offset)
  IN index > 0 /\ ranges[index][2] >= offset

\* The ends the merged range takes over, having joined the ranges first .. last.
Ends(ranges, offset, first, last) ==
  {offset + 1} \cup {ranges[i][2] : i \in first .. last}

\* The `while' loop from the range behind index: it joins one range after the
\* other, as long as the next one starts within the largest end so far.
LastReached(ranges, offset, first, index) ==
  index + Cardinality({k \in (index + 1) .. Len(ranges) :
                         \A j \in (index + 1) .. k :
                           \E e \in Ends(ranges, offset, first, j - 1) :
                             ranges[j][1] <= e})

\* Mutant: the start of a joined range is not taken over.
MergeKeepsStart(ranges, offset, first, index) ==
  LET last == LastReached(ranges, offset, first, index)
  IN SubSeq(ranges, 1, first - 1)
       \o << <<offset, Max(Ends(ranges, offset, first, last))>> >>
       \o SubSeq(ranges, last + 1, Len(ranges))

\* The new offset and the ranges from first on that it joins become one range.
Merge(ranges, offset, first, index) ==
  LET last == LastReached(ranges, offset, first, index)
      start == Min({offset} \cup {ranges[i][1] : i \in first .. last})
      end == Max(Ends(ranges, offset, first, last))
  IN SubSeq(ranges, 1, first - 1)
       \o << <<start, end>> >>
       \o SubSeq(ranges, last + 1, Len(ranges))

\* Mutant: a range that ends at the offset stays apart.
InsertOffsetNeverLeft(ranges, offset) ==
  LET index == Bisect(ranges, offset)
  IN Merge(ranges, offset, index + 1, index)

InsertOffset(ranges, offset) ==
  LET index == Bisect(ranges, offset)
  IN Merge(ranges, offset, IF TouchesLeft(ranges, offset) THEN index ELSE index + 1, index)

\* The offsets a list of ranges stands for, and their number by its lengths.
Covered(ranges) == UNION {ranges[i][1] .. (ranges[i][2] - 1) : i \in DOMAIN ranges}
LengthUpTo(ranges) ==
  LET sum[n \in 0 .. Len(ranges)] ==
        IF n = 0 THEN 0 ELSE sum[n - 1] + (ranges[n][2] - ranges[n][1])
  IN sum
TotalLength(ranges) == LengthUpTo(ranges)[Len(ranges)]

\* Non-empty, ascending, and never touching: the one list for that set.
Canonical(ranges) ==
  /\ \A i \in DOMAIN ranges : ranges[i][1] < ranges[i][2]
  /\ \A i \in 1 .. (Len(ranges) - 1) : ranges[i][2] < ranges[i + 1][1]
=============================================================================
