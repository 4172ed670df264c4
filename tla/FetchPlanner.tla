---------------------------- MODULE FetchPlanner ----------------------------
(***************************************************************************)
(* The pure planning helpers of the incremental IMAP fetch                 *)
(* (connectors/imap/sync/fetch_planner.py and ImapIncrementalFetcher       *)
(* ._min_uid): where a folder's fetch starts, how its UIDs are packed into *)
(* byte-bounded batches, and how far the folder's cursor may advance.      *)
(* Loops are recursive functions over the position in the list.            *)
(***************************************************************************)
EXTENDS Integers, Sequences, FiniteSets

\* Mutant of MinUid: the UIDVALIDITY is not compared.
MinUidIgnoringReset(cur, uidvalidity) == cur.last + 1

(***************************************************************************)
(* First UID to fetch: one past the cursor while the folder's UIDVALIDITY  *)
(* is the cursor's, UID 1 after a reset.  gen 0 stands for "no cursor row" *)
(* (a server's UIDVALIDITY is positive: _blocking_select drops the rest).  *)
(***************************************************************************)
MinUid(cur, uidvalidity) ==
  IF cur.gen # uidvalidity THEN 1 ELSE cur.last + 1

(***************************************************************************)
(* batch_by_bytes.  sizes is a partial function: a UID outside its domain  *)
(* is charged a whole batch.  The loop's state is [done, current, running].*)
(***************************************************************************)
SizeOf(uid, sizes, batch_bytes) ==
  IF uid \in DOMAIN sizes THEN sizes[uid] ELSE batch_bytes

\* Mutant of PackOne: a batch that would be exactly full is closed early.
PackOneEarly(acc, uid, size, batch_bytes) ==
  IF acc.current # <<>> /\ acc.running + size >= batch_bytes
    THEN [done    |-> Append(acc.done, acc.current),
          current |-> <<uid>>,
          running |-> size]
    ELSE [acc EXCEPT !.current = Append(@, uid), !.running = @ + size]

PackOne(acc, uid, size, batch_bytes) ==
  IF acc.current # <<>> /\ acc.running + size > batch_bytes
    THEN [done    |-> Append(acc.done, acc.current),
          current |-> <<uid>>,
          running |-> size]
    ELSE [acc EXCEPT !.current = Append(@, uid), !.running = @ + size]

batch_by_bytes(uids, sizes, batch_bytes) ==
  LET pack[i \in 0..Len(uids)] ==
        IF i = 0 THEN [done |-> <<>>, current |-> <<>>, running |-> 0]
        ELSE PackOne(pack[i - 1], uids[i],
                     SizeOf(uids[i], sizes, batch_bytes), batch_bytes)
      end == pack[Len(uids)]
  IN IF end.current = <<>> THEN end.done ELSE Append(end.done, end.current)

\* Mutant of highest_contiguous_uid: a candidate that is not accounted is
\* passed over instead of ending the walk.
HighestAccountedUid(candidates, accounted, floor) ==
  LET walk[i \in 0..Len(candidates)] ==
        IF i = 0 THEN floor
        ELSE IF candidates[i] > floor /\ candidates[i] \in accounted
               THEN candidates[i] ELSE walk[i - 1]
  IN walk[Len(candidates)]

(***************************************************************************)
(* highest_contiguous_uid: walk the candidates in order, skip the ones at  *)
(* or below the floor, stop at the first one that is not accounted.        *)
(***************************************************************************)
WalkOne(before, uid, accounted, floor) ==
  IF before.stopped \/ uid <= floor THEN before
  ELSE IF uid \notin accounted THEN [before EXCEPT !.stopped = TRUE]
  ELSE [before EXCEPT !.advanced = uid]

highest_contiguous_uid(candidates, accounted, floor) ==
  LET walk[i \in 0..Len(candidates)] ==
        IF i = 0 THEN [advanced |-> floor, stopped |-> FALSE]
        ELSE WalkOne(walk[i - 1], candidates[i], accounted, floor)
  IN walk[Len(candidates)].advanced

(***************************************************************************)
(* The reference for the advance, on the SET of candidates: adv is the     *)
(* floor or a candidate above it; every candidate in (floor, adv] is       *)
(* accounted; and the next candidate above adv, if any, is not.            *)
(***************************************************************************)
IsHighestContiguous(cand, accounted, floor, adv) ==
  /\ adv = floor \/ (adv \in cand /\ adv > floor)
  /\ \A u \in cand : floor < u /\ u <= adv => u \in accounted
  /\ \A u \in cand :
       u > adv => \E v \in cand : adv < v /\ v <= u /\ v \notin accounted

(***************************************************************************)
(* _compress_uid_ranges: the runs of consecutive UIDs of a sorted list     *)
(* without duplicates, as atoms <<start, end>> (`7` is <<7, 7>>).          *)
(***************************************************************************)
ExtendRuns(runs, uid) ==
  LET n == Len(runs)
  IN IF n > 0 /\ uid = runs[n][2] + 1
       THEN [runs EXCEPT ![n] = <<runs[n][1], uid>>]
       ELSE Append(runs, <<uid, uid>>)

CompressUidRanges(uids) ==
  LET runs[i \in 0..Len(uids)] ==
        IF i = 0 THEN <<>> ELSE ExtendRuns(runs[i - 1], uids[i])
  IN runs[Len(uids)]

\* len(str(n)) of a 32-bit UID, and the length of an atom as it is sent.
Powers == {10 ^ k : k \in 1..9}
Digits(n) == 1 + Cardinality({p \in Powers : p <= n})

AtomLength(atom) ==
  IF atom[1] = atom[2] THEN Digits(atom[1])
                       ELSE Digits(atom[1]) + 1 + Digits(atom[2])

\* Mutant of ChunkOne: the commas are not counted.
ChunkOneNoCommas(acc, atom, max_chars) ==
  IF acc.current # <<>> /\ acc.len + AtomLength(atom) > max_chars
    THEN [done    |-> Append(acc.done, acc.current),
          current |-> <<atom>>,
          len     |-> AtomLength(atom)]
    ELSE [acc EXCEPT !.current = Append(@, atom),
                     !.len = @ + AtomLength(atom)]

(***************************************************************************)
(* _chunk_uid_set: atoms packed into FETCH sequence sets of at most        *)
(* max_chars characters, one charged for the comma after every atom.       *)
(***************************************************************************)
ChunkOne(acc, atom, max_chars) ==
  IF acc.current # <<>> /\ acc.len + AtomLength(atom) + 1 > max_chars
    THEN [done    |-> Append(acc.done, acc.current),
          current |-> <<atom>>,
          len     |-> AtomLength(atom) + 1]
    ELSE [acc EXCEPT !.current = Append(@, atom),
                     !.len = @ + AtomLength(atom) + 1]

ChunkUidSet(uids, max_chars) ==
  IF uids = <<>> THEN <<>>
  ELSE LET atoms == CompressUidRanges(uids)
           pack[i \in 0..Len(atoms)] ==
             IF i = 0 THEN [done |-> <<>>, current |-> <<>>, len |-> 0]
             ELSE ChunkOne(pack[i - 1], atoms[i], max_chars)
           end == pack[Len(atoms)]
       IN Append(end.done, end.current)
=============================================================================
