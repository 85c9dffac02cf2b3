----------------------------- MODULE Pagination -----------------------------
(***************************************************************************)
(* Pages of query results (libs/common/src/utils and PageRequest): slices  *)
(* by offset, which ask for one row more than a page holds, and slices by  *)
(* cursor.                                                                 *)
(***************************************************************************)
EXTENDS Integers, Sequences, SequencesExt, FiniteSets, FiniteSetsExt

\* LIMIT limit OFFSET offset.
Window(rows, offset, limit) ==
  SubSeq(rows, offset + 1, Min({offset + limit, Len(rows)}))

\* Mutant: pages are counted from 0.
GetOffset_FromZero(pageNumber, pageSize) == pageNumber * pageSize

GetOffset(pageNumber, pageSize) == (pageNumber - 1) * pageSize

\* Slice.of: the repositories fetch limit + 1 rows and drop the last of them.
Slice(rows, limit) ==
  [contents |-> SubSeq(rows, 1, Min({limit, Len(rows)})),
   hasNext  |-> Len(rows) > limit]

SlicePage(rows, pageNumber, pageSize) ==
  Slice(Window(rows, GetOffset(pageNumber, pageSize), pageSize + 1), pageSize)

\* CursorSlice.fromData over rows that are named by their cursors; 0 stands for
\* no further cursor.
FromData(rows, limit) ==
  LET contents == SubSeq(rows, 1, Min({limit, Len(rows)}))
  IN IF Len(rows) <= limit
       THEN [contents |-> rows, hasNext |-> FALSE, nextCursor |-> 0]
       ELSE [contents |-> contents, hasNext |-> TRUE,
             nextCursor |-> contents[Len(contents)]]

\* ORDER BY id DESC: in row n stands the id that n ids reach.
Descending(ids) ==
  [n \in 1 .. Cardinality(ids) |->
     CHOOSE i \in ids : Cardinality({j \in ids : j >= i}) = n]

\* Mutant: the cursor names the next row already.
CursorPage_NextRow(ids, cursor, size) ==
  LET rows == Descending({i \in ids : cursor = 0 \/ i < cursor - 1})
  IN FromData(Window(rows, 0, size + 1), size)

\* The first page of those ids that lie below the cursor (0: no cursor).
CursorPage(ids, cursor, size) ==
  LET rows == Descending({i \in ids : cursor = 0 \/ i < cursor})
  IN FromData(Window(rows, 0, size + 1), size)

\* What a client has collected of a list, page by page.
NoRepeats(seen) == Len(seen) = Cardinality(ToSet(seen))
=============================================================================
