----------------------------- MODULE BoardContent ------------------------------
(***************************************************************************)
(* The request board's content as normalizeBoard stores and serves it: the    *)
(* first items up to a limit, the newest date first, what has no date last.    *)
(***************************************************************************)
EXTENDS Integers, Sequences, SequencesExt

CONSTANTS
    NoDate,
    MaxItems    \* REQUEST_BOARD_MAX_REQUESTS, REQUEST_BOARD_MAX_DEV_ROWS

\* parseDateValue, on a text that has the digits of a date: two digits of a year
\* stand for this century, and the date must be one of the calendar.
DateOf(t) ==
    LET year == IF t.year < 100 THEN t.year + 2000 ELSE t.year
        leap == (year % 4 = 0 /\ year % 100 # 0) \/ year % 400 = 0
        days == IF t.month = 2 THEN IF leap THEN 29 ELSE 28
                ELSE IF t.month \in {4, 6, 9, 11} THEN 30 ELSE 31
    IN  IF t # NoDate /\ t.month \in 1..12 /\ t.day \in 1..days
        THEN (year * 12 + t.month) * 31 + t.day ELSE 0

\* compareDateDesc < 0
Newer(s, t) == DateOf(s) > DateOf(t)

\* sortBoard: a stable sort
SortBoard(board) ==
    LET before(i, j) ==
            Newer(board[i], board[j]) \/ (~Newer(board[j], board[i]) /\ i < j)
        order == SetToSortSeq(DOMAIN board, before)
    IN  [k \in DOMAIN board |-> board[order[k]]]

\* normalizeBoard
NormalizeBoard(board) ==
    SortBoard(SubSeq(board, 1, IF Len(board) > MaxItems THEN MaxItems ELSE Len(board)))

================================================================================
