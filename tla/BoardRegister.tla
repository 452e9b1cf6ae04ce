----------------------------- MODULE BoardRegister -----------------------------
(***************************************************************************)
(* What the request board promises the people who edit it together: a save     *)
(* replaces the board its writer has seen and no other, unless the writer has   *)
(* seen none.                                                                 *)
(***************************************************************************)
EXTENDS Integers

CONSTANTS Client, Content, Empty

VARIABLES
    board,      \* the content
    version,    \* how many saves made it
    seen        \* [Client -> the version each one goes by, 0: none]

registerVars == <<board, version, seen>>

Init == board = Empty /\ version = 0 /\ seen = [c \in Client |-> 0]

\* A client learns of the board: of an earlier one, when the answer was late.
Learn(c) ==
    /\ \E n \in 0..version : seen' = [seen EXCEPT ![c] = n]
    /\ UNCHANGED <<board, version>>

Save(c) ==
    /\ seen[c] \in {0, version}
    /\ board' \in Content
    /\ version' = version + 1
    /\ UNCHANGED seen

Next == \E c \in Client : Learn(c) \/ Save(c)

Spec == Init /\ [][Next]_registerVars

================================================================================
