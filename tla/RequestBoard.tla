----------------------------- MODULE RequestBoard ------------------------------
(***************************************************************************)
(* The public request board (src/modules/request-board): one row of             *)
(* system_settings that several people edit.  A client sends the time it saw on  *)
(* the board with what it saves; answers can be late or lost.                   *)
(***************************************************************************)
EXTENDS Integers

CONSTANTS
    Client,
    Content,    \* boards as clients send them
    Normal,     \* [Content -> Content]: normalizeBoard
    Empty,      \* the board without a row
    MaxSaves    \* bound: writes of the row

BoardAssumption ==
    /\ Normal \in [Content -> Content] /\ Empty \in Content
    /\ Normal[Empty] = Empty /\ \A c \in Content : Normal[Normal[c]] = Normal[c]
    /\ MaxSaves \in Nat

VARIABLES
    row,        \* [value, updatedAt]; updatedAt = 0: there is no row
    known,      \* [Client -> updatedAt of the last answer; 0: null]
    request     \* [Client -> what is on its way]

vars == <<row, known, request>>

Idle == [kind |-> "none", value |-> Empty, last |-> 0]

Init ==
    /\ row = [value |-> Empty, updatedAt |-> 0]
    /\ known = [c \in Client |-> 0]
    /\ request = [c \in Client |-> Idle]

\* A client sends a board with what it knows, or none when it knows of no row.
Send(c, v) ==
    /\ request[c].kind = "none"
    /\ request' = [request EXCEPT ![c] =
         [kind |-> "save", value |-> v, last |-> known[c]]]
    /\ UNCHANGED <<row, known>>

\* findCurrent, its answer on the way
FindCurrent(c) ==
    /\ request[c].kind = "none"
    /\ request' = [request EXCEPT ![c] =
         [kind |-> "answer", value |-> row.value, last |-> row.updatedAt]]
    /\ UNCHANGED <<row, known>>

\* The write of update(), and the answer to it: writes have different times.
Write(c) ==
    /\ row.updatedAt < MaxSaves
    /\ row' = [value |-> Normal[request[c].value], updatedAt |-> row.updatedAt + 1]
    /\ request' = [request EXCEPT ![c] =
         [kind |-> "answer", value |-> row'.value, last |-> row'.updatedAt]]
    /\ UNCHANGED known

\* Mutant: the time sent is not a condition of the write.
UpdateRegardless(c) ==
    /\ request[c].kind = "save" /\ request[c].last # 0
    /\ Write(c)

\* updateWithLastKnownUpdatedAt: updateMany where updatedAt is the one sent.
UpdateWithLastKnown(c) ==
    /\ request[c].kind = "save" /\ request[c].last # 0
    /\ request[c].last = row.updatedAt
    /\ Write(c)

\* update() without a time: upsert.
Upsert(c) ==
    /\ request[c].kind = "save" /\ request[c].last = 0
    /\ Write(c)

\* update() that finds another time: ConflictException.
Conflict(c) ==
    /\ request[c].kind = "save" /\ request[c].last \notin {0, row.updatedAt}
    /\ request' = [request EXCEPT ![c] = Idle]
    /\ UNCHANGED <<row, known>>

\* toResponse reaches the client, or is lost on its way.
Receive(c) ==
    /\ request[c].kind = "answer"
    /\ known' \in {known, [known EXCEPT ![c] = request[c].last]}
    /\ request' = [request EXCEPT ![c] = Idle]
    /\ UNCHANGED row

Next == \E c \in Client :
    \/ \E v \in Content : Send(c, v)
    \/ FindCurrent(c) \/ UpdateWithLastKnown(c) \/ Upsert(c)
    \/ Conflict(c) \/ Receive(c)

Spec == Init /\ [][Next]_vars

-----------------------------------------------------------------------------
\* A row's time is that of its last write, nobody knows a later one, and what a
\* client reads is what was stored: to normalize it again changes nothing.
TypeOK ==
    /\ row.value \in Content /\ row.updatedAt \in 0..MaxSaves
    /\ \A c \in Client :
         /\ known[c] \in 0..row.updatedAt /\ request[c].last \in 0..row.updatedAt
         /\ request[c].kind \in {"none", "save", "answer"}
    /\ Normal[row.value] = row.value

\* The board is the register: saves in flight, late and lost answers included, a
\* save replaces only the board its client saw (updateWithLastKnownUpdatedAt), or
\* is by one that saw none.
Register == INSTANCE BoardRegister
    WITH board <- row.value, version <- row.updatedAt, seen <- known
ImplementsRegister == Register!Spec

================================================================================
