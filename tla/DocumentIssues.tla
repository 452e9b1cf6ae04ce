---------------------------- MODULE DocumentIssues ----------------------------
(***************************************************************************)
(* The numbers of issued documents: modules/document-issues/.  A number is a  *)
(* prefix, a KST date and a sequence, and the only type of document is the    *)
(* TBM report.  The date is taken when a request arrives, its transaction     *)
(* increments the sequence of that date and stores the issue under it.        *)
(***************************************************************************)
EXTENDS Integers, FiniteSets

CONSTANTS
    Source,      \* TBM records
    Issuer,      \* requests in flight at the same time
    MaxDate,     \* bound: the days that pass
    MaxIssues    \* bound: the numbers of a day

\* What is assumed of the constants.
IssueAssumption == MaxDate \in Nat \ {0} /\ MaxIssues \in Nat \ {0}

Date == 1..MaxDate

VARIABLES
    today,
    removed,     \* the sources with a deletedAt
    sequence,    \* Date -> lastSequence, 0 when there is no row
    issues,      \* the rows of document_issues
    issuer       \* Issuer -> what its request has read

issueVars == <<today, removed, sequence, issues, issuer>>

Waiting == [at |-> "waiting"]

Init ==
    /\ today = 1
    /\ removed = {}
    /\ sequence = [d \in Date |-> 0]
    /\ issues = {}
    /\ issuer = [i \in Issuer |-> Waiting]

-----------------------------------------------------------------------------
\* resolveSource and the date of the request.
Ask(i, s) ==
    /\ issuer[i] = Waiting
    /\ s \notin removed
    /\ issuer' = [issuer EXCEPT ![i] = [at |-> "asked", date |-> today, source |-> s]]
    /\ UNCHANGED <<today, removed, sequence, issues>>

\* The row of the sequence is locked from the upsert to the end of a transaction.
LockedFor(d) == {i \in Issuer : issuer[i].at = "numbered" /\ issuer[i].date = d}

\* Mutant: the upsert and the insert are not one transaction.
NextNumberCommitted(i) ==
    /\ issuer[i].at = "asked"
    /\ LET d == issuer[i].date
       IN  /\ sequence[d] < MaxIssues
           /\ sequence' = [sequence EXCEPT ![d] = @ + 1]
           /\ issuer' = [issuer EXCEPT ![i].at = "numbered"]
    /\ UNCHANGED <<today, removed, issues>>

\* The upsert: others wait for the transaction.
NextNumber(i) ==
    /\ issuer[i].at = "asked"
    /\ LockedFor(issuer[i].date) = {}
    /\ sequence[issuer[i].date] < MaxIssues
    /\ issuer' = [issuer EXCEPT ![i].at = "numbered"]
    /\ UNCHANGED <<today, removed, sequence, issues>>

\* The number that buildDocumentNumber makes of the row.
Number(i) == [date |-> issuer[i].date, n |-> sequence[issuer[i].date] + 1]

\* The issue is stored and the transaction commits.
Issue(i) ==
    /\ issuer[i].at = "numbered"
    /\ issues' = issues \cup {[number |-> Number(i), source |-> issuer[i].source,
                              by |-> i]}
    /\ sequence' = [sequence EXCEPT ![issuer[i].date] = @ + 1]
    /\ issuer' = [issuer EXCEPT ![i] = Waiting]
    /\ UNCHANGED <<today, removed>>

\* A source out of scope, a failing statement, a lost connection: rolled back.
IssueFails(i) ==
    /\ issuer[i] # Waiting
    /\ issuer' = [issuer EXCEPT ![i] = Waiting]
    /\ UNCHANGED <<today, removed, sequence, issues>>

-----------------------------------------------------------------------------
(* The TBM service and the clock. *)

RemoveSource(s) ==
    /\ s \notin removed
    /\ removed' = removed \cup {s}
    /\ UNCHANGED <<today, sequence, issues, issuer>>

NextDate ==
    /\ today < MaxDate
    /\ today' = today + 1
    /\ UNCHANGED <<removed, sequence, issues, issuer>>

Next ==
    \/ \E i \in Issuer :
          NextNumber(i) \/ Issue(i) \/ IssueFails(i) \/ \E s \in Source : Ask(i, s)
    \/ \E s \in Source : RemoveSource(s)
    \/ NextDate

Spec == Init /\ [][Next]_issueVars

-----------------------------------------------------------------------------
(* Properties. *)

TypeOK ==
    /\ today \in Date
    /\ removed \subseteq Source
    /\ sequence \in [Date -> 0..MaxIssues]
    /\ \A k \in issues : k.number.date \in 1..today /\ k.number.n \in 1..MaxIssues

\* However requests overlap, fail and cross midnight, the numbers of each day are
\* 1, 2, ... without a gap, and no two issues have the same one.
NumbersUnbroken ==
    \A d \in Date :
        LET day == {k \in issues : k.number.date = d}
        IN  /\ {k.number.n : k \in day} = 1..Cardinality(day)
            /\ sequence[d] = Cardinality(day)
===============================================================================
