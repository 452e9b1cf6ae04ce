------------------------- MODULE SafetyDocumentsProofs -------------------------
(***************************************************************************)
(* What the services of the safety documents keep, for any number of          *)
(* requests, rows, files and days: for each service an inductive invariant,    *)
(* a lemma for each of its actions and the properties that follow; at the end  *)
(* the properties of SafetyDocuments, that are those of its services.         *)
(***************************************************************************)
EXTENDS SafetyDocuments, FiniteSetTheorems, TLAPS

-----------------------------------------------------------------------------
(* Document issue numbers. *)

\* What a request in flight has read.
IssuerOK(i) ==
    \/ issuer[i] = Issues!Waiting
    \/ /\ issuer[i].at \in {"asked", "numbered"}
       /\ issuer[i].date \in 1..today

\* One transaction at a time holds the row of a day, and below the last number.
Locked ==
    /\ \A i, j \in Request :
          /\ issuer[i].at = "numbered" /\ issuer[j].at = "numbered"
          /\ issuer[i].date = issuer[j].date
          => i = j
    /\ \A i \in Request : issuer[i].at = "numbered" => sequence[issuer[i].date] < MaxIssues

\* The requests keep what they know, on their own.
Issuers ==
    /\ DOMAIN issuer = Request
    /\ issuer = [i \in Request |-> issuer[i]]
    /\ \A i \in Request : IssuerOK(i)

Day(d) == {k \in issues : k.number.date = d}

\* The numbers of a day, and nothing else, are below its sequence.
Numbers ==
    \A d \in Issues!Date :
        /\ IsFiniteSet(Day(d))
        /\ {k.number.n : k \in Day(d)} = 1..Cardinality(Day(d))
        /\ sequence[d] = Cardinality(Day(d))

Issued == Issues!TypeOK /\ Issuers /\ Locked /\ Numbers

LEMMA StartIssued == ASSUME Issues!Init PROVE Issued
<1>1. Issues!TypeOK
  BY DocumentsAssumption DEF Issues!Init, Issues!TypeOK, Issues!Date, Issues!IssueAssumption
<1>2. Issuers /\ Locked
  BY DEF Issues!Init, Issuers, Locked, IssuerOK, Issues!Waiting
<1>3. Numbers
  <2> SUFFICES ASSUME NEW d \in Issues!Date
               PROVE  /\ IsFiniteSet(Day(d))
                      /\ {k.number.n : k \in Day(d)} = 1..Cardinality(Day(d))
                      /\ sequence[d] = Cardinality(Day(d))
    BY DEF Numbers
  <2>1. Day(d) = {} /\ sequence[d] = 0
    BY DEF Issues!Init, Day
  <2> QED
    BY <2>1, FS_EmptySet
<1> QED
  BY <1>1, <1>2, <1>3 DEF Issued

\* A step that changes the requests only.
LEMMA RequestsOnly ==
    ASSUME Issued, UNCHANGED <<today, sequence, issues>>, removed' \subseteq Tbm,
           Issuers', Locked'
    PROVE  Issued'
BY DEF Issued, Issues!TypeOK, Numbers, Day

LEMMA AskIssued ==
    ASSUME Issued, NEW i \in Request, NEW s \in Tbm, Issues!Ask(i, s)
    PROVE  Issued'
<1> DEFINE asked == [at |-> "asked", date |-> today, source |-> s]
<1>1. /\ issuer' = [issuer EXCEPT ![i] = asked]
      /\ UNCHANGED <<today, removed, sequence, issues>>
  BY DEF Issues!Ask
<1>2. /\ issuer'[i] = asked /\ \A j \in Request \ {i} : issuer'[j] = issuer[j]
      /\ DOMAIN issuer' = Request /\ issuer' = [j \in Request |-> issuer'[j]]
  BY <1>1 DEF Issued, Issuers
<1>3. asked.at = "asked" /\ asked.date = today /\ today \in 1..today
  BY DocumentsAssumption DEF Issued, Issues!TypeOK, Issues!Date, Issues!IssueAssumption
<1> HIDE DEF asked
<1>4. Issuers'
  <2> SUFFICES ASSUME NEW j \in Request PROVE IssuerOK(j)'
    BY <1>2 DEF Issuers
  <2> QED
    BY <1>1, <1>2, <1>3 DEF IssuerOK, Issued, Issuers
<1>5. Locked'
  BY <1>1, <1>2, <1>3 DEF Locked, Issued
<1> QED
  BY <1>1, <1>4, <1>5, RequestsOnly DEF Issued, Issues!TypeOK

\* The upsert waits for the transaction that holds the row.
LEMMA NextNumberIssued ==
    ASSUME Issued, NEW i \in Request, Issues!NextNumber(i) PROVE Issued'
<1> DEFINE numbered == [issuer[i] EXCEPT !.at = "numbered"]
<1>1. /\ issuer' = [issuer EXCEPT ![i] = numbered]
      /\ UNCHANGED <<today, removed, sequence, issues>>
      /\ issuer[i].at = "asked" /\ Issues!LockedFor(issuer[i].date) = {}
      /\ sequence[issuer[i].date] < MaxIssues
  BY DEF Issues!NextNumber, Issued, Issuers
<1>2. issuer[i].date \in 1..today
  BY <1>1 DEF Issued, Issuers, IssuerOK, Issues!Waiting
<1>3. numbered.at = "numbered" /\ numbered.date = issuer[i].date
  OBVIOUS
<1> HIDE DEF numbered
<1>4. /\ issuer'[i] = numbered /\ \A j \in Request \ {i} : issuer'[j] = issuer[j]
      /\ DOMAIN issuer' = Request /\ issuer' = [j \in Request |-> issuer'[j]]
  BY <1>1 DEF Issued, Issuers
<1>5. Issuers'
  <2> SUFFICES ASSUME NEW j \in Request PROVE IssuerOK(j)'
    BY <1>4 DEF Issuers
  <2> QED
    BY <1>1, <1>2, <1>3, <1>4 DEF IssuerOK, Issued, Issuers
<1>6. \A j \in Request \ {i} : issuer[j].at = "numbered" => issuer[j].date # issuer[i].date
  BY <1>1 DEF Issues!LockedFor
<1>7. Locked'
  BY <1>1, <1>3, <1>4, <1>6 DEF Locked, Issued
<1> QED
  BY <1>1, <1>5, <1>7, RequestsOnly DEF Issued, Issues!TypeOK

\* The next number is the one after those that were given on that day.
LEMMA IssueIssued ==
    ASSUME Issued, NEW i \in Request, Issues!Issue(i) PROVE Issued'
<1> DEFINE d == issuer[i].date
           new == [number |-> [date |-> d, n |-> sequence[d] + 1],
                   source |-> issuer[i].source, by |-> i]
<1>1. /\ issues' = issues \cup {new}
      /\ sequence' = [sequence EXCEPT ![d] = @ + 1]
      /\ issuer' = [issuer EXCEPT ![i] = Issues!Waiting]
      /\ UNCHANGED <<today, removed>> /\ issuer[i].at = "numbered"
  BY DEF Issues!Issue, Issues!Number
<1>2. /\ d \in 1..today /\ d \in Issues!Date /\ sequence[d] \in 0..MaxIssues
      /\ sequence[d] < MaxIssues /\ sequence \in [Issues!Date -> 0..MaxIssues]
  BY DocumentsAssumption, <1>1 DEF Issued, Issuers, IssuerOK, Issues!Waiting, Locked, Issues!TypeOK, Issues!Date, Issues!IssueAssumption
<1>3. new.number.date = d /\ new.number.n = sequence[d] + 1
  OBVIOUS
<1>4. PICK e \in Issues!Date : e = d
  BY <1>2
<1>5. PICK k : k = new
  OBVIOUS
<1> HIDE DEF new, d
<1>6. /\ sequence'[e] = sequence[e] + 1
      /\ \A x \in Issues!Date \ {e} : sequence'[x] = sequence[x]
      /\ sequence' \in [Issues!Date -> 0..MaxIssues]
  BY DocumentsAssumption, <1>1, <1>2, <1>4 DEF Issues!IssueAssumption
<1>7. Issues!TypeOK'
  <2>1. k.number.date \in 1..today /\ k.number.n \in 1..MaxIssues
    BY DocumentsAssumption, <1>2, <1>3, <1>4, <1>5 DEF Issues!IssueAssumption
  <2> QED
    BY <1>1, <1>5, <1>6, <2>1 DEF Issued, Issues!TypeOK
<1>8. /\ issuer'[i] = Issues!Waiting /\ \A j \in Request \ {i} : issuer'[j] = issuer[j]
      /\ DOMAIN issuer' = Request /\ issuer' = [j \in Request |-> issuer'[j]]
  BY <1>1 DEF Issued, Issuers
<1>9. Issuers'
  BY <1>1, <1>8 DEF Issuers, IssuerOK, Issued
<1>10. Locked'
  <2>1. Issues!Waiting.at # "numbered"
    BY DEF Issues!Waiting
  <2>2. ASSUME NEW j \in Request \ {i}, issuer[j].at = "numbered"
        PROVE  issuer[j].date \in Issues!Date /\ issuer[j].date # e
    <3>1. issuer[j].date # d
      BY <1>1, <2>2 DEF Issued, Locked, d
    <3>2. issuer[j].date \in 1..today /\ today \in Issues!Date
      BY <2>2 DEF Issued, Issuers, IssuerOK, Issues!Waiting, Issues!TypeOK
    <3> QED
      BY DocumentsAssumption, <1>4, <3>1, <3>2 DEF Issues!Date, Issues!IssueAssumption
  <2> QED
    BY <1>6, <1>8, <2>1, <2>2 DEF Issued, Locked
<1>11. Numbers'
  <2> SUFFICES ASSUME NEW x \in Issues!Date
               PROVE  /\ IsFiniteSet(Day(x)')
                      /\ {y.number.n : y \in Day(x)'} = 1..Cardinality(Day(x)')
                      /\ sequence'[x] = Cardinality(Day(x)')
    BY DEF Numbers
  <2>1. /\ IsFiniteSet(Day(x)) /\ sequence[x] = Cardinality(Day(x))
        /\ {y.number.n : y \in Day(x)} = 1..Cardinality(Day(x))
        /\ Cardinality(Day(x)) \in Nat
    BY FS_CardinalityType DEF Issued, Numbers
  <2>2. CASE x # e
    <3>1. Day(x)' = Day(x)
      BY <1>1, <1>3, <1>4, <1>5, <2>2 DEF Day
    <3> QED
      BY <1>6, <2>1, <2>2, <3>1
  <2>3. CASE x = e
    <3>1. Day(x)' = Day(x) \cup {k}
      BY <1>1, <1>3, <1>4, <1>5, <2>3 DEF Day
    <3>2. k.number.n = Cardinality(Day(x)) + 1
      BY <1>3, <1>4, <1>5, <2>1, <2>3
    <3>3. k \notin Day(x)
      BY <2>1, <3>2
    <3>4. /\ IsFiniteSet(Day(x) \cup {k})
          /\ Cardinality(Day(x) \cup {k}) = Cardinality(Day(x)) + 1
      BY <2>1, <3>3, FS_AddElement
    <3>5. {y.number.n : y \in Day(x) \cup {k}}
          = {y.number.n : y \in Day(x)} \cup {k.number.n}
      OBVIOUS
    <3>6. {y.number.n : y \in Day(x) \cup {k}} = 1..(Cardinality(Day(x)) + 1)
      BY <2>1, <3>2, <3>5
    <3> QED
      BY <1>6, <2>1, <2>3, <3>1, <3>4, <3>6
  <2> QED
    BY <2>2, <2>3
<1> QED
  BY <1>7, <1>9, <1>10, <1>11 DEF Issued

LEMMA FailsIssued ==
    ASSUME Issued, NEW i \in Request, Issues!IssueFails(i) PROVE Issued'
<1>1. /\ issuer' = [issuer EXCEPT ![i] = Issues!Waiting]
      /\ UNCHANGED <<today, removed, sequence, issues>>
  BY DEF Issues!IssueFails
<1>2. /\ issuer'[i] = Issues!Waiting /\ \A j \in Request \ {i} : issuer'[j] = issuer[j]
      /\ DOMAIN issuer' = Request /\ issuer' = [j \in Request |-> issuer'[j]]
  BY <1>1 DEF Issued, Issuers
<1>3. Issuers'
  BY <1>1, <1>2 DEF Issuers, IssuerOK, Issued
<1>4. Locked'
  BY <1>1, <1>2 DEF Issued, Locked, Issues!Waiting
<1> QED
  BY <1>1, <1>3, <1>4, RequestsOnly DEF Issued, Issues!TypeOK

LEMMA StepIssued == ASSUME Issued, [Issues!Next]_(Issues!issueVars) PROVE Issued'
<1>1. ASSUME NEW s \in Tbm, Issues!RemoveSource(s) PROVE Issued'
  BY <1>1, RequestsOnly
  DEF Issues!RemoveSource, Issued, Issues!TypeOK, Issuers, IssuerOK, Locked
<1>2. CASE Issues!NextDate
  <2>1. today' \in Issues!Date /\ 1..today \subseteq 1..today'
    BY DocumentsAssumption, <1>2 DEF Issues!NextDate, Issued, Issues!TypeOK, Issues!Date, Issues!IssueAssumption
  <2>2. UNCHANGED <<removed, sequence, issues, issuer>>
    BY <1>2 DEF Issues!NextDate
  <2>3. Issues!TypeOK'
    BY <2>1, <2>2 DEF Issued, Issues!TypeOK
  <2>4. Issuers' /\ Locked' /\ Numbers'
    BY <2>1, <2>2 DEF Issued, Issuers, IssuerOK, Locked, Numbers, Day
  <2> QED
    BY <2>3, <2>4 DEF Issued
<1>3. CASE UNCHANGED Issues!issueVars
  BY <1>3, RequestsOnly DEF Issues!issueVars, Issued, Issues!TypeOK, Issuers, IssuerOK, Locked
<1> QED
  BY <1>1, <1>2, <1>3, AskIssued, NextNumberIssued, IssueIssued, FailsIssued DEF Issues!Next

LEMMA SameCardinality == \A S : Issues!Cardinality(S) = Cardinality(S)
BY DEF Issues!Cardinality, Cardinality

\* The dates and numbers of issues are those of days that came, within the bound.
THEOREM IssueTypes == Issues!Spec => []Issues!TypeOK
<1>1. Issued => Issues!TypeOK
  BY DEF Issued
<1> QED
  BY <1>1, StartIssued, StepIssued, PTL DEF Issues!Spec

\* However many requests ask, fail and cross midnight together, the numbers of a day
\* are 1, 2, ... without a gap or a repetition.
THEOREM NumbersWithoutGap == Issues!Spec => []Issues!NumbersUnbroken
<1>1. Issued => Issues!NumbersUnbroken
  BY SameCardinality DEF Issued, Numbers, Issues!NumbersUnbroken, Day
<1> QED
  BY <1>1, StartIssued, StepIssued, PTL DEF Issues!Spec

-----------------------------------------------------------------------------
(* Checklists and item templates. *)

SheetRow == [status : Versions!Status, version : 1..MaxVersion,
             current : 1..MaxVersion, deleted : BOOLEAN]
TemplateRow == [name : Name, at : Nat, seen : Nat]
WriterRow ==
    {Versions!Free}
      \cup [at : {"update", "deploy"}, id : Checklist, row : SheetRow]
      \cup [at : {"create", "rename"}, id : ItemTemplate, name : Name, seen : Nat]

VersionTypes ==
    /\ sheet \in [Checklist -> SheetRow \cup {Versions!Absent}]
    /\ template \in [ItemTemplate -> TemplateRow \cup {Versions!Absent}]
    /\ writer \in [Request -> WriterRow]
    /\ writes \in 0..MaxWrites

\* A row that was read had a current version, and versions are only added to it.
SheetsGrow ==
    /\ \A s \in Checklist : sheet[s] \in SheetRow => sheet[s].current <= sheet[s].version
    /\ \A w \in Request : writer[w].at \in {"update", "deploy"} =>
          /\ sheet[writer[w].id] \in SheetRow
          /\ writer[w].row.current <= writer[w].row.version
          /\ writer[w].row.version <= sheet[writer[w].id].version

Carries(t, name) == template[t] \in TemplateRow /\ template[t].name = name

\* Names are written one after the other, each after it was looked up; a name that
\* another template has by now was written after a request has looked for it.
NamesOrdered ==
    /\ \A t \in ItemTemplate : template[t] \in TemplateRow =>
          template[t].seen < template[t].at /\ template[t].at <= writes
    /\ \A t, u \in ItemTemplate :
          /\ template[t] \in TemplateRow /\ template[u] \in TemplateRow
          /\ template[t].at = template[u].at
          => t = u
    /\ \A w \in Request : writer[w].at \in {"create", "rename"} =>
          /\ writer[w].seen <= writes
          /\ \A t \in ItemTemplate \ {writer[w].id} :
                Carries(t, writer[w].name) => writer[w].seen < template[t].at

VersionInv == VersionTypes /\ SheetsGrow /\ NamesOrdered /\ Versions!NamesUnlessConcurrent

LEMMA AbsentIsNoRow == Versions!Absent \notin SheetRow /\ Versions!Absent \notin TemplateRow
<1>1. "version" \notin DOMAIN Versions!Absent
  BY DEF Versions!Absent
<1>2. \A x \in SheetRow : "version" \in DOMAIN x
  BY DEF SheetRow
<1>3. "seen" \notin DOMAIN Versions!Absent
  BY DEF Versions!Absent
<1>4. \A x \in TemplateRow : "seen" \in DOMAIN x
  BY DEF TemplateRow
<1> QED BY <1>1, <1>2, <1>3, <1>4

LEMMA VersionStart == Versions!Init => VersionInv
BY AbsentIsNoRow, DocumentsAssumption
DEF Versions!Init, Versions!VersionAssumption, VersionInv, VersionTypes, SheetsGrow,
    NamesOrdered, Versions!NamesUnlessConcurrent, WriterRow, Versions!Free

\* Whether a template is there.
LEMMA RowOrAbsent ==
    ASSUME VersionTypes
    PROVE  /\ \A s \in Checklist : sheet[s] # Versions!Absent <=> sheet[s] \in SheetRow
           /\ \A t \in ItemTemplate :
                 template[t] # Versions!Absent <=> template[t] \in TemplateRow
BY AbsentIsNoRow DEF VersionTypes

\* Steps on the checklists leave the templates alone.
LEMMA NamesStay ==
    ASSUME VersionInv, UNCHANGED <<template, writes>>,
           \A w \in Request : writer'[w] = writer[w]
                              \/ writer'[w].at \notin {"create", "rename"}
    PROVE  NamesOrdered' /\ Versions!NamesUnlessConcurrent'
BY DEF VersionInv, NamesOrdered, Versions!NamesUnlessConcurrent, Carries

\* Steps on the templates leave the checklists alone.
LEMMA SheetsStay ==
    ASSUME VersionInv, UNCHANGED sheet,
           \A w \in Request : writer'[w] = writer[w]
                              \/ writer'[w].at \notin {"update", "deploy"}
    PROVE  SheetsGrow'
BY DEF VersionInv, SheetsGrow

LEMMA CreateVersion ==
    ASSUME VersionInv, NEW s \in Checklist, NEW status \in Versions!Status,
           Versions!Create(s, status)
    PROVE  VersionInv'
<1> DEFINE new == [status |-> status, version |-> 1, current |-> 1, deleted |-> FALSE]
<1>1. new \in SheetRow
  BY DocumentsAssumption DEF SheetRow, Versions!VersionAssumption
<1>2. /\ sheet' = [sheet EXCEPT ![s] = new]
      /\ UNCHANGED <<template, writer, writes>>
      /\ sheet[s] \notin SheetRow
  BY AbsentIsNoRow DEF Versions!Create
<1> HIDE DEF new
<1>3. VersionTypes'
  BY <1>1, <1>2 DEF VersionInv, VersionTypes
<1>4. SheetsGrow'
  <2>1. sheet'[s] = new /\ new.current <= new.version
    BY <1>2 DEF VersionInv, VersionTypes, new
  <2>2. \A x \in Checklist \ {s} : sheet'[x] = sheet[x]
    BY <1>2 DEF VersionInv, VersionTypes
  <2>3. \A w \in Request : writer[w].at \in {"update", "deploy"} =>
            writer[w].id \in Checklist \ {s}
    BY <1>2 DEF VersionInv, VersionTypes, SheetsGrow, WriterRow, Versions!Free
  <2> QED BY <1>2, <2>1, <2>2, <2>3 DEF VersionInv, SheetsGrow
<1> QED BY <1>2, <1>3, <1>4, NamesStay DEF VersionInv

LEMMA ReadVersion ==
    ASSUME VersionInv, NEW w \in Request, NEW s \in Checklist,
           NEW at \in {"update", "deploy"}, Versions!Read(w, s, at)
    PROVE  VersionInv'
<1> DEFINE q == [at |-> at, id |-> s, row |-> sheet[s]]
<1>1. writer' = [writer EXCEPT ![w] = q] /\ UNCHANGED <<sheet, template, writes>>
  BY DEF Versions!Read
<1>2. sheet[s] \in SheetRow
  BY RowOrAbsent DEF Versions!Read, Versions!Live, VersionInv
<1>3. q \in WriterRow /\ q.at = at /\ q.id = s /\ q.row = sheet[s]
  BY <1>2 DEF WriterRow
<1> HIDE DEF q
<1>4. writer'[w] = q /\ \A v \in Request \ {w} : writer'[v] = writer[v]
  BY <1>1 DEF VersionInv, VersionTypes
<1>5. VersionTypes'
  BY <1>1, <1>3 DEF VersionInv, VersionTypes
<1>6. SheetsGrow'
  <2>1. sheet[s].current <= sheet[s].version /\ sheet[s].version \in Int
    BY <1>2 DEF VersionInv, SheetsGrow, SheetRow
  <2> QED BY <1>1, <1>2, <1>3, <1>4, <2>1 DEF VersionInv, SheetsGrow
<1>7. \A v \in Request : writer'[v] = writer[v]
                         \/ writer'[v].at \notin {"create", "rename"}
  BY <1>3, <1>4
<1> QED BY <1>1, <1>5, <1>6, <1>7, NamesStay DEF VersionInv

\* What a step leaves of a row that it does not create.
LEMMA WriteSheet ==
    ASSUME VersionInv, NEW s \in Checklist, NEW new \in SheetRow, sheet[s] \in SheetRow,
           sheet' = [sheet EXCEPT ![s] = new],
           new.current <= new.version, sheet[s].version <= new.version,
           \A w \in Request : writer'[w] = writer[w] \/ writer'[w] = Versions!Free,
           writer' \in [Request -> WriterRow],
           UNCHANGED <<template, writes>>
    PROVE  VersionInv'
<1>1. sheet'[s] = new /\ \A x \in Checklist \ {s} : sheet'[x] = sheet[x]
  BY DEF VersionInv, VersionTypes
<1>2. VersionTypes'
  BY DEF VersionInv, VersionTypes
<1>3. SheetsGrow'
  <2>1. \A x \in Checklist : sheet'[x] \in SheetRow => sheet'[x].current <= sheet'[x].version
    BY <1>1 DEF VersionInv, SheetsGrow
  <2>2. ASSUME NEW w \in Request, writer'[w].at \in {"update", "deploy"}
        PROVE  /\ sheet'[writer'[w].id] \in SheetRow
               /\ writer'[w].row.current <= writer'[w].row.version
               /\ writer'[w].row.version <= sheet'[writer'[w].id].version
    <3>1. writer'[w] = writer[w]
      BY <2>2 DEF Versions!Free
    <3>2. writer[w].id \in Checklist /\ writer[w].row \in SheetRow
      BY <2>2, <3>1 DEF VersionInv, VersionTypes, WriterRow, Versions!Free
    <3>3. /\ sheet[writer[w].id] \in SheetRow
          /\ writer[w].row.current <= writer[w].row.version
          /\ writer[w].row.version <= sheet[writer[w].id].version
      BY <2>2, <3>1 DEF VersionInv, SheetsGrow
    <3>4. \A x \in SheetRow : x.version \in Int
      BY DEF SheetRow
    <3> QED BY <1>1, <3>1, <3>2, <3>3, <3>4
  <2> QED BY <2>1, <2>2 DEF SheetsGrow
<1>4. \A w \in Request : writer'[w] = writer[w]
                         \/ writer'[w].at \notin {"create", "rename"}
  BY DEF Versions!Free
<1> QED BY <1>2, <1>3, <1>4, NamesStay DEF VersionInv

\* A request that ends.
LEMMA WriterFreed ==
    ASSUME VersionInv, NEW w \in Request, writer' = [writer EXCEPT ![w] = Versions!Free]
    PROVE  /\ writer' \in [Request -> WriterRow]
           /\ writer'[w] = Versions!Free
           /\ \A v \in Request \ {w} : writer'[v] = writer[v]
BY DEF VersionInv, VersionTypes, WriterRow

\* The rows that an update has read, and those that it writes.
LEMMA UpdateVersion ==
    ASSUME VersionInv, NEW w \in Request, NEW status \in Versions!Status \cup {"kept"},
           NEW sections \in BOOLEAN, Versions!Update(w, status, sections)
    PROVE  /\ VersionInv'
           /\ writer'[w] = Versions!Free
           /\ \A s \in Checklist : sheet[s] \in SheetRow /\ sheet[s] = writer[w].row =>
                 sheet'[s].current \in Int /\ sheet'[s].current >= sheet[s].current
           /\ \A s \in Checklist \ {writer[w].id} : sheet'[s] = sheet[s]
<1> DEFINE q == writer[w]
           s == q.id
           next == q.row.version + 1
           new == [sheet[s] EXCEPT
                     !.status = IF status = "kept" THEN q.row.status ELSE status,
                     !.version = IF sections /\ next > @ THEN next ELSE @,
                     !.current = IF sections THEN next ELSE q.row.current]
<1>1. q.at = "update"
  BY DEF Versions!Update
<1>2. s \in Checklist /\ q.row \in SheetRow
  BY <1>1 DEF VersionInv, VersionTypes, WriterRow, Versions!Free
<1>3. /\ sheet[s] \in SheetRow
      /\ q.row.current <= q.row.version
      /\ q.row.version <= sheet[s].version
  BY <1>1 DEF VersionInv, SheetsGrow
<1>4. /\ sections => next <= MaxVersion
      /\ sheet' = [sheet EXCEPT
             ![s].status = IF status = "kept" THEN q.row.status ELSE status,
             ![s].version = IF sections /\ next > @ THEN next ELSE @,
             ![s].current = IF sections THEN next ELSE q.row.current]
      /\ writer' = [writer EXCEPT ![w] = Versions!Free]
      /\ UNCHANGED <<template, writes>>
  BY DEF Versions!Update, Versions!LatestVersion, Versions!CurrentVersion
<1>5. sheet' = [sheet EXCEPT ![s] = new]
  BY <1>2, <1>3, <1>4 DEF VersionInv, VersionTypes, SheetRow
<1>6. /\ new \in SheetRow
      /\ new.current <= new.version /\ sheet[s].version <= new.version
      /\ new.current = IF sections THEN next ELSE q.row.current
  <2>1. /\ q.row.status \in Versions!Status
        /\ q.row.version \in 1..MaxVersion /\ q.row.current \in 1..MaxVersion
        /\ sheet[s].version \in 1..MaxVersion /\ sheet[s].deleted \in BOOLEAN
        /\ MaxVersion \in Nat
    BY <1>2, <1>3, DocumentsAssumption DEF SheetRow, Versions!VersionAssumption
  <2>2. next \in Nat /\ (sections => next \in 1..MaxVersion)
    BY <1>4, <2>1
  <2>3. /\ new.status = IF status = "kept" THEN q.row.status ELSE status
        /\ new.version = IF sections /\ next > sheet[s].version THEN next
                         ELSE sheet[s].version
        /\ new.current = IF sections THEN next ELSE q.row.current
        /\ new.deleted = sheet[s].deleted
        /\ DOMAIN new = {"status", "version", "current", "deleted"}
    BY <1>3 DEF SheetRow
  <2>4. new.status \in Versions!Status
    BY <2>1, <2>3
  <2>5. new.version \in 1..MaxVersion /\ new.current \in 1..MaxVersion
    BY <2>1, <2>2, <2>3
  <2>6. new.current <= new.version /\ sheet[s].version <= new.version
    BY <1>3, <2>1, <2>2, <2>3
  <2>7. new \in SheetRow
    BY <1>3, <2>1, <2>3, <2>4, <2>5 DEF SheetRow
  <2> QED BY <2>3, <2>6, <2>7
<1>7. sheet'[s] = new /\ \A x \in Checklist \ {s} : sheet'[x] = sheet[x]
  BY <1>2, <1>5 DEF VersionInv, VersionTypes
<1>8. \A x \in Checklist : sheet[x] \in SheetRow /\ sheet[x] = q.row =>
          sheet'[x].current \in Int /\ sheet'[x].current >= sheet[x].current
  <2>1. \A x \in SheetRow : x.current \in Int /\ x.version \in Int
    BY DEF SheetRow
  <2>2. new.current >= q.row.current
    BY <1>2, <1>3, <1>6, <2>1
  <2> HIDE DEF new, q
  <2>3. ASSUME NEW x \in Checklist, sheet[x] \in SheetRow, sheet[x] = q.row
        PROVE  sheet'[x].current \in Int /\ sheet'[x].current >= sheet[x].current
    <3>1. CASE x = s
      BY <3>1, <2>1, <2>2, <2>3, <1>6, <1>7
    <3>2. CASE x # s
      BY <3>2, <2>1, <2>3, <1>7
    <3> QED BY <3>1, <3>2
  <2> QED BY <2>3
<1> HIDE DEF new, s, next
<1>9. VersionInv'
  BY <1>2, <1>3, <1>4, <1>5, <1>6, WriterFreed, WriteSheet
<1> QED BY <1>4, <1>7, <1>8, <1>9, WriterFreed DEF s

LEMMA DeployVersion ==
    ASSUME VersionInv, NEW w \in Request, Versions!Deploy(w)
    PROVE  /\ VersionInv'
           /\ \A s \in Checklist : sheet[s] \in SheetRow =>
                 sheet'[s].current = sheet[s].current
<1> DEFINE s == writer[w].id
           status == IF writer[w].row.status = "DRAFT" THEN "ACTIVE" ELSE sheet[s].status
           new == [sheet[s] EXCEPT !.status = status]
<1>1. s \in Checklist /\ sheet[s] \in SheetRow
  BY DEF VersionInv, VersionTypes, SheetsGrow, WriterRow, Versions!Free, Versions!Deploy
<1>2. sheet' = [sheet EXCEPT ![s] = new] /\ UNCHANGED <<template, writes>>
      /\ writer' = [writer EXCEPT ![w] = Versions!Free]
  BY <1>1 DEF Versions!Deploy, VersionInv, VersionTypes, SheetRow
<1>3. /\ new \in SheetRow
      /\ new.current = sheet[s].current /\ new.version = sheet[s].version
      /\ new.current <= new.version /\ sheet[s].version <= new.version
  BY <1>1 DEF SheetRow, Versions!Status, VersionInv, SheetsGrow
<1> HIDE DEF new, s
<1>4. sheet'[s] = new /\ \A x \in Checklist \ {s} : sheet'[x] = sheet[x]
  BY <1>1, <1>2 DEF VersionInv, VersionTypes
<1>5. VersionInv'
  BY <1>1, <1>2, <1>3, WriterFreed, WriteSheet
<1> QED BY <1>3, <1>4, <1>5

LEMMA RemoveVersion ==
    ASSUME VersionInv, NEW s \in Checklist, Versions!Remove(s)
    PROVE  /\ VersionInv'
           /\ \A x \in Checklist : sheet[x] \in SheetRow =>
                 sheet'[x].current = sheet[x].current
<1> DEFINE new == [sheet[s] EXCEPT !.deleted = TRUE, !.status = "ARCHIVED"]
<1>1. sheet[s] \in SheetRow
  BY RowOrAbsent DEF Versions!Remove, Versions!Live, VersionInv
<1>2. sheet' = [sheet EXCEPT ![s] = new] /\ UNCHANGED <<template, writer, writes>>
  BY <1>1 DEF Versions!Remove, VersionInv, VersionTypes, SheetRow
<1>3. /\ new \in SheetRow
      /\ new.current = sheet[s].current /\ new.version = sheet[s].version
      /\ new.current <= new.version /\ sheet[s].version <= new.version
  <2>1. sheet[s].version \in Int /\ sheet[s].current <= sheet[s].version
    BY <1>1 DEF SheetRow, VersionInv, SheetsGrow
  <2>2. new.current = sheet[s].current /\ new.version = sheet[s].version
    BY <1>1 DEF SheetRow
  <2>3. new \in SheetRow
    BY <1>1 DEF SheetRow, Versions!Status
  <2> HIDE DEF new
  <2> QED BY <2>1, <2>2, <2>3
<1> HIDE DEF new
<1>4. sheet'[s] = new /\ \A x \in Checklist \ {s} : sheet'[x] = sheet[x]
  BY <1>1, <1>2 DEF VersionInv, VersionTypes
<1>5. writer' \in [Request -> WriterRow]
  BY <1>2 DEF VersionInv, VersionTypes
<1>6. VersionInv'
  BY <1>1, <1>2, <1>3, <1>5, WriteSheet
<1> QED BY <1>3, <1>4, <1>6

LEMMA CheckNameVersion ==
    ASSUME VersionInv, NEW w \in Request, NEW t \in ItemTemplate, NEW name \in Name,
           Versions!CheckName(w, t, name)
    PROVE  VersionInv'
<1> DEFINE same == template[t] # Versions!Absent /\ template[t].name = name
           q == [at |-> IF template[t] = Versions!Absent THEN "create" ELSE "rename",
                 id |-> t, name |-> name,
                 seen |-> IF same THEN template[t].seen ELSE writes]
<1>1. /\ same \/ ~ Versions!NameTaken(name, t)
      /\ writer' = [writer EXCEPT ![w] = q]
      /\ UNCHANGED <<sheet, template, writes>>
  BY DEF Versions!CheckName
<1>2. same <=> Carries(t, name)
  BY RowOrAbsent DEF VersionInv, Carries
<1>3. q.seen \in Nat /\ q.seen <= writes
  BY <1>2 DEF VersionInv, VersionTypes, NamesOrdered, Carries, TemplateRow
<1>4. q \in WriterRow /\ q.at \in {"create", "rename"} /\ q.id = t /\ q.name = name
  BY <1>3 DEF WriterRow
<1>5. ASSUME NEW u \in ItemTemplate \ {t}, Carries(u, name)
      PROVE  q.seen < template[u].at
  <2>1. ~ same => ~ Versions!NameTaken(name, t)
    BY <1>1
  <2>2. Versions!NameTaken(name, t)
    BY <1>5, RowOrAbsent DEF Versions!NameTaken, Carries, VersionInv
  <2>3. same /\ Carries(t, name) /\ q.seen = template[t].seen
    BY <1>2, <2>1, <2>2
  <2>4. /\ template[t].seen < template[t].at /\ template[t].at # template[u].at
        /\ template[t].at \in Nat /\ template[u].at \in Nat /\ template[t].seen \in Nat
    BY <1>5, <2>3 DEF Carries, VersionInv, NamesOrdered, TemplateRow
  <2>5. template[t].at < template[u].at \/ template[u].at < template[t].at
    BY <2>4
  <2>6. CASE template[u].at < template[t].at
    BY <1>5, <2>3, <2>6, RowOrAbsent DEF VersionInv, Versions!NamesUnlessConcurrent, Carries
  <2>7. CASE template[t].at < template[u].at
    BY <2>3, <2>4, <2>7
  <2> QED BY <2>5, <2>6, <2>7
<1> HIDE DEF q
<1>6. writer'[w] = q /\ \A v \in Request \ {w} : writer'[v] = writer[v]
  BY <1>1 DEF VersionInv, VersionTypes
<1>7. VersionTypes'
  BY <1>1, <1>4 DEF VersionInv, VersionTypes
<1>8. SheetsGrow'
  BY <1>1, <1>4, <1>6, SheetsStay
<1>9. NamesOrdered'
  BY <1>1, <1>3, <1>4, <1>5, <1>6 DEF VersionInv, NamesOrdered, Carries
<1> QED BY <1>1, <1>7, <1>8, <1>9 DEF VersionInv, Versions!NamesUnlessConcurrent

LEMMA WriteNameVersion ==
    ASSUME VersionInv, NEW w \in Request, Versions!WriteName(w) PROVE VersionInv'
<1> DEFINE q == writer[w]
           new == [name |-> q.name, at |-> writes + 1, seen |-> q.seen]
<1>1. /\ q.at \in {"create", "rename"} /\ writes < MaxWrites
      /\ template' = [template EXCEPT ![q.id] = new]
      /\ writes' = writes + 1
      /\ writer' = [writer EXCEPT ![w] = Versions!Free]
      /\ UNCHANGED sheet
  BY DEF Versions!WriteName
<1>2. q.id \in ItemTemplate /\ q.name \in Name /\ q.seen \in Nat /\ writes \in Nat
  BY <1>1, DocumentsAssumption
  DEF VersionInv, VersionTypes, WriterRow, Versions!Free, Versions!VersionAssumption
<1>3. q.seen <= writes /\ \A t \in ItemTemplate \ {q.id} :
                              Carries(t, q.name) => q.seen < template[t].at
  BY <1>1 DEF VersionInv, NamesOrdered
<1>4. new \in TemplateRow /\ new.name = q.name /\ new.at = writes + 1 /\ new.seen = q.seen
  BY <1>2 DEF TemplateRow
<1> HIDE DEF new
<1>5. template'[q.id] = new /\ \A t \in ItemTemplate \ {q.id} : template'[t] = template[t]
  BY <1>1, <1>2 DEF VersionInv, VersionTypes
<1>6. VersionTypes'
  <2>1. template' \in [ItemTemplate -> TemplateRow \cup {Versions!Absent}]
    BY <1>1, <1>2, <1>4 DEF VersionInv, VersionTypes
  <2>2. writes' \in 0..MaxWrites
    BY <1>1, <1>2, DocumentsAssumption DEF Versions!VersionAssumption
  <2>3. writer' \in [Request -> WriterRow]
    BY <1>1, WriterFreed
  <2> QED BY <1>1, <2>1, <2>2, <2>3 DEF VersionInv, VersionTypes
<1>7. SheetsGrow'
  BY <1>1, WriterFreed, SheetsStay DEF Versions!Free
<1>8. \A t \in ItemTemplate : template[t] \in TemplateRow =>
          template[t].at <= writes /\ template[t].at \in Nat /\ template[t].seen \in Nat
  BY DEF VersionInv, NamesOrdered, TemplateRow
<1>9. NamesOrdered'
  <2>1. \A t \in ItemTemplate : template'[t] \in TemplateRow =>
            template'[t].seen < template'[t].at /\ template'[t].at <= writes'
    BY <1>1, <1>2, <1>3, <1>4, <1>5, <1>8 DEF VersionInv, NamesOrdered
  <2>2. \A t, u \in ItemTemplate :
            /\ template'[t] \in TemplateRow /\ template'[u] \in TemplateRow
            /\ template'[t].at = template'[u].at
            => t = u
    BY <1>2, <1>4, <1>5, <1>8 DEF VersionInv, NamesOrdered
  <2>3. ASSUME NEW v \in Request, writer'[v].at \in {"create", "rename"}
        PROVE  /\ writer'[v].seen <= writes'
               /\ \A t \in ItemTemplate \ {writer'[v].id} :
                     Carries(t, writer[v].name)' => writer'[v].seen < template'[t].at
    <3>1. writer'[v] = writer[v]
      BY <1>1, <2>3, WriterFreed DEF Versions!Free
    <3>2. writer[v].seen \in Nat
      BY <2>3, <3>1 DEF VersionInv, VersionTypes, WriterRow, Versions!Free
    <3>3. /\ writer[v].seen <= writes
          /\ \A t \in ItemTemplate \ {writer[v].id} :
                Carries(t, writer[v].name) => writer[v].seen < template[t].at
      BY <2>3, <3>1 DEF VersionInv, NamesOrdered
    <3>4. ASSUME NEW t \in ItemTemplate \ {writer[v].id}, Carries(t, writer[v].name)'
          PROVE  writer[v].seen < template'[t].at
      <4>1. CASE t = q.id
        BY <1>1, <1>2, <1>4, <1>5, <3>2, <3>3, <4>1
      <4>2. CASE t # q.id
        <5>1. template'[t] = template[t]
          BY <1>5, <4>2
        <5>2. Carries(t, writer[v].name)
          BY <3>1, <3>4, <5>1 DEF Carries
        <5> QED BY <3>3, <5>1, <5>2
      <4> QED BY <4>1, <4>2
    <3> QED BY <1>1, <1>2, <3>1, <3>2, <3>3, <3>4 DEF Carries
  <2> QED BY <2>1, <2>2, <2>3 DEF NamesOrdered
<1>10. Versions!NamesUnlessConcurrent'
  <2> SUFFICES ASSUME NEW t \in ItemTemplate, NEW u \in ItemTemplate, t # u,
                      template'[t] \in TemplateRow, template'[u] \in TemplateRow,
                      template'[t].name = template'[u].name,
                      template'[t].at < template'[u].at
               PROVE  template'[u].seen < template'[t].at
    BY <1>6, AbsentIsNoRow DEF Versions!NamesUnlessConcurrent, VersionTypes
  <2>1. CASE u = q.id
    <3>1. template'[t] = template[t] /\ Carries(t, q.name)
      BY <1>4, <1>5, <2>1 DEF Carries
    <3> QED BY <1>3, <1>4, <1>5, <2>1, <3>1
  <2>2. CASE t = q.id
    BY <1>2, <1>4, <1>5, <1>8, <2>2
  <2>3. CASE t # q.id /\ u # q.id
    BY <1>5, <2>3, RowOrAbsent DEF VersionInv, Versions!NamesUnlessConcurrent
  <2> QED BY <2>1, <2>2, <2>3
<1> QED BY <1>6, <1>7, <1>9, <1>10 DEF VersionInv

LEMMA RemoveTemplateVersion ==
    ASSUME VersionInv, NEW t \in ItemTemplate, Versions!RemoveTemplate(t) PROVE VersionInv'
<1>1. template' = [template EXCEPT ![t] = Versions!Absent] /\ UNCHANGED <<sheet, writer, writes>>
  BY DEF Versions!RemoveTemplate
<1>2. /\ template'[t] = Versions!Absent
      /\ \A u \in ItemTemplate \ {t} : template'[u] = template[u]
  BY <1>1 DEF VersionInv, VersionTypes
<1>3. VersionTypes'
  BY <1>1 DEF VersionInv, VersionTypes
<1>4. SheetsGrow'
  BY <1>1 DEF VersionInv, SheetsGrow
<1>5. NamesOrdered'
  BY <1>1, <1>2, AbsentIsNoRow DEF VersionInv, NamesOrdered, Carries
<1>6. Versions!NamesUnlessConcurrent'
  BY <1>2 DEF VersionInv, Versions!NamesUnlessConcurrent
<1> QED BY <1>3, <1>4, <1>5, <1>6 DEF VersionInv

LEMMA FailVersion ==
    ASSUME VersionInv, NEW w \in Request, Versions!Fail(w) PROVE VersionInv'
<1>1. writer' = [writer EXCEPT ![w] = Versions!Free] /\ UNCHANGED <<sheet, template, writes>>
  BY DEF Versions!Fail
<1>2. VersionTypes'
  BY <1>1, WriterFreed DEF VersionInv, VersionTypes
<1>3. SheetsGrow'
  BY <1>1, WriterFreed, SheetsStay DEF Versions!Free
<1>4. NamesOrdered' /\ Versions!NamesUnlessConcurrent'
  BY <1>1, WriterFreed, NamesStay DEF Versions!Free
<1> QED BY <1>2, <1>3, <1>4 DEF VersionInv

LEMMA VersionStep == VersionInv /\ [Versions!Next]_(Versions!rowVars) => VersionInv'
<1>1. ASSUME VersionInv, UNCHANGED Versions!rowVars PROVE VersionInv'
  BY <1>1 DEF VersionInv, VersionTypes, SheetsGrow, NamesOrdered, Carries,
              Versions!NamesUnlessConcurrent, Versions!rowVars
<1> QED
  BY <1>1, CreateVersion, ReadVersion, UpdateVersion, DeployVersion, RemoveVersion,
     CheckNameVersion, WriteNameVersion, RemoveTemplateVersion, FailVersion
  DEF Versions!Next

\* The types of checklists, versions and templates: a current version exists.
THEOREM VersionsTyped == Versions!Spec => []Versions!TypeOK
<1>1. VersionInv => Versions!TypeOK
  BY RowOrAbsent, DocumentsAssumption
  DEF VersionInv, VersionTypes, SheetsGrow, NamesOrdered, Versions!TypeOK, SheetRow,
      TemplateRow, Versions!VersionAssumption
<1> QED BY <1>1, VersionStart, VersionStep, PTL DEF Versions!Spec

\* assertItemTemplateNameAvailable: two templates have one name only if the later one
\* was looked up before the other was written, for any number of requests and writes.
THEOREM NamesLookedUp == Versions!Spec => []Versions!NamesUnlessConcurrent
<1>1. VersionInv => Versions!NamesUnlessConcurrent
  BY DEF VersionInv
<1> QED BY <1>1, VersionStart, VersionStep, PTL DEF Versions!Spec

\* update: no sequence of requests that do not overlap brings an old version back.
THEOREM VersionsGrow == Versions!Spec => Versions!CurrentOnlyGrows
<1> DEFINE Grows ==
      \A s \in Checklist :
          Versions!Live(s) /\ sheet'[s].current < sheet[s].current =>
              \E w \in Request : /\ writer[w].at = "update" /\ writer'[w] = Versions!Free
                                /\ writer[w].row # sheet[s]
<1>1. VersionInv /\ [Versions!Next]_(Versions!rowVars) => [Grows]_(Versions!rowVars)
  <2> SUFFICES ASSUME VersionInv, Versions!Next, NEW s \in Checklist,
                      Versions!Live(s), sheet'[s].current < sheet[s].current
               PROVE  \E w \in Request : /\ writer[w].at = "update"
                                        /\ writer'[w] = Versions!Free
                                        /\ writer[w].row # sheet[s]
    OBVIOUS
  <2>1. sheet[s] \in SheetRow /\ sheet[s].current \in Int
    BY RowOrAbsent DEF Versions!Live, VersionInv, SheetRow
  <2>2. sheet'[s].current # sheet[s].current
    BY <2>1
  <2>3. ASSUME NEW x \in Checklist, NEW status \in Versions!Status,
               Versions!Create(x, status)
        PROVE  FALSE
    BY <2>1, <2>2, <2>3, AbsentIsNoRow DEF Versions!Create, VersionInv, VersionTypes
  <2>4. ASSUME NEW w \in Request, NEW status \in Versions!Status \cup {"kept"},
               NEW sections \in BOOLEAN, Versions!Update(w, status, sections)
        PROVE  /\ writer[w].at = "update" /\ writer'[w] = Versions!Free
               /\ writer[w].row # sheet[s]
    <3>1. writer[w].at = "update"
      BY <2>4 DEF Versions!Update
    <3>2. writer[w].row = sheet[s] => /\ sheet'[s].current \in Int
                                      /\ sheet'[s].current >= sheet[s].current
      BY <2>1, <2>4, UpdateVersion
    <3>3. writer'[w] = Versions!Free
      BY <2>4, UpdateVersion
    <3> QED BY <2>1, <3>1, <3>2, <3>3
  <2>5. \A w \in Request : ~ Versions!Deploy(w)
    BY <2>1, <2>2, DeployVersion
  <2>6. \A x \in Checklist : ~ Versions!Remove(x)
    BY <2>1, <2>2, RemoveVersion
  <2>7. ~ UNCHANGED sheet
    BY <2>2
  <2> QED
    BY <2>3, <2>4, <2>5, <2>6, <2>7
    DEF Versions!Next, Versions!Read, Versions!WriteName, Versions!Fail,
        Versions!RemoveTemplate, Versions!CheckName
<1>2. Versions!Spec => [][Grows]_(Versions!rowVars)
  BY <1>1, VersionStart, VersionStep, PTL DEF Versions!Spec
<1> QED BY <1>2 DEF Versions!CurrentOnlyGrows

-----------------------------------------------------------------------------
(* Checklist deployments. *)

DeploymentRow == [checklist : Checklist, order : Deployments!Order, ended : BOOLEAN, seen : Nat]
RequestRow == [at : {"deploying"}, c : Checklist, order : Deployments!Order,
               old : SUBSET Deployments!Assignment, seen : Nat]

DeploymentTypes ==
    /\ keyed \in BOOLEAN
    /\ deployments \in Seq(DeploymentRow)
    /\ Len(deployments) <= MaxDeployments
    /\ open \subseteq Deployments!Assignment
    /\ DOMAIN submitted \subseteq Deployments!Assignment \ open
    /\ submitted \in [DOMAIN submitted -> Deployments!Submission]
    /\ \A a \in Deployments!Rows : a.deployment \in DOMAIN deployments
    /\ request \in [Request -> {Deployments!Idle} \cup RequestRow]

\* The checklist that an assignment is of.
ChecklistOf(a) == deployments[a.deployment].checklist

\* Whether an order asks for an assignment.
Asks(o, a) == a.employee \in o.targets /\ a.day \in o.from .. o.to

\* The rows that a request deletes are of its checklist, and what it has not read
\* was made since it has.
ReadBefore ==
    \A r \in Request : request[r] \in RequestRow =>
        LET q == request[r]
        IN  /\ q.seen <= Len(deployments)
            /\ \A a \in q.old : a.deployment \in DOMAIN deployments /\ ChecklistOf(a) = q.c
            /\ \A a \in open :
                  /\ ChecklistOf(a) = q.c /\ Asks(q.order, a) /\ a.deployment <= q.seen
                  => a \in q.old

\* A deployment of a checklist after which there is no other.
IsLatest(c, d) ==
    /\ d \in Deployments!DeploymentsOf(c)
    /\ \A n \in Deployments!DeploymentsOf(c) : n <= d

\* All it asked for is there.
Covered(c, d) ==
    \A e \in deployments[d].order.targets,
       day \in deployments[d].order.from .. deployments[d].order.to :
        \E a \in Deployments!Rows : ChecklistOf(a) = c /\ a.employee = e /\ a.day = day

LatestCovered ==
    \A c \in Checklist : Deployments!DeploymentsOf(c) # {} =>
        \E d \in Deployments!DeploymentsOf(c) : IsLatest(c, d) /\ Covered(c, d)

DeploymentInv == DeploymentTypes /\ ReadBefore /\ Deployments!AskedOnce /\ LatestCovered

LEMMA DeploymentStart == Deployments!Init => DeploymentInv
<1> SUFFICES ASSUME Deployments!Init PROVE DeploymentInv
  OBVIOUS
<1> USE DEF Deployments!Init
<1>1. DOMAIN submitted = {} /\ Deployments!Rows = {}
  BY DEF Deployments!Rows
<1>2. submitted \in [DOMAIN submitted -> Deployments!Submission]
  BY <1>1
<1>3. \A r \in Request : request[r] \notin RequestRow
  BY DEF RequestRow, Deployments!Idle
<1>4. DeploymentTypes
  BY <1>1, <1>2, DocumentsAssumption DEF DeploymentTypes, Deployments!ChecklistAssumption
<1>5. LatestCovered
  BY DEF LatestCovered, Deployments!DeploymentsOf
<1>6. Deployments!AskedOnce
  BY DEF Deployments!AskedOnce
<1> QED BY <1>3, <1>4, <1>5, <1>6 DEF DeploymentInv, ReadBefore

\* Deploy adds a deployment at the end and changes only whether others are ended.
LEMMA DeploymentAdded ==
    ASSUME DeploymentTypes, Len(deployments) < MaxDeployments,
           NEW c \in Checklist, NEW o \in Deployments!Order,
           NEW old \in SUBSET Deployments!Assignment, NEW seen \in Nat,
           Deployments!Deploy(c, o, old, seen)
    PROVE  /\ deployments' \in Seq(DeploymentRow)
           /\ Len(deployments') = Len(deployments) + 1
           /\ Len(deployments') <= MaxDeployments
           /\ \A d \in DOMAIN deployments :
                 /\ d \in DOMAIN deployments'
                 /\ deployments'[d].checklist = deployments[d].checklist
                 /\ deployments'[d].order = deployments[d].order
                 /\ deployments'[d].seen = deployments[d].seen
           /\ deployments'[Len(deployments) + 1].checklist = c
           /\ deployments'[Len(deployments) + 1].order = o
           /\ deployments'[Len(deployments) + 1].seen = seen
           /\ DOMAIN deployments' = DOMAIN deployments \cup {Len(deployments) + 1}
<1> DEFINE new == [checklist |-> c, order |-> o, ended |-> FALSE, seen |-> seen]
<1>1. PICK ended \in SUBSET (DOMAIN deployments) :
          deployments' = Append([d \in DOMAIN deployments |->
              IF d \in ended THEN [deployments[d] EXCEPT !.ended = TRUE]
              ELSE deployments[d]], new)
  BY DEF Deployments!Deploy
<1> DEFINE kept == [d \in DOMAIN deployments |->
              IF d \in ended THEN [deployments[d] EXCEPT !.ended = TRUE]
              ELSE deployments[d]]
<1>2. \A d \in DOMAIN deployments :
          /\ kept[d] \in DeploymentRow
          /\ kept[d].checklist = deployments[d].checklist
          /\ kept[d].order = deployments[d].order
          /\ kept[d].seen = deployments[d].seen
  <2> SUFFICES ASSUME NEW d \in DOMAIN deployments
               PROVE  /\ kept[d] \in DeploymentRow
                      /\ kept[d].checklist = deployments[d].checklist
                      /\ kept[d].order = deployments[d].order
                      /\ kept[d].seen = deployments[d].seen
    OBVIOUS
  <2>1. deployments[d] \in DeploymentRow
    BY DEF DeploymentTypes
  <2>2. CASE d \in ended
    <3>1. kept[d] = [deployments[d] EXCEPT !.ended = TRUE]
      BY <2>2
    <3> QED BY <2>1, <3>1 DEF DeploymentRow
  <2>3. CASE d \notin ended
    BY <2>1, <2>3
  <2> QED BY <2>2, <2>3
<1>3. DOMAIN kept = 1..Len(deployments) /\ Len(deployments) \in Nat
  BY DEF DeploymentTypes
<1>4. new \in DeploymentRow
  BY DEF DeploymentRow
<1>5. kept \in Seq(DeploymentRow) /\ Len(kept) = Len(deployments)
  BY <1>2, <1>3
<1> HIDE DEF kept, new
<1>6. deployments' = Append(kept, new)
  BY <1>1 DEF kept
<1>7. /\ deployments' \in Seq(DeploymentRow)
      /\ Len(deployments') = Len(deployments) + 1
      /\ deployments'[Len(deployments) + 1] = new
      /\ \A d \in 1..Len(deployments) : deployments'[d] = kept[d]
      /\ DOMAIN deployments' = 1..(Len(deployments) + 1)
  BY <1>4, <1>5, <1>6
<1>8. MaxDeployments \in Nat
  BY DocumentsAssumption DEF Deployments!ChecklistAssumption
<1>9. DOMAIN deployments = 1..Len(deployments)
  BY DEF DeploymentTypes
<1> QED BY <1>2, <1>3, <1>7, <1>8, <1>9 DEF new

\* What createMany adds is of the new deployment.
LEMMA NewRowsOf ==
    ASSUME NEW c, NEW o, NEW kept, NEW a \in Deployments!NewRows(c, o, kept)
    PROVE  /\ a \in Deployments!Assignment
           /\ a.deployment = Len(deployments) + 1
           /\ Asks(o, a)
BY DEF Deployments!NewRows, Asks

\* The rows after a deployment: those that were there, without the old ones, and
\* new ones of the new deployment.
LEMMA RowsAfterDeploy ==
    ASSUME NEW c, NEW o, NEW old, NEW seen, Deployments!Deploy(c, o, old, seen)
    PROVE  /\ UNCHANGED submitted
           /\ \A a \in open' : \/ a \in open \ old
                               \/ /\ a \in Deployments!Assignment
                                  /\ a.deployment = Len(deployments) + 1
                                  /\ Asks(o, a)
BY NewRowsOf DEF Deployments!Deploy

LEMMA DeploymentTyped ==
    ASSUME DeploymentTypes, Len(deployments) < MaxDeployments,
           NEW c \in Checklist, NEW o \in Deployments!Order,
           NEW old \in SUBSET Deployments!Assignment, NEW seen \in Nat,
           Deployments!Deploy(c, o, old, seen), UNCHANGED keyed,
           request' \in [Request -> {Deployments!Idle} \cup RequestRow]
    PROVE  DeploymentTypes'
<1>1. /\ UNCHANGED submitted
      /\ \A a \in open' : \/ a \in open \ old
                          \/ /\ a \in Deployments!Assignment
                             /\ a.deployment = Len(deployments) + 1
  BY RowsAfterDeploy
<1>2. /\ deployments' \in Seq(DeploymentRow)
      /\ Len(deployments') <= MaxDeployments
      /\ DOMAIN deployments' = DOMAIN deployments \cup {Len(deployments) + 1}
  BY DeploymentAdded
<1>3. DOMAIN deployments = 1..Len(deployments) /\ Len(deployments) \in Nat
  BY DEF DeploymentTypes
<1>4. DOMAIN submitted' \subseteq Deployments!Assignment \ open'
  BY <1>1, <1>3 DEF DeploymentTypes, Deployments!Rows
<1>5. \A a \in open' \cup DOMAIN submitted : a.deployment \in DOMAIN deployments'
  BY <1>1, <1>2 DEF DeploymentTypes, Deployments!Rows
<1> QED BY <1>1, <1>2, <1>4, <1>5 DEF DeploymentTypes, Deployments!Rows

\* Whatever it reads before, a deployment keeps what other requests have read true.
LEMMA DeployKeepsReads ==
    ASSUME DeploymentInv, Len(deployments) < MaxDeployments,
           NEW c \in Checklist, NEW o \in Deployments!Order,
           NEW old \in SUBSET Deployments!Assignment, NEW seen \in Nat,
           Deployments!Deploy(c, o, old, seen), UNCHANGED keyed,
           \A r \in Request : request'[r] = request[r] \/ request'[r] = Deployments!Idle
    PROVE  ReadBefore'
<1> SUFFICES ASSUME NEW r \in Request, request'[r] \in RequestRow
             PROVE  LET q == request[r]
                    IN  /\ q.seen <= Len(deployments')
                        /\ \A a \in q.old : a.deployment \in DOMAIN deployments'
                              /\ deployments'[a.deployment].checklist = q.c
                        /\ \A a \in open' :
                              /\ deployments'[a.deployment].checklist = q.c
                              /\ Asks(q.order, a) /\ a.deployment <= q.seen
                              => a \in q.old
  BY DEF ReadBefore, ChecklistOf, RequestRow, Deployments!Idle, Asks
<1>1. request'[r] = request[r] /\ request[r] \in RequestRow
  BY DEF RequestRow, Deployments!Idle
<1> DEFINE q == request[r]
<1>2. /\ q.seen <= Len(deployments) /\ q.seen \in Nat
      /\ \A a \in q.old : a.deployment \in DOMAIN deployments /\ ChecklistOf(a) = q.c
      /\ \A a \in open :
            /\ ChecklistOf(a) = q.c /\ Asks(q.order, a) /\ a.deployment <= q.seen
            => a \in q.old
  BY <1>1 DEF DeploymentInv, ReadBefore, RequestRow
<1> HIDE DEF q
<1>3. Len(deployments) \in Nat
  BY DEF DeploymentInv, DeploymentTypes
<1>4. /\ Len(deployments') = Len(deployments) + 1
      /\ \A d \in DOMAIN deployments :
            /\ d \in DOMAIN deployments'
            /\ deployments'[d].checklist = deployments[d].checklist
  BY DeploymentAdded DEF DeploymentInv
<1>5. \A a \in open' : a \in open \/ a.deployment = Len(deployments) + 1
  BY RowsAfterDeploy DEF DeploymentInv
<1>6. \A a \in open : a.deployment \in DOMAIN deployments
  BY DEF DeploymentInv, DeploymentTypes, Deployments!Rows
<1> QED BY <1>2, <1>3, <1>4, <1>5, <1>6 DEF q, ChecklistOf

\* Nobody is asked twice, except by who has not seen the earlier deployment.
LEMMA DeployAsksOnce ==
    ASSUME DeploymentInv, Len(deployments) < MaxDeployments,
           NEW c \in Checklist, NEW o \in Deployments!Order,
           NEW old \in SUBSET Deployments!Assignment, NEW seen \in Nat,
           Deployments!Deploy(c, o, old, seen), UNCHANGED keyed,
           \A a \in open : ChecklistOf(a) = c /\ Asks(o, a) /\ a.deployment <= seen => a \in old
    PROVE  Deployments!AskedOnce'
<1>0. PICK n : n = Len(deployments) + 1
  OBVIOUS
<1>1. /\ Len(deployments) \in Nat
      /\ DOMAIN deployments = 1..Len(deployments)
      /\ \A a \in open : a.deployment \in DOMAIN deployments
  BY DEF DeploymentInv, DeploymentTypes, Deployments!Rows
<1>2. /\ \A d \in DOMAIN deployments :
            /\ deployments'[d].checklist = deployments[d].checklist
            /\ deployments'[d].seen = deployments[d].seen
      /\ deployments'[n].checklist = c /\ deployments'[n].seen = seen
  BY <1>0, DeploymentAdded DEF DeploymentInv
<1>3. \A a \in open' : \/ a \in open \ old
                       \/ a.deployment = n /\ Asks(o, a)
  <2>1. \A a \in open' : \/ a \in open \ old
                         \/ a.deployment = Len(deployments) + 1 /\ Asks(o, a)
    BY RowsAfterDeploy
  <2> QED BY <1>0, <2>1
<1> SUFFICES ASSUME NEW a \in open', NEW b \in open',
                    a.employee = b.employee, a.day = b.day, a.deployment < b.deployment,
                    deployments'[a.deployment].checklist = deployments'[b.deployment].checklist
             PROVE  deployments'[b.deployment].seen < a.deployment
  BY DEF Deployments!AskedOnce
<1>4. a \in open \ old
  BY <1>0, <1>1, <1>3
<1>5. CASE b \in open
  BY <1>1, <1>2, <1>4, <1>5 DEF DeploymentInv, Deployments!AskedOnce
<1>6. CASE b \notin open
  <2>1. b.deployment = n /\ Asks(o, b)
    BY <1>3, <1>6
  <2>2. Asks(o, a) /\ ChecklistOf(a) = c
    BY <1>1, <1>2, <1>4, <2>1 DEF Asks, ChecklistOf
  <2>3. ~ (a.deployment <= seen)
    BY <1>4, <2>2
  <2> QED BY <1>0, <1>1, <1>2, <1>4, <2>1, <2>3
<1> QED BY <1>5, <1>6

\* Its targets have their assignments, and those of other checklists keep theirs.
LEMMA DeployCovers ==
    ASSUME DeploymentInv, Len(deployments) < MaxDeployments,
           NEW c \in Checklist, NEW o \in Deployments!Order,
           NEW old \in SUBSET Deployments!Assignment, NEW seen \in Nat,
           Deployments!Deploy(c, o, old, seen), UNCHANGED keyed,
           \A a \in old : ChecklistOf(a) = c
    PROVE  LatestCovered'
<1>0. PICK n : n = Len(deployments) + 1
  OBVIOUS
<1> DEFINE left == open \ old
           new == Deployments!NewRows(c, o, left \cup DOMAIN submitted)
<1>1. /\ Len(deployments) \in Nat
      /\ DOMAIN deployments = 1..Len(deployments)
      /\ \A a \in Deployments!Rows : a.deployment \in DOMAIN deployments
  BY DEF DeploymentInv, DeploymentTypes
<1>2. /\ \A d \in DOMAIN deployments :
            /\ deployments'[d].checklist = deployments[d].checklist
            /\ deployments'[d].order = deployments[d].order
      /\ deployments'[n].checklist = c /\ deployments'[n].order = o
      /\ DOMAIN deployments' = DOMAIN deployments \cup {n}
      /\ Len(deployments') <= MaxDeployments /\ Len(deployments') = n
  BY <1>0, DeploymentAdded DEF DeploymentInv
<1>3. /\ UNCHANGED submitted /\ open' = left \cup new
      /\ \A a \in new : a.deployment = n
  <2>1. /\ UNCHANGED submitted /\ open' = left \cup new
        /\ \A a \in new : a.deployment = Len(deployments) + 1
    BY NewRowsOf DEF Deployments!Deploy
  <2> HIDE DEF left, new
  <2> QED BY <1>0, <2>1
<1>4. Deployments!Rows' = left \cup new \cup DOMAIN submitted
  BY <1>3 DEF Deployments!Rows
<1>5. n \in Deployments!Deployment
  BY <1>0, <1>1, <1>2, DocumentsAssumption
  DEF Deployments!Deployment, Deployments!ChecklistAssumption
<1>6. ASSUME NEW e \in o.targets, NEW day \in o.from .. o.to
      PROVE  \E a \in Deployments!Rows' :
                /\ deployments'[a.deployment].checklist = c
                /\ a.employee = e /\ a.day = day
  <2> DEFINE a == [deployment |-> n, employee |-> e, day |-> day]
  <2>1. a \in Deployments!Assignment
    BY <1>5, DocumentsAssumption
    DEF Deployments!Assignment, Deployments!Order, Deployments!Day,
        Deployments!ChecklistAssumption
  <2>2. CASE a \in new
    BY <1>2, <1>4, <2>2
  <2>3. CASE a \notin new
    <3>1. PICK b \in Deployments!RowsOf(c, left \cup DOMAIN submitted) :
              b.employee = e /\ b.day = day
      BY <1>0, <2>1, <2>3 DEF Deployments!NewRows
    <3>2. b \in Deployments!Rows /\ b \in Deployments!Rows' /\ ChecklistOf(b) = c
      BY <1>4 DEF Deployments!RowsOf, Deployments!Rows, ChecklistOf
    <3> QED BY <1>1, <1>2, <3>1, <3>2 DEF ChecklistOf
  <2> QED BY <2>2, <2>3
<1> HIDE DEF left, new
<1> SUFFICES ASSUME NEW k \in Checklist, Deployments!DeploymentsOf(k)' # {}
             PROVE  \E d \in Deployments!DeploymentsOf(k)' :
                      IsLatest(k, d)' /\ Covered(k, d)'
  BY DEF LatestCovered
<1>7. CASE k = c
  <2>1. n \in Deployments!DeploymentsOf(k)' /\ IsLatest(k, n)'
    BY <1>0, <1>1, <1>2, <1>7 DEF IsLatest, Deployments!DeploymentsOf
  <2>2. Covered(k, n)'
    BY <1>2, <1>6, <1>7 DEF Covered, ChecklistOf
  <2> QED BY <2>1, <2>2
<1>8. CASE k # c
  <2>1. Deployments!DeploymentsOf(k)' = Deployments!DeploymentsOf(k)
    BY <1>0, <1>1, <1>2, <1>8 DEF Deployments!DeploymentsOf
  <2>2. PICK d \in Deployments!DeploymentsOf(k) : IsLatest(k, d) /\ Covered(k, d)
    BY <2>1 DEF DeploymentInv, LatestCovered
  <2>3. IsLatest(k, d)' /\ deployments'[d].order = deployments[d].order
    BY <1>2, <2>1, <2>2 DEF IsLatest, Deployments!DeploymentsOf
  <2>4. \A a \in Deployments!Rows : ChecklistOf(a) = k =>
            a \in Deployments!Rows' /\ deployments'[a.deployment].checklist = k
    BY <1>1, <1>2, <1>4, <1>8 DEF Deployments!Rows, ChecklistOf, left
  <2>5. Covered(k, d)'
    BY <2>2, <2>3, <2>4 DEF Covered, ChecklistOf
  <2> QED BY <2>1, <2>2, <2>3, <2>5
<1> QED BY <1>7, <1>8

LEMMA DeployKeeps ==
    ASSUME DeploymentInv, Len(deployments) < MaxDeployments,
           NEW c \in Checklist, NEW o \in Deployments!Order,
           NEW old \in SUBSET Deployments!Assignment, NEW seen \in Nat,
           Deployments!Deploy(c, o, old, seen), UNCHANGED keyed,
           \A a \in old : ChecklistOf(a) = c,
           \A a \in open : ChecklistOf(a) = c /\ Asks(o, a) /\ a.deployment <= seen => a \in old,
           \A r \in Request : request'[r] = request[r] \/ request'[r] = Deployments!Idle,
           request' \in [Request -> {Deployments!Idle} \cup RequestRow]
    PROVE  DeploymentInv'
<1>1. DeploymentTypes'
  BY DeploymentTyped DEF DeploymentInv
<1> QED BY <1>1, DeployKeepsReads, DeployAsksOnce, DeployCovers DEF DeploymentInv

LEMMA CreateDeployment ==
    ASSUME DeploymentInv, NEW c \in Checklist, NEW o \in Deployments!Order,
           Deployments!CreateAndDeploy(c, o)
    PROVE  DeploymentInv'
<1>1. /\ Len(deployments) < MaxDeployments
      /\ Deployments!Deploy(c, o, {}, Len(deployments))
      /\ UNCHANGED <<keyed, request>>
      /\ \A d \in DOMAIN deployments : deployments[d].checklist # c
  BY DEF Deployments!CreateAndDeploy, Deployments!MoreDeployments
<1>2. /\ Len(deployments) \in Nat
      /\ \A a \in open : ChecklistOf(a) # c
      /\ request \in [Request -> {Deployments!Idle} \cup RequestRow]
  BY <1>1 DEF DeploymentInv, DeploymentTypes, Deployments!Rows, ChecklistOf
<1> QED BY <1>1, <1>2, DeployKeeps

LEMMA OpenDeployment ==
    ASSUME DeploymentInv, NEW r \in Request, NEW c \in Checklist,
           NEW o \in Deployments!Order, Deployments!DeployOpen(r, c, o)
    PROVE  DeploymentInv'
<1> DEFINE q == [at |-> "deploying", c |-> c, order |-> o,
                 old |-> Deployments!Overlapping(c, o), seen |-> Len(deployments)]
<1>1. request' = [request EXCEPT ![r] = q] /\ UNCHANGED <<keyed, deployments, open, submitted>>
  BY DEF Deployments!DeployOpen, Deployments!work
<1>2. /\ Deployments!Overlapping(c, o) = {a \in open : ChecklistOf(a) = c /\ Asks(o, a)}
      /\ open \subseteq Deployments!Assignment
      /\ \A a \in open : a.deployment \in DOMAIN deployments
      /\ Len(deployments) \in Nat
  BY DEF Deployments!Overlapping, Deployments!RowsOf, ChecklistOf, Asks, DeploymentInv,
         DeploymentTypes, Deployments!Rows
<1>3. q \in RequestRow
  BY <1>2 DEF RequestRow
<1>4. /\ q.c = c /\ q.order = o /\ q.seen = Len(deployments)
      /\ q.old = {a \in open : ChecklistOf(a) = c /\ Asks(o, a)}
  BY <1>2
<1> HIDE DEF q
<1>5. request'[r] = q /\ \A p \in Request \ {r} : request'[p] = request[p]
  BY <1>1 DEF DeploymentInv, DeploymentTypes
<1>6. DeploymentTypes'
  BY <1>1, <1>3 DEF DeploymentInv, DeploymentTypes, Deployments!Rows
<1>7. ReadBefore'
  BY <1>1, <1>2, <1>4, <1>5 DEF DeploymentInv, ReadBefore, ChecklistOf
<1>8. Deployments!AskedOnce' /\ LatestCovered'
  BY <1>1 DEF DeploymentInv, Deployments!AskedOnce, LatestCovered, IsLatest, Covered, ChecklistOf,
              Deployments!DeploymentsOf, Deployments!RowsOf, Deployments!Rows
<1> QED BY <1>6, <1>7, <1>8 DEF DeploymentInv

LEMMA CommitDeployment ==
    ASSUME DeploymentInv, NEW r \in Request, Deployments!DeployCommit(r)
    PROVE  DeploymentInv'
<1> DEFINE q == request[r]
<1>1. /\ q.at = "deploying" /\ Len(deployments) < MaxDeployments
      /\ Deployments!Deploy(q.c, q.order, q.old, q.seen)
      /\ request' = [request EXCEPT ![r] = Deployments!Idle]
      /\ UNCHANGED keyed
  BY DEF Deployments!DeployCommit, Deployments!MoreDeployments
<1>2. q \in RequestRow
  BY <1>1 DEF DeploymentInv, DeploymentTypes, Deployments!Idle
<1>3. /\ q.c \in Checklist /\ q.order \in Deployments!Order
      /\ q.old \in SUBSET Deployments!Assignment /\ q.seen \in Nat
  BY <1>2 DEF RequestRow
<1>4. /\ \A a \in q.old : ChecklistOf(a) = q.c
      /\ \A a \in open :
            ChecklistOf(a) = q.c /\ Asks(q.order, a) /\ a.deployment <= q.seen => a \in q.old
  BY <1>2 DEF DeploymentInv, ReadBefore
<1>5. /\ request' \in [Request -> {Deployments!Idle} \cup RequestRow]
      /\ \A p \in Request : request'[p] = request[p] \/ request'[p] = Deployments!Idle
  BY <1>1 DEF DeploymentInv, DeploymentTypes
<1> HIDE DEF q
<1> QED BY <1>1, <1>3, <1>4, <1>5, DeployKeeps

LEMMA FailsDeployment ==
    ASSUME DeploymentInv, NEW r \in Request, Deployments!DeployFails(r)
    PROVE  DeploymentInv'
<1>1. /\ request' = [request EXCEPT ![r] = Deployments!Idle]
      /\ UNCHANGED <<keyed, deployments, open, submitted>>
  BY DEF Deployments!DeployFails, Deployments!work
<1>2. /\ request' \in [Request -> {Deployments!Idle} \cup RequestRow]
      /\ \A p \in Request : request'[p] = request[p] \/ request'[p] = Deployments!Idle
      /\ Deployments!Idle \notin RequestRow
  BY <1>1 DEF DeploymentInv, DeploymentTypes, Deployments!Idle, RequestRow
<1>3. DeploymentTypes'
  BY <1>1, <1>2 DEF DeploymentInv, DeploymentTypes, Deployments!Rows
<1>4. ReadBefore'
  BY <1>1, <1>2 DEF DeploymentInv, ReadBefore, ChecklistOf
<1>5. Deployments!AskedOnce' /\ LatestCovered'
  BY <1>1 DEF DeploymentInv, Deployments!AskedOnce, LatestCovered, IsLatest, Covered, ChecklistOf,
              Deployments!DeploymentsOf, Deployments!RowsOf, Deployments!Rows
<1> QED BY <1>3, <1>4, <1>5 DEF DeploymentInv

\* A review or an answer leaves the same rows, and nobody who was not asked.
LEMMA RowsStay ==
    ASSUME DeploymentInv, UNCHANGED <<keyed, deployments, request>>,
           Deployments!Rows' = Deployments!Rows, open' \subseteq open,
           DOMAIN submitted' \subseteq Deployments!Assignment \ open',
           submitted' \in [DOMAIN submitted' -> Deployments!Submission]
    PROVE  DeploymentInv'
<1>1. DeploymentTypes'
  BY DEF DeploymentInv, DeploymentTypes
<1>2. ReadBefore'
  BY DEF DeploymentInv, ReadBefore, ChecklistOf
<1>3. Deployments!AskedOnce'
  BY DEF DeploymentInv, Deployments!AskedOnce
<1>4. LatestCovered'
  BY DEF DeploymentInv, LatestCovered, IsLatest, Covered, ChecklistOf, Deployments!DeploymentsOf, Deployments!RowsOf
<1> QED BY <1>1, <1>2, <1>3, <1>4 DEF DeploymentInv

LEMMA ReviewDeployment ==
    ASSUME DeploymentInv, NEW a \in DOMAIN submitted, NEW review \in Deployments!Review,
           Deployments!ReviewSubmission(a, review)
    PROVE  DeploymentInv'
<1>1. /\ submitted' = [submitted EXCEPT ![a].review =
                          Deployments!Normalized(submitted[a].x, review)]
      /\ UNCHANGED <<keyed, deployments, open, request>>
  BY DEF Deployments!ReviewSubmission
<1>2. Deployments!Normalized(submitted[a].x, review) \in Deployments!Review
  BY DEF Deployments!Normalized, Deployments!Review
<1>3. submitted' \in [DOMAIN submitted -> Deployments!Submission]
  BY <1>1, <1>2 DEF DeploymentInv, DeploymentTypes, Deployments!Submission
<1>4. DOMAIN submitted' = DOMAIN submitted
  BY <1>3
<1> QED BY <1>1, <1>3, <1>4, RowsStay DEF DeploymentInv, DeploymentTypes, Deployments!Rows

LEMMA SubmitDeployment ==
    ASSUME DeploymentInv, NEW a \in open, NEW x \in {0, 1}, Deployments!Submit(a, x)
    PROVE  DeploymentInv'
<1>1. /\ open' = open \ {a}
      /\ submitted' = [b \in DOMAIN submitted \cup {a} |->
                         IF b = a THEN [x |-> x, review |-> "PENDING"] ELSE submitted[b]]
      /\ UNCHANGED <<keyed, deployments, request>>
  BY DEF Deployments!Submit
<1>2. DOMAIN submitted' = DOMAIN submitted \cup {a}
  BY <1>1
<1>3. submitted' \in [DOMAIN submitted \cup {a} -> Deployments!Submission]
  BY <1>1 DEF DeploymentInv, DeploymentTypes, Deployments!Submission, Deployments!Review
<1>4. DOMAIN submitted' \subseteq Deployments!Assignment \ open'
  BY <1>1, <1>2 DEF DeploymentInv, DeploymentTypes
<1>5. Deployments!Rows' = Deployments!Rows
  BY <1>1, <1>2 DEF Deployments!Rows
<1>6. submitted' \in [DOMAIN submitted' -> Deployments!Submission] /\ open' \subseteq open
  BY <1>1, <1>2, <1>3
<1>7. UNCHANGED <<keyed, deployments, request>>
  BY <1>1
<1> QED BY <1>4, <1>5, <1>6, <1>7, RowsStay

LEMMA DeploymentStep ==
    DeploymentInv /\ [Deployments!Next]_(Deployments!vars) => DeploymentInv'
<1>1. ASSUME DeploymentInv, UNCHANGED Deployments!vars PROVE DeploymentInv'
  <2>1. UNCHANGED <<keyed, deployments, open, submitted, request>>
    BY <1>1 DEF Deployments!vars, Deployments!work
  <2> QED BY <1>1, <2>1, RowsStay DEF DeploymentInv, DeploymentTypes, Deployments!Rows
<1> QED
  BY <1>1, CreateDeployment, OpenDeployment, CommitDeployment, FailsDeployment,
     ReviewDeployment, SubmitDeployment
  DEF Deployments!Next

\* The types of deployments, assignments and submissions.
THEOREM DeploymentsTyped == Deployments!Spec => []Deployments!TypeOK
<1>1. DeploymentInv => Deployments!TypeOK
  BY DEF DeploymentInv, DeploymentTypes, Deployments!TypeOK
<1> QED BY <1>1, DeploymentStart, DeploymentStep, PTL DEF Deployments!Spec

\* createDeploymentAndAssignments: whoever is asked twice for a day is asked by two
\* deployments of which the later was made without seeing the earlier.
THEOREM WorkersAskedOnce == Deployments!Spec => []Deployments!AskedOnce
<1>1. DeploymentInv => Deployments!AskedOnce
  BY DEF DeploymentInv
<1> QED BY <1>1, DeploymentStart, DeploymentStep, PTL DEF Deployments!Spec

\* Every target of the latest deployment of a checklist has an assignment for each of
\* its days, whether or not the unique key skips rows.
THEOREM LatestReachesAll == Deployments!Spec => []Deployments!EveryDayCovered
<1>1. DeploymentInv => Deployments!EveryDayCovered
  <2> SUFFICES ASSUME DeploymentInv, NEW c \in Checklist, Deployments!DeploymentsOf(c) # {}
               PROVE  LET o == deployments[Deployments!Latest(c)].order
                      IN  \A e \in o.targets, day \in o.from .. o.to :
                            \E a \in Deployments!RowsOf(c, Deployments!Rows) :
                                a.employee = e /\ a.day = day
    BY DEF Deployments!EveryDayCovered
  <2>1. PICK d \in Deployments!DeploymentsOf(c) : IsLatest(c, d) /\ Covered(c, d)
    BY DEF DeploymentInv, LatestCovered
  <2>2. Deployments!DeploymentsOf(c) \subseteq Int
    BY DEF Deployments!DeploymentsOf, DeploymentInv, DeploymentTypes
  <2>3. Deployments!Latest(c) \in Deployments!DeploymentsOf(c)
        /\ \A n \in Deployments!DeploymentsOf(c) : n <= Deployments!Latest(c)
    BY <2>1 DEF Deployments!Latest, IsLatest
  <2>4. Deployments!Latest(c) = d
    BY <2>1, <2>2, <2>3 DEF IsLatest
  <2> QED BY <2>1, <2>4 DEF Covered, ChecklistOf, Deployments!RowsOf
<1> QED BY <1>1, DeploymentStart, DeploymentStep, PTL DEF Deployments!Spec

-----------------------------------------------------------------------------
(* What the reports on the checklists count.  *)

\* A review never says of a submission what its answers rule out.
Reviewed ==
    \A a \in DOMAIN submitted :
        submitted[a].review \in IF submitted[a].x = 0 THEN {"PENDING", "CONFIRMED"}
                                ELSE Deployments!Review \ {"CONFIRMED"}

LEMMA ReviewedStep ==
  ASSUME DeploymentInv, Reviewed, [Deployments!Next]_(Deployments!vars)
  PROVE  Reviewed'
<1>1. ASSUME NEW a \in DOMAIN submitted, NEW review \in Deployments!Review,
             Deployments!ReviewSubmission(a, review)
      PROVE  Reviewed'
  <2> DEFINE new == Deployments!Normalized(submitted[a].x, review)
  <2>1. /\ submitted' = [submitted EXCEPT ![a].review = new]
        /\ submitted \in [DOMAIN submitted -> Deployments!Submission]
    BY <1>1 DEF Deployments!ReviewSubmission, DeploymentInv, DeploymentTypes
  <2>2. new \in IF submitted[a].x = 0 THEN {"PENDING", "CONFIRMED"}
                ELSE Deployments!Review \ {"CONFIRMED"}
    BY DEF Deployments!Normalized, Deployments!Review
  <2> HIDE DEF new
  <2>3. /\ DOMAIN submitted' = DOMAIN submitted
        /\ submitted'[a].x = submitted[a].x /\ submitted'[a].review = new
        /\ \A b \in DOMAIN submitted \ {a} : submitted'[b] = submitted[b]
    BY <2>1 DEF Deployments!Submission
  <2> QED BY <2>2, <2>3 DEF Reviewed
<1>2. ASSUME NEW a \in open, NEW x \in {0, 1}, Deployments!Submit(a, x)
      PROVE  Reviewed'
  BY <1>2 DEF Deployments!Submit, Reviewed, Deployments!Review
<1>3. ASSUME UNCHANGED submitted PROVE Reviewed'
  BY <1>3 DEF Reviewed
<1>4. ASSUME NEW c, NEW o, Deployments!CreateAndDeploy(c, o) PROVE UNCHANGED submitted
  BY <1>4 DEF Deployments!CreateAndDeploy, Deployments!Deploy
<1>5. ASSUME NEW r, NEW c, NEW o, Deployments!DeployOpen(r, c, o) PROVE UNCHANGED submitted
  BY <1>5 DEF Deployments!DeployOpen, Deployments!work
<1>6. ASSUME NEW r, Deployments!DeployCommit(r) PROVE UNCHANGED submitted
  BY <1>6 DEF Deployments!DeployCommit, Deployments!Deploy
<1>7. ASSUME NEW r, Deployments!DeployFails(r) PROVE UNCHANGED submitted
  BY <1>7 DEF Deployments!DeployFails, Deployments!work
<1>8. ASSUME UNCHANGED Deployments!vars PROVE UNCHANGED submitted
  BY <1>8 DEF Deployments!vars, Deployments!work
<1> QED BY <1>1, <1>2, <1>3, <1>4, <1>5, <1>6, <1>7, <1>8 DEF Deployments!Next

LEMMA CountsAssignments ==
  /\ \A S : Deployments!Cardinality(S) = Cardinality(S)
  /\ \A S : Deployments!IsFiniteSet(S) <=> IsFiniteSet(S)
BY DEF Deployments!Cardinality, Cardinality, Deployments!IsFiniteSet, IsFiniteSet

LEMMA FinitelyManyAssignments == IsFiniteSet(Deployments!Assignment)
<1> DEFINE pairs == Employee \X Deployments!Day
           triples == Deployments!Deployment \X pairs
           row(p) == [deployment |-> p[1], employee |-> p[2][1], day |-> p[2][2]]
           f == [p \in triples |-> row(p)]
<1>1. IsFiniteSet(Employee)
  BY DocumentsAssumption, CountsAssignments DEF Deployments!ChecklistAssumption
<1>2. IsFiniteSet(Deployments!Day) /\ IsFiniteSet(Deployments!Deployment)
  BY DocumentsAssumption, FS_Interval DEF Deployments!ChecklistAssumption, Deployments!Day, Deployments!Deployment
<1>3. IsFiniteSet(pairs)
  BY <1>1, <1>2, FS_Product
<1> HIDE DEF pairs
<1>4. IsFiniteSet(triples)
  BY <1>2, <1>3, FS_Product
<1>5. \A a \in Deployments!Assignment :
        LET p == <<a.deployment, <<a.employee, a.day>>>>
        IN  p \in triples /\ row(p) = a
  BY DEF Deployments!Assignment, pairs
<1>6. \A p \in triples : row(p) \in Deployments!Assignment
  BY DEF Deployments!Assignment, pairs
<1>7. f \in Surjection(triples, Deployments!Assignment)
  <2>1. f \in [triples -> Deployments!Assignment]
    BY <1>6
  <2>2. \A a \in Deployments!Assignment : \E p \in triples : f[p] = a
    BY <1>5
  <2> HIDE DEF f, triples, row
  <2> QED BY <2>1, <2>2 DEF Surjection
<1> QED BY <1>4, <1>7, FS_Surjection

-----------------------------------------------------------------------------
(* Sums.  *)

\* Total adds up in the order in which CHOOSE takes the elements. A function that
\* satisfies the same equation is the one that is computed, by a smallest set on
\* which they would differ.
Any(s) == CHOOSE x \in s : TRUE
AddsUp(g, f, k, S) ==
    g = [s \in SUBSET S |-> IF s = {} THEN 0 ELSE f[Any(s)][k] + g[s \ {Any(s)}]]
Partial(f, k, S) == CHOOSE g : AddsUp(g, f, k, S)

LEMMA TotalIsPartial ==
  ASSUME NEW f, NEW k
  PROVE  Deployments!Total(f, k) = Partial(f, k, DOMAIN f)[DOMAIN f]
BY DEF Deployments!Total, Partial, AddsUp, Any

LEMMA TotalUnique ==
  ASSUME NEW f, NEW k, IsFiniteSet(DOMAIN f), NEW g, AddsUp(g, f, k, DOMAIN f)
  PROVE  Deployments!Total(f, k) = g[DOMAIN f]
<1> DEFINE S == DOMAIN f
           h == Partial(f, k, S)
<1>1. AddsUp(h, f, k, S)
  BY DEF Partial
<1>2. IsFiniteSet(S)
  OBVIOUS
<1>3. AddsUp(g, f, k, S)
  OBVIOUS
<1>4. Deployments!Total(f, k) = h[S]
  BY TotalIsPartial
<1> HIDE DEF h, S
<1> DEFINE Different == {s \in SUBSET S : h[s] # g[s]}
<1>5. ASSUME Different # {} PROVE FALSE
  <2>1. FiniteSubsetsOf(S) = SUBSET S
    BY <1>2, FS_FiniteSubsetsOfFinite
  <2>2. IsWellFoundedOn(StrictSubsetOrdering(S), SUBSET S)
    BY <2>1, FS_StrictSubsetOrderingWellFounded
  <2>3. Different \subseteq SUBSET S
    OBVIOUS
  <2>4. PICK s \in Different :
              \A t \in Different : ~ (<<t, s>> \in StrictSubsetOrdering(S))
    BY <1>5, <2>2, <2>3, WFMin
  <2>5. s # {}
    BY <1>1, <1>3 DEF AddsUp
  <2>6. Any(s) \in s
    BY <2>5 DEF Any
  <2>7. s \ {Any(s)} \in SUBSET S /\ s \ {Any(s)} # s /\ s \ {Any(s)} \subseteq s
    BY <2>6
  <2>8. s \ {Any(s)} \notin Different
    BY <2>4, <2>7 DEF StrictSubsetOrdering
  <2>9. h[s \ {Any(s)}] = g[s \ {Any(s)}]
    BY <2>7, <2>8
  <2>10. /\ h[s] = f[Any(s)][k] + h[s \ {Any(s)}]
         /\ g[s] = f[Any(s)][k] + g[s \ {Any(s)}]
    BY <1>1, <1>3, <2>5 DEF AddsUp
  <2> QED BY <2>9, <2>10
<1>6. h[S] = g[S]
  BY <1>5
<1> QED BY <1>4, <1>6 DEF S

\* Disjoint parts of a finite set add up to it.
LEMMA TotalOfParts ==
  ASSUME NEW K, IsFiniteSet(K), NEW L, IsFiniteSet(L), NEW piece \in [K -> SUBSET L],
         \A i \in K : \A j \in K : i # j => piece[i] \cap piece[j] = {},
         \A l \in L : \E i \in K : l \in piece[i],
         NEW f, DOMAIN f = K, NEW k, \A i \in K : f[i][k] = Cardinality(piece[i])
  PROVE  Deployments!Total(f, k) = Cardinality(L)
<1> DEFINE In(s) == {l \in L : \E i \in s : l \in piece[i]}
           g == [s \in SUBSET K |-> Cardinality(In(s))]
<1>1. AddsUp(g, f, k, K)
  <2>1. ASSUME NEW s \in SUBSET K
        PROVE  g[s] = IF s = {} THEN 0 ELSE f[Any(s)][k] + g[s \ {Any(s)}]
    <3>1. CASE s = {}
      <4>1. In({}) = {} /\ Cardinality({}) = 0
        BY FS_EmptySet
      <4> QED BY <3>1, <4>1
    <3>2. CASE s # {}
      <4> DEFINE p == piece[Any(s)]
                 q == In(s \ {Any(s)})
      <4>1. Any(s) \in s /\ Any(s) \in K
        BY <3>2 DEF Any
      <4>2. In(s) = p \cup q /\ p \cap q = {}
        BY <4>1
      <4>3. p \in SUBSET L /\ q \in SUBSET L
        BY <4>1
      <4>4. g[s] = Cardinality(In(s)) /\ g[s \ {Any(s)}] = Cardinality(q)
            /\ f[Any(s)][k] = Cardinality(p)
        BY <4>1
      <4> HIDE DEF p, q, g, In
      <4>5. IsFiniteSet(p) /\ IsFiniteSet(q)
        BY <4>3, FS_Subset
      <4>6. Cardinality(p \cup q) = Cardinality(p) + Cardinality(q) - Cardinality(p \cap q)
        BY <4>5, FS_Union
      <4>7. Cardinality(p) \in Nat /\ Cardinality(q) \in Nat /\ Cardinality(p \cap q) = 0
        BY <4>2, <4>5, FS_CardinalityType, FS_EmptySet
      <4> DEFINE m == Cardinality(p)
                 n == Cardinality(q)
                 both == Cardinality(p \cap q)
      <4>8. Cardinality(p \cup q) = m + n - both /\ m \in Nat /\ n \in Nat /\ both = 0
        BY <4>6, <4>7
      <4> HIDE DEF m, n, both
      <4>9. Cardinality(p \cup q) = m + n
        BY <4>8
      <4> QED BY <3>2, <4>2, <4>4, <4>9 DEF m, n
    <3> QED BY <3>1, <3>2
  <2> QED BY <2>1 DEF AddsUp
<1>2. g[K] = Cardinality(L)
  <2>1. In(K) = L
    OBVIOUS
  <2> QED BY <2>1
<1> HIDE DEF g
<1> QED BY <1>1, <1>2, TotalUnique


-----------------------------------------------------------------------------
(* The counts of the reports.  *)

LEMMA RowsAreFinite ==
  ASSUME DeploymentInv, NEW S \in SUBSET Deployments!Rows
  PROVE  /\ IsFiniteSet(S) /\ Deployments!Count(S) = Cardinality(S)
         /\ Cardinality(S) \in Nat
<1>1. S \in SUBSET Deployments!Assignment
  BY DEF DeploymentInv, DeploymentTypes, Deployments!Rows
<1> QED BY <1>1, FinitelyManyAssignments, FS_Subset, FS_CardinalityType, CountsAssignments
        DEF Deployments!Count

\* Two disjoint sets of rows count together what they do one by one.
LEMMA CountsAdd ==
  ASSUME DeploymentInv, NEW S \in SUBSET Deployments!Rows, NEW T \in SUBSET S
  PROVE  /\ Deployments!Count(S) = Deployments!Count(T) + Deployments!Count(S \ T)
         /\ Deployments!Count(S) \in Nat /\ Deployments!Count(T) \in Nat
         /\ Deployments!Count(S \ T) \in Nat
<1>1. T \in SUBSET Deployments!Rows /\ S \ T \in SUBSET Deployments!Rows /\ S \cap T = T
  OBVIOUS
<1>2. Cardinality(S \ T) = Cardinality(S) - Cardinality(T)
  <2>1. IsFiniteSet(S) /\ Cardinality(S \cap T) = Cardinality(T)
    BY <1>1, RowsAreFinite
  <2> QED BY <2>1, FS_Difference
<1> DEFINE s == Deployments!Count(S)
           t == Deployments!Count(T)
           u == Deployments!Count(S \ T)
<1>3. s \in Nat /\ t \in Nat /\ u \in Nat /\ u = s - t
  BY <1>1, <1>2, RowsAreFinite
<1> HIDE DEF s, t, u
<1>4. s = t + u
  BY <1>3
<1> QED BY <1>3, <1>4 DEF s, t, u

\* What an X was found to be: it is either completed or not yet.
LEMMA ReviewOf ==
  ASSUME DeploymentInv, Reviewed, NEW a \in DOMAIN submitted
  PROVE  /\ submitted[a].x \in {0, 1}
         /\ submitted[a].x > 0 <=> submitted[a].x # 0
         /\ submitted[a].x > 0 =>
              (submitted[a].review \in {"PENDING", "ACTION_REQUIRED"}
                 <=> submitted[a].review # "ACTION_COMPLETED")
<1>1. submitted[a] \in Deployments!Submission
  BY DEF DeploymentInv, DeploymentTypes
<1>2. submitted[a].x \in {0, 1}
  BY <1>1 DEF Deployments!Submission
<1>3. submitted[a].x > 0 <=> submitted[a].x # 0
  BY <1>2
<1>4. submitted[a].x # 0 =>
        submitted[a].review \in {"PENDING", "ACTION_REQUIRED", "ACTION_COMPLETED"}
  BY DEF Reviewed, Deployments!Review
<1> QED BY <1>2, <1>3, <1>4

\* The counts of a day.
LEMMA DayAgrees ==
  ASSUME DeploymentInv, Reviewed, NEW c \in Checklist, NEW day \in Deployments!Day
  PROVE  LET t == Deployments!Detail(c, day).summary
             s == Deployments!Statistics(c, {day})
             Listed(action) == Deployments!WithAction(Deployments!Reported(c, {day}), action)
         IN  /\ t.needed = s.required
             /\ t.needed = Deployments!Count(Listed("ACTION_REQUIRED"))
             /\ t.completed = s.completed
             /\ t.completed = Deployments!Count(Listed("ACTION_COMPLETED"))
             /\ t.normal = Deployments!Count(Listed("NORMAL"))
             /\ t.submitted = t.normal + t.needed + t.completed
             /\ t.target = s.submitted + Deployments!Count(Listed("NOT_SUBMITTED"))
             /\ Deployments!ListItem(c, day).target = t.target
             /\ Deployments!ListItem(c, day).submitted = t.submitted
             /\ \A a \in Deployments!Reported(c, Deployments!Day) :
                   Deployments!MayRemind(a, day) <=> a \in Listed("NOT_SUBMITTED")
<1> DEFINE rows == Deployments!Reported(c, {day})
           done == {a \in rows : Deployments!IsSubmitted(a)}
           x == {a \in done : submitted[a].x > 0}
           completed == {a \in x : submitted[a].review = "ACTION_COMPLETED"}
           t == Deployments!Detail(c, day).summary
           s == Deployments!Statistics(c, {day})
           Listed(action) == Deployments!WithAction(rows, action)
<1>1. rows \in SUBSET Deployments!Rows
  BY DEF Deployments!Reported, Deployments!RowsOf
<1>2. /\ t.target = Deployments!Count(rows) /\ t.submitted = Deployments!Count(done)
      /\ t.normal = Deployments!Count(done \ x)
      /\ t.needed = Deployments!Count(x \ completed)
      /\ t.completed = Deployments!Count(completed)
  BY DEF Deployments!Detail, Deployments!TodaySummary, Deployments!TodayRows
<1>3. /\ {a \in rows : Deployments!IsSubmitted(a) /\ submitted[a].x > 0} = x
      /\ {a \in x : submitted[a].review \in {"PENDING", "ACTION_REQUIRED"}} = x \ completed
  BY ReviewOf DEF Deployments!IsSubmitted
<1>4. /\ s.submitted = Deployments!Count(done)
      /\ s.required = Deployments!Count(x \ completed)
      /\ s.completed = Deployments!Count(completed)
  BY <1>3 DEF Deployments!Statistics
<1>5. /\ Listed("NOT_SUBMITTED") = rows \ done
      /\ Listed("NORMAL") = done \ x
      /\ Listed("ACTION_REQUIRED") = x \ completed
      /\ Listed("ACTION_COMPLETED") = completed
  <2>1. \A a \in rows : Deployments!IsSubmitted(a) =>
          (submitted[a].x = 0 <=> ~ (submitted[a].x > 0))
    BY ReviewOf DEF Deployments!IsSubmitted
  <2> HIDE DEF rows
  <2> QED BY <2>1 DEF Deployments!WithAction
<1>6. /\ Deployments!ListItem(c, day).target = Deployments!Count(rows)
      /\ Deployments!ListItem(c, day).submitted = Deployments!Count(done)
  BY DEF Deployments!ListItem, Deployments!TodayRows
<1>7. \A a \in Deployments!Reported(c, Deployments!Day) :
        Deployments!MayRemind(a, day) <=> a \in rows \ done
  BY DEF Deployments!Reported, Deployments!RowsOf, Deployments!MayRemind
<1> HIDE DEF rows, t, s, Listed
<1>8. done \in SUBSET rows /\ x \in SUBSET done /\ completed \in SUBSET x
  OBVIOUS
<1> HIDE DEF done, x, completed
<1>9. /\ Deployments!Count(rows) = Deployments!Count(done) + Deployments!Count(rows \ done)
      /\ Deployments!Count(done) = Deployments!Count(x) + Deployments!Count(done \ x)
      /\ Deployments!Count(x) = Deployments!Count(completed) + Deployments!Count(x \ completed)
      /\ Deployments!Count(x) \in Nat /\ Deployments!Count(done \ x) \in Nat
      /\ Deployments!Count(completed) \in Nat /\ Deployments!Count(x \ completed) \in Nat
  <2>1. done \in SUBSET Deployments!Rows /\ x \in SUBSET Deployments!Rows
    BY <1>1, <1>8
  <2> QED BY <1>1, <1>8, <2>1, CountsAdd
<1>10. t.submitted = t.normal + t.needed + t.completed
  <2> DEFINE i == Deployments!Count(done \ x)
             j == Deployments!Count(x \ completed)
             k == Deployments!Count(completed)
             m == Deployments!Count(x)
             n == Deployments!Count(done)
  <2>1. n = m + i /\ m = k + j /\ i \in Nat /\ j \in Nat /\ k \in Nat
    BY <1>9
  <2> HIDE DEF i, j, k, m, n
  <2>2. n = i + j + k
    BY <2>1
  <2> QED BY <2>2, <1>2 DEF i, j, k, n
<1>11. t.target = s.submitted + Deployments!Count(Listed("NOT_SUBMITTED"))
  BY <1>2, <1>4, <1>5, <1>9
<1>12. /\ t.needed = s.required /\ t.needed = Deployments!Count(Listed("ACTION_REQUIRED"))
       /\ t.completed = s.completed
       /\ t.completed = Deployments!Count(Listed("ACTION_COMPLETED"))
       /\ t.normal = Deployments!Count(Listed("NORMAL"))
  BY <1>2, <1>4, <1>5
<1>13. /\ Deployments!ListItem(c, day).target = t.target
       /\ Deployments!ListItem(c, day).submitted = t.submitted
  BY <1>2, <1>6
<1>14. \A a \in Deployments!Reported(c, Deployments!Day) :
         Deployments!MayRemind(a, day) <=> a \in Listed("NOT_SUBMITTED")
  BY <1>5, <1>7
<1> QED BY <1>10, <1>11, <1>12, <1>13, <1>14 DEF rows, t, s, Listed

\* The rows of a period are those of its days, and a row is of one day.
LEMMA DaysAddUp ==
  ASSUME DeploymentInv, NEW c \in Checklist, NEW L \in SUBSET Deployments!Rows,
         NEW days \in SUBSET Deployments!Day, \A a \in L : a.day \in days,
         NEW f, DOMAIN f = days, NEW k,
         \A d \in days : f[d][k] = Deployments!Count({a \in L : a.day = d})
  PROVE  Deployments!Total(f, k) = Deployments!Count(L)
<1> DEFINE piece == [d \in days |-> {a \in L : a.day = d}]
<1>1. IsFiniteSet(days)
  <2>1. IsFiniteSet(Deployments!Day)
    BY DocumentsAssumption, FS_Interval DEF Deployments!ChecklistAssumption, Deployments!Day
  <2> QED BY <2>1, FS_Subset
<1>2. piece \in [days -> SUBSET L]
  OBVIOUS
<1>3. \A i \in days : \A j \in days : i # j => piece[i] \cap piece[j] = {}
  OBVIOUS
<1>4. \A a \in L : \E d \in days : a \in piece[d]
  OBVIOUS
<1>5. \A d \in days : f[d][k] = Cardinality(piece[d])
  <2> SUFFICES ASSUME NEW d \in days PROVE f[d][k] = Cardinality(piece[d])
    OBVIOUS
  <2>1. {a \in L : a.day = d} \in SUBSET Deployments!Rows
    OBVIOUS
  <2> QED BY <2>1, RowsAreFinite
<1> HIDE DEF piece
<1>6. Deployments!Total(f, k) = Cardinality(L)
  BY <1>1, <1>2, <1>3, <1>4, <1>5, RowsAreFinite, TotalOfParts
<1> QED BY <1>6, RowsAreFinite

\* The reports of a period.
LEMMA PeriodAgrees ==
  ASSUME DeploymentInv, Reviewed, NEW c \in Checklist
  PROVE  LET s == Deployments!Statistics(c, Deployments!Day)
             x == Deployments!XItems(c, Deployments!Day)
             missed == Deployments!NonSubmitters(c, Deployments!Day)
         IN  /\ x.required = s.required /\ x.completed = s.completed
             /\ Deployments!Total(Deployments!Trend(c, Deployments!Day), "submitted") = s.submitted
             /\ Deployments!Total(Deployments!Trend(c, Deployments!DateRange(c)), "target") = s.target
             /\ Deployments!Total([e \in DOMAIN missed |-> [n |-> missed[e]]], "n")
                  = s.target - s.submitted
             /\ x.affected \subseteq Deployments!CurrentTargets(c)
<1> DEFINE rows == Deployments!Reported(c, Deployments!Day)
           done == {a \in rows : Deployments!IsSubmitted(a)}
           x == {a \in rows : Deployments!IsSubmitted(a) /\ submitted[a].x > 0}
           completed == {a \in x : submitted[a].review = "ACTION_COMPLETED"}
           s == Deployments!Statistics(c, Deployments!Day)
           items == Deployments!XItems(c, Deployments!Day)
           missed == Deployments!NonSubmitters(c, Deployments!Day)
           left(e) == {a \in rows : a.employee = e /\ ~ Deployments!IsSubmitted(a)}
<1>1. /\ rows \in SUBSET Deployments!Rows /\ done \in SUBSET rows /\ x \in SUBSET rows
      /\ \A a \in rows : a.employee \in Deployments!CurrentTargets(c)
                         /\ a.day \in Deployments!Day
  BY DEF Deployments!Reported, Deployments!RowsOf
<1>2. {a \in x : submitted[a].review \in {"PENDING", "ACTION_REQUIRED"}} = x \ completed
  BY ReviewOf DEF Deployments!IsSubmitted
<1>3. /\ s.target = Deployments!Count(rows) /\ s.submitted = Deployments!Count(done)
      /\ s.required = Deployments!Count(x \ completed)
      /\ s.completed = Deployments!Count(completed)
  BY <1>2 DEF Deployments!Statistics
<1>4. /\ items.required = Deployments!Count(x) - Deployments!Count(completed)
      /\ items.completed = Deployments!Count(completed)
      /\ items.affected = {a.employee : a \in x}
  BY DEF Deployments!XItems
<1>5. items.required = s.required /\ items.completed = s.completed
  <2> DEFINE m == Deployments!Count(x)
             n == Deployments!Count(completed)
             k == Deployments!Count(x \ completed)
  <2>1. x \in SUBSET Deployments!Rows /\ completed \in SUBSET x
    BY <1>1
  <2> HIDE DEF x, completed
  <2>2. m = n + k /\ m \in Nat /\ n \in Nat /\ k \in Nat
    BY <2>1, CountsAdd
  <2> HIDE DEF m, n, k
  <2>3. m - n = k
    BY <2>2
  <2> QED BY <1>3, <1>4, <2>3 DEF m, n, k
<1>6. items.affected \subseteq Deployments!CurrentTargets(c)
  BY <1>1, <1>4
<1>7. \A d \in Deployments!Day :
        /\ Deployments!Reported(c, {d}) = {a \in rows : a.day = d}
        /\ {a \in Deployments!Reported(c, {d}) : Deployments!IsSubmitted(a)}
             = {a \in done : a.day = d}
  BY DEF Deployments!Reported
<1>8. Deployments!Total(Deployments!Trend(c, Deployments!Day), "submitted") = s.submitted
  <2> DEFINE f == Deployments!Trend(c, Deployments!Day)
  <2>1. /\ DOMAIN f = Deployments!Day
        /\ \A d \in Deployments!Day : f[d] = Deployments!Statistics(c, {d})
    BY DEF Deployments!Trend
  <2>2. \A d \in Deployments!Day :
          Deployments!Statistics(c, {d})["submitted"] = Deployments!Count({a \in done : a.day = d})
    BY <1>7 DEF Deployments!Statistics
  <2>3. /\ \A a \in done : a.day \in Deployments!Day
        /\ done \in SUBSET Deployments!Rows /\ Deployments!Day \in SUBSET Deployments!Day
    BY <1>1
  <2> HIDE DEF f, done
  <2>4. \A d \in Deployments!Day :
          f[d]["submitted"] = Deployments!Count({a \in done : a.day = d})
    BY <2>1, <2>2
  <2>5. Deployments!Total(f, "submitted") = Deployments!Count(done)
    BY <2>1, <2>3, <2>4, DaysAddUp
  <2> QED BY <1>3, <2>5 DEF f
<1>9. Deployments!Total(Deployments!Trend(c, Deployments!DateRange(c)), "target") = s.target
  <2> DEFINE days == Deployments!DateRange(c)
             f == Deployments!Trend(c, days)
  <2>1. /\ DOMAIN f = days
        /\ \A d \in days : f[d] = Deployments!Statistics(c, {d})
    BY DEF Deployments!Trend
  <2>2. days \in SUBSET Deployments!Day /\ \A a \in rows : a.day \in days
    <3>1. \A a \in rows : a.day \in Deployments!Day /\ a.day <= a.day
      BY <1>1 DEF Deployments!Day
    <3> QED BY <3>1 DEF Deployments!DateRange
  <2>3. \A d \in days :
          Deployments!Statistics(c, {d})["target"] = Deployments!Count({a \in rows : a.day = d})
    BY <1>7, <2>2 DEF Deployments!Statistics
  <2> HIDE DEF f, rows, days
  <2>4. \A d \in days : f[d]["target"] = Deployments!Count({a \in rows : a.day = d})
    BY <2>1, <2>3
  <2>5. rows \in SUBSET Deployments!Rows
    BY <1>1
  <2>6. Deployments!Total(f, "target") = Deployments!Count(rows)
    BY <2>1, <2>2, <2>4, <2>5, DaysAddUp
  <2> QED BY <1>3, <2>6 DEF f, days
<1>10. Deployments!Total([e \in DOMAIN missed |-> [n |-> missed[e]]], "n") = s.target - s.submitted
  <2> DEFINE K == {a.employee : a \in rows}
             L == rows \ done
             f == [e \in DOMAIN missed |-> [n |-> missed[e]]]
             piece == [e \in K |-> left(e)]
  <2>1. /\ DOMAIN missed = K /\ DOMAIN f = K
        /\ \A e \in K : f[e]["n"] = Deployments!Count(left(e))
    BY DEF Deployments!NonSubmitters
  <2>2. IsFiniteSet(K)
    <3>1. K \in SUBSET Employee
      BY <1>1 DEF DeploymentInv, DeploymentTypes, Deployments!Rows, Deployments!Assignment
    <3>2. IsFiniteSet(Employee)
      BY DocumentsAssumption, CountsAssignments DEF Deployments!ChecklistAssumption
    <3> QED BY <3>1, <3>2, FS_Subset
  <2>3. \A e \in K : left(e) \in SUBSET L
    OBVIOUS
  <2>4. piece \in [K -> SUBSET L]
    BY <2>3
  <2>5. \A i \in K : \A j \in K : i # j => piece[i] \cap piece[j] = {}
    OBVIOUS
  <2>6. \A a \in L : \E e \in K : a \in piece[e]
    OBVIOUS
  <2>7. L \in SUBSET Deployments!Rows
    BY <1>1
  <2>8. \A e \in K : f[e]["n"] = Cardinality(piece[e])
    BY <2>1, <2>3, <2>7, RowsAreFinite
  <2>9. Deployments!Count(rows) = Deployments!Count(done) + Deployments!Count(L)
        /\ Deployments!Count(done) \in Nat /\ Deployments!Count(L) \in Nat
    BY <1>1, CountsAdd
  <2> HIDE DEF K, L, f, piece, rows, done, missed
  <2>10. Deployments!Total(f, "n") = Cardinality(L)
    BY <2>1, <2>2, <2>4, <2>5, <2>6, <2>7, <2>8, RowsAreFinite, TotalOfParts
  <2>11. Cardinality(L) = Deployments!Count(L)
    BY <2>7, RowsAreFinite
  <2>12. s.target - s.submitted = Deployments!Count(L)
    <3> DEFINE i == Deployments!Count(rows)
               j == Deployments!Count(done)
               l == Deployments!Count(L)
    <3>1. i = j + l /\ j \in Nat /\ l \in Nat
      BY <2>9
    <3> HIDE DEF i, j, l
    <3>2. i - j = l
      BY <3>1
    <3> QED BY <1>3, <3>2 DEF i, j, l
  <2> QED BY <2>10, <2>11, <2>12 DEF f
<1> HIDE DEF s, items, missed
<1> QED BY <1>5, <1>6, <1>8, <1>9, <1>10 DEF s, items, missed

\* The rows of the deployments of a checklist are its rows.
LEMMA DeploymentsAddUp ==
  ASSUME DeploymentInv, NEW c \in Checklist
  PROVE  Deployments!Total([d \in Deployments!DeploymentsOf(c) |->
                              [n |-> Deployments!Detail(c, 1).deployments[d]]], "n")
           = Deployments!ListItem(c, 1).assignments
<1> DEFINE K == Deployments!DeploymentsOf(c)
           L == Deployments!RowsOf(c, Deployments!Rows)
           f == [d \in K |-> [n |-> Deployments!Detail(c, 1).deployments[d]]]
           of(d) == {a \in Deployments!Rows : a.deployment = d}
           piece == [d \in K |-> of(d)]
<1>1. IsFiniteSet(K)
  <2>1. DOMAIN deployments = 1..Len(deployments) /\ Len(deployments) \in Nat
    BY DEF DeploymentInv, DeploymentTypes
  <2>2. K \in SUBSET DOMAIN deployments
    BY DEF Deployments!DeploymentsOf
  <2>3. IsFiniteSet(DOMAIN deployments)
    BY <2>1, FS_Interval
  <2> QED BY <2>2, <2>3, FS_Subset
<1>2. DOMAIN f = K /\ \A d \in K : f[d]["n"] = Deployments!Count(of(d))
  BY DEF Deployments!Detail
<1>3. \A d \in K : of(d) \in SUBSET L
  BY DEF Deployments!DeploymentsOf, Deployments!RowsOf
<1>4. piece \in [K -> SUBSET L]
  BY <1>3
<1>5. \A i \in K : \A j \in K : i # j => piece[i] \cap piece[j] = {}
  OBVIOUS
<1>6. \A a \in L : \E d \in K : a \in piece[d]
  BY DEF DeploymentInv, DeploymentTypes, Deployments!DeploymentsOf, Deployments!RowsOf
<1>7. L \in SUBSET Deployments!Rows
  BY DEF Deployments!RowsOf
<1>8. \A d \in K : f[d]["n"] = Cardinality(piece[d])
  BY <1>2, <1>3, <1>7, RowsAreFinite
<1>9. Deployments!ListItem(c, 1).assignments = Deployments!Count(L)
  BY DEF Deployments!ListItem
<1> HIDE DEF K, L, f, piece
<1>10. Deployments!Total(f, "n") = Cardinality(L)
  BY <1>1, <1>2, <1>4, <1>5, <1>6, <1>7, <1>8, RowsAreFinite, TotalOfParts
<1> QED BY <1>7, <1>9, <1>10, RowsAreFinite DEF f, K

\* A filter by the review that a list shows finds what it shows.
LEMMA FilterFinds ==
  ASSUME Reviewed, DeploymentInv, NEW c \in Checklist,
         NEW a \in Deployments!RowsOf(c, DOMAIN submitted)
  PROVE  a \in Deployments!WithReview(Deployments!RowsOf(c, Deployments!Rows),
                                      Deployments!Shown(a))
<1>1. a \in DOMAIN submitted /\ a \in Deployments!RowsOf(c, Deployments!Rows)
  BY DEF Deployments!RowsOf, Deployments!Rows
<1>2. submitted[a].x = 0 => submitted[a].review \in {"PENDING", "CONFIRMED"}
  BY <1>1 DEF Reviewed
<1>3. submitted[a].x # 0 => submitted[a].x > 0 /\ submitted[a].review
            \in {"PENDING", "ACTION_REQUIRED", "ACTION_COMPLETED"}
  BY <1>1, ReviewOf DEF Reviewed, Deployments!Review
<1> QED BY <1>1, <1>2, <1>3 DEF Deployments!WithReview, Deployments!Shown, Deployments!Normalized, Deployments!IsSubmitted

\* findAll, findOne, getStatistics, getPatterns, sendAssignmentPushMessage: the list,
\* the detail, the summary of a day, the statistics, their trend, the patterns and
\* the filtered lists count the same submissions, each of them once.
THEOREM DeploymentReportsAgree == Deployments!Spec => []Deployments!ReportsAgree
<1>1. Deployments!Init => Reviewed
  BY DEF Deployments!Init, Reviewed
<1>2. DeploymentInv /\ Reviewed => Deployments!ReportsAgree
  BY DayAgrees, PeriodAgrees, DeploymentsAddUp, FilterFinds DEF Deployments!ReportsAgree
<1>3. DeploymentInv /\ Reviewed /\ [Deployments!Next]_(Deployments!vars) => Reviewed'
  BY ReviewedStep
<1> QED BY <1>1, <1>2, <1>3, DeploymentStart, DeploymentStep, PTL DEF Deployments!Spec

-----------------------------------------------------------------------------
(* Incident reports. *)

ReportRow == [status : Reports!ReportStatus, assignee : Admin \cup {NoAdmin},
              severity : Reports!Severity, emergency : BOOLEAN, text : Nat, texts : Nat,
              resolvedAt : BOOLEAN]
Entry == [from : Reports!ReportStatus, to : Reports!ReportStatus]
HandRow ==
    {Reports!NoHand}
      \cup [at : {"status", "assignee", "severity", "resolve"}, i : Report, row : ReportRow]
      \cup [at : {"sync"}, i : Report, text : Nat]
      \cup [at : {"clear"}, i : Report]

ReportTypes ==
    /\ report \in [Report -> ReportRow]
    /\ history \in [Report -> Seq(Entry)]
    /\ summary \in [Report -> Nat]
    /\ hand \in [Request -> HandRow]

\* What a row says whatever crossed, and what it says if no request was overtaken.
RowFits(row) ==
    /\ row.resolvedAt <=> row.status = "RESOLVED"
    /\ row.emergency <=> row.severity = "EMERGENCY"
    /\ row.status = "RECEIVED" => row.assignee = NoAdmin
    /\ row.status = "ASSIGNED" => row.assignee # NoAdmin
    /\ row.text <= row.texts /\ row.texts <= MaxText

RowSettled(row) ==
    /\ row.status = "IN_PROGRESS" => row.assignee # NoAdmin
    /\ row.text # 0 => row.status = "RESOLVED"

\* The status that a history ends in, and one without a gap.
Ending(h) == IF Len(h) = 0 THEN "RECEIVED" ELSE h[Len(h)].to
Whole(h) == \A k \in 1..Len(h) : h[k].from = IF k = 1 THEN "RECEIVED" ELSE h[k-1].to

RowsFit ==
    \A i \in Report :
        /\ RowFits(report[i])
        /\ report[i].status = Ending(history[i])
        /\ i \notin outdated => RowSettled(report[i]) /\ Whole(history[i])

\* A text is still to be stored or cleared.
Pending(w, i) == hand[w].at \in {"sync", "clear"} /\ hand[w].i = i
Sole(w, i) == Pending(w, i) /\ \A v \in Request \ {w} : ~ Pending(v, i)

\* A request that is alone with its text stores the one the report has: a text that
\* is written meanwhile has a request of its own.
TextsStored ==
    /\ \A i \in Report : summary[i] <= report[i].texts
    /\ \A w \in Request : hand[w].at = "sync" => hand[w].text <= report[hand[w].i].texts
    /\ \A i \in Report \ (outdated \cup crossed), w \in Request : Sole(w, i) =>
          /\ hand[w].at = "sync" => /\ report[i].text = hand[w].text
                                    /\ report[i].texts = hand[w].text
          /\ hand[w].at = "clear" => report[i].text = 0

ReportInv == ReportTypes /\ RowsFit /\ TextsStored /\ Reports!ResolutionIsTranslated

LEMMA ReportStart == Reports!Init => ReportInv
<1> SUFFICES ASSUME Reports!Init PROVE ReportInv
  OBVIOUS
<1> USE DEF Reports!Init
<1>1. ReportTypes
  BY DEF ReportTypes, ReportRow, Reports!ReportStatus, Reports!Severity, HandRow
<1>2. RowsFit
  BY DocumentsAssumption
  DEF RowsFit, RowFits, RowSettled, Ending, Whole, Reports!ReportAssumption
<1>3. TextsStored /\ Reports!ResolutionIsTranslated
  BY DEF TextsStored, Sole, Pending, Reports!NoHand, Reports!ResolutionIsTranslated
<1> QED BY <1>1, <1>2, <1>3 DEF ReportInv

\* An entry at the end of a history.
LEMMA HistoryGrows ==
    ASSUME NEW h \in Seq(Entry), NEW e \in Entry
    PROVE  /\ Append(h, e) \in Seq(Entry)
           /\ Ending(Append(h, e)) = e.to
           /\ Whole(h) /\ e.from = Ending(h) => Whole(Append(h, e))
<1>1. /\ Len(h) \in Nat /\ Len(Append(h, e)) = Len(h) + 1
      /\ Append(h, e)[Len(h) + 1] = e
      /\ \A k \in 1..Len(h) : Append(h, e)[k] = h[k]
      /\ Append(h, e) \in Seq(Entry)
  OBVIOUS
<1>2. Ending(Append(h, e)) = e.to
  BY <1>1 DEF Ending
<1>3. ASSUME Whole(h), e.from = Ending(h), NEW k \in 1..Len(Append(h, e))
      PROVE  Append(h, e)[k].from = IF k = 1 THEN "RECEIVED" ELSE Append(h, e)[k-1].to
  <2>1. CASE k = Len(h) + 1
    BY <1>1, <1>3, <2>1 DEF Ending
  <2>2. CASE k # Len(h) + 1
    <3>1. k \in 1..Len(h) /\ (k # 1 => k - 1 \in 1..Len(h))
      BY <1>1, <2>2
    <3> QED BY <1>1, <1>3, <3>1 DEF Whole
  <2> QED BY <2>1, <2>2
<1> QED BY <1>1, <1>2, <1>3 DEF Whole

\* A request that writes a row that fits, and an entry when the status changes.
LEMMA SaveFits ==
    ASSUME ReportInv, NEW w \in Request, NEW i \in Report, NEW new \in ReportRow,
           NEW changes \in BOOLEAN,
           hand[w].i = i, hand[w].row \in ReportRow, Reports!Save(w, new, changes),
           RowFits(new), ~ changes => new.status = report[i].status,
           report[i] = hand[w].row /\ i \notin outdated => RowSettled(new)
    PROVE  /\ report' = [report EXCEPT ![i] = new]
           /\ history' \in [Report -> Seq(Entry)]
           /\ outdated \subseteq outdated'
           /\ i \notin outdated' => report[i] = hand[w].row
           /\ RowsFit'
<1> DEFINE e == [from |-> hand[w].row.status, to |-> new.status]
<1>1. /\ report' = [report EXCEPT ![i] = new]
      /\ history' = IF changes THEN [history EXCEPT ![i] = Append(@, e)] ELSE history
      /\ outdated' = IF report[i] = hand[w].row THEN outdated ELSE outdated \cup {i}
  BY DEF Reports!Save
<1>2. e \in Entry /\ e.from = hand[w].row.status /\ e.to = new.status
  BY DEF Entry, ReportRow
<1> HIDE DEF e
<1>3. history[i] \in Seq(Entry) /\ report[i].status = Ending(history[i])
      /\ (i \notin outdated => Whole(history[i]))
  BY DEF ReportInv, ReportTypes, RowsFit
<1>4. Append(history[i], e) \in Seq(Entry)
      /\ Ending(Append(history[i], e)) = new.status
      /\ (report[i] = hand[w].row /\ i \notin outdated => Whole(Append(history[i], e)))
  BY <1>2, <1>3, HistoryGrows
<1>5. history' \in [Report -> Seq(Entry)]
  BY <1>1, <1>4 DEF ReportInv, ReportTypes
<1>6. /\ report'[i] = new /\ \A j \in Report \ {i} : report'[j] = report[j]
      /\ history'[i] = IF changes THEN Append(history[i], e) ELSE history[i]
      /\ \A j \in Report \ {i} : history'[j] = history[j]
  BY <1>1 DEF ReportInv, ReportTypes
<1>7. ASSUME NEW j \in Report
      PROVE  /\ RowFits(report'[j])
             /\ report'[j].status = Ending(history'[j])
             /\ j \notin outdated' => RowSettled(report'[j]) /\ Whole(history'[j])
  <2>1. CASE j = i
    BY <1>1, <1>3, <1>4, <1>6, <2>1
  <2>2. CASE j # i
    BY <1>1, <1>6, <2>2 DEF ReportInv, RowsFit
  <2> QED BY <2>1, <2>2
<1>8. RowsFit'
  BY <1>7 DEF RowsFit, RowFits, RowSettled, Ending, Whole
<1> QED BY <1>1, <1>5, <1>8

\* Its text is the one the report had, or is still to be stored or cleared.
LEMMA SaveTexts ==
    ASSUME ReportInv, NEW w \in Request, NEW i \in Report, NEW new \in ReportRow,
           NEW next \in HandRow,
           hand[w].at \in {"status", "assignee", "severity", "resolve"},
           report' = [report EXCEPT ![i] = new], outdated \subseteq outdated',
           hand' = [hand EXCEPT ![w] = next], UNCHANGED <<summary, crossed>>,
           report[i].texts <= new.texts, next.at \in {"none", "sync", "clear"},
           next.at # "none" => next.i = i,
           next.at = "none" /\ i \notin outdated' =>
              new.text = report[i].text /\ new.texts = report[i].texts,
           next.at = "sync" => new.text = next.text /\ new.texts = next.text,
           next.at = "clear" /\ i \notin outdated' => new.text = 0
    PROVE  TextsStored' /\ Reports!ResolutionIsTranslated'
<1>1. /\ report'[i] = new /\ \A j \in Report \ {i} : report'[j] = report[j]
      /\ hand'[w] = next /\ \A v \in Request \ {w} : hand'[v] = hand[v]
  BY DEF ReportInv, ReportTypes
<1>2. /\ report[i] \in ReportRow /\ report[i].texts \in Nat /\ new.texts \in Nat
      /\ new.text \in Nat
  BY DEF ReportInv, ReportTypes, ReportRow
<1>3. \A j \in Report : /\ summary[j] \in Nat /\ report[j].texts \in Nat
                        /\ report[j].texts <= report'[j].texts /\ report'[j].texts \in Nat
  BY <1>1, <1>2 DEF ReportInv, ReportTypes, ReportRow
<1>4. \A j \in Report : summary[j] <= report'[j].texts
  BY <1>3 DEF ReportInv, TextsStored
<1>5. ASSUME NEW v \in Request, hand'[v].at = "sync"
      PROVE  hand'[v].text <= report'[hand'[v].i].texts
  <2>1. CASE v = w
    BY <1>1, <1>2, <1>5, <2>1
  <2>2. CASE v # w
    <3>1. hand[v].text \in Nat /\ hand[v].i \in Report
      BY <1>1, <1>5, <2>2 DEF ReportInv, ReportTypes, HandRow, Reports!NoHand
    <3>2. hand[v].text <= report[hand[v].i].texts
      BY <1>1, <1>5, <2>2 DEF ReportInv, TextsStored
    <3> QED BY <1>1, <1>3, <2>2, <3>1, <3>2
  <2> QED BY <2>1, <2>2
<1>6. \A v \in Request \ {w}, j \in Report : Pending(v, j)' <=> Pending(v, j)
  BY <1>1 DEF Pending
<1>7. \A j \in Report : ~ Pending(w, j)
  BY DEF Pending
<1>8. \A j \in Report : Pending(w, j)' <=> next.at # "none" /\ j = i
  BY <1>1 DEF Pending
<1>9. ASSUME NEW j \in Report \ (outdated' \cup crossed), NEW v \in Request, Sole(v, j)'
      PROVE  /\ hand'[v].at = "sync" => /\ report'[j].text = hand'[v].text
                                        /\ report'[j].texts = hand'[v].text
             /\ hand'[v].at = "clear" => report'[j].text = 0
  <2>1. CASE v = w
    BY <1>1, <1>8, <1>9, <2>1 DEF Sole
  <2>2. CASE v # w
    <3>1. Sole(v, j) /\ hand'[v] = hand[v]
      BY <1>1, <1>6, <1>7, <1>9, <2>2 DEF Sole
    <3>2. j = i => next.at = "none"
      BY <1>8, <1>9, <2>2 DEF Sole
    <3>3. report'[j].text = report[j].text /\ report'[j].texts = report[j].texts
      BY <1>1, <1>9, <3>2
    <3> QED BY <1>9, <3>1, <3>3 DEF ReportInv, TextsStored
  <2> QED BY <2>1, <2>2
<1>10. ASSUME NEW j \in Report \ (outdated' \cup crossed)
       PROVE  (\E v \in Request : Pending(v, j)') \/ summary[j] = report'[j].text
  <2>1. CASE Pending(w, j)'
    BY <2>1
  <2>2. CASE ~ Pending(w, j)'
    <3>1. report'[j].text = report[j].text
      BY <1>1, <1>8, <1>10, <2>2
    <3>2. (\E v \in Request : Pending(v, j)) \/ summary[j] = report[j].text
      BY <1>10 DEF ReportInv, Reports!ResolutionIsTranslated, Pending
    <3> QED BY <1>6, <1>7, <3>1, <3>2
  <2> QED BY <2>1, <2>2
<1> QED
  BY <1>4, <1>5, <1>9, <1>10 DEF TextsStored, Reports!ResolutionIsTranslated, Pending, Sole

LEMMA SaveKeeps ==
    ASSUME ReportInv, NEW w \in Request, NEW i \in Report, NEW new \in ReportRow,
           NEW changes \in BOOLEAN, NEW next \in HandRow,
           hand[w].at \in {"status", "assignee", "severity", "resolve"},
           hand[w].i = i, hand[w].row \in ReportRow, Reports!Save(w, new, changes),
           Reports!Texts(w, next),
           RowFits(new), ~ changes => new.status = report[i].status,
           report[i] = hand[w].row /\ i \notin outdated => RowSettled(new),
           report[i].texts <= new.texts, next.at \in {"none", "sync", "clear"},
           next.at # "none" => next.i = i,
           next.at = "none" /\ report[i] = hand[w].row =>
              new.text = report[i].text /\ new.texts = report[i].texts,
           next.at = "sync" => new.text = next.text /\ new.texts = next.text,
           next.at = "clear" /\ report[i] = hand[w].row => new.text = 0
    PROVE  ReportInv'
<1>1. /\ report' = [report EXCEPT ![i] = new]
      /\ history' \in [Report -> Seq(Entry)]
      /\ outdated \subseteq outdated'
      /\ i \notin outdated' => report[i] = hand[w].row
      /\ RowsFit'
  BY SaveFits
<1>2. hand' = [hand EXCEPT ![w] = next] /\ UNCHANGED <<summary, crossed>>
  BY DEF Reports!Texts
<1>3. ReportTypes'
  BY <1>1, <1>2 DEF ReportInv, ReportTypes
<1>4. TextsStored' /\ Reports!ResolutionIsTranslated'
  BY <1>1, <1>2, SaveTexts
<1> QED BY <1>1, <1>3, <1>4 DEF ReportInv

\* What a request that is about to write has read.
LEMMA HandRead ==
    ASSUME ReportInv, NEW w \in Request,
           hand[w].at \in {"status", "assignee", "severity", "resolve"}
    PROVE  /\ hand[w].i \in Report /\ hand[w].row \in ReportRow
           /\ report[hand[w].i] \in ReportRow
           /\ RowFits(report[hand[w].i])
           /\ hand[w].i \notin outdated => RowSettled(report[hand[w].i])
BY DEF ReportInv, ReportTypes, HandRow, Reports!NoHand, RowsFit

\* The row that a change of the status writes.
StatusRow(now, previous, next, admin) ==
    [Reports!ResolutionState(now, previous, next) EXCEPT !.status = next, !.assignee = admin]

LEMMA StatusWritten ==
    ASSUME NEW now \in ReportRow, NEW previous \in Reports!ReportStatus,
           NEW next \in Reports!ReportStatus, NEW admin \in Admin \cup {NoAdmin},
           RowFits(now),
           next = "RECEIVED" => admin = NoAdmin,
           next = "ASSIGNED" => admin # NoAdmin,
           NEW new, new = StatusRow(now, previous, next, admin)
    PROVE  /\ new \in ReportRow /\ RowFits(new)
           /\ new.status = next /\ new.assignee = admin /\ new.texts = now.texts
           /\ new.text = IF next # "RESOLVED" /\ previous = "RESOLVED" THEN 0 ELSE now.text
<1> DEFINE state == Reports!ResolutionState(now, previous, next)
<1>1. /\ state \in ReportRow
      /\ state.severity = now.severity /\ state.emergency = now.emergency
      /\ state.texts = now.texts /\ (state.resolvedAt <=> next = "RESOLVED")
      /\ state.text = IF next # "RESOLVED" /\ previous = "RESOLVED" THEN 0 ELSE now.text
  <2>1. CASE next = "RESOLVED"
    <3>1. state = [now EXCEPT !.resolvedAt = TRUE]
      BY <2>1 DEF Reports!ResolutionState
    <3> HIDE DEF state
    <3> QED BY <2>1, <3>1 DEF ReportRow
  <2>2. CASE next # "RESOLVED"
    <3> DEFINE text == IF previous = "RESOLVED" THEN 0 ELSE now.text
    <3>1. state = [now EXCEPT !.resolvedAt = FALSE, !.text = text]
      BY <2>2 DEF Reports!ResolutionState
    <3>2. text \in Nat
      BY DEF ReportRow
    <3> HIDE DEF state, text
    <3>3. state \in ReportRow /\ state.severity = now.severity
          /\ state.emergency = now.emergency /\ state.texts = now.texts
          /\ state.resolvedAt = FALSE /\ state.text = text
      BY <3>1, <3>2 DEF ReportRow
    <3> QED BY <2>2, <3>3 DEF text
  <2> QED BY <2>1, <2>2
<1>5. new = [state EXCEPT !.status = next, !.assignee = admin]
  BY DEF StatusRow
<1> HIDE DEF state
<1>2. /\ new \in ReportRow
      /\ new.severity = state.severity /\ new.emergency = state.emergency
      /\ new.texts = state.texts /\ new.text = state.text
      /\ new.resolvedAt = state.resolvedAt
      /\ new.status = next /\ new.assignee = admin
  BY <1>1, <1>5 DEF ReportRow
<1>3. now.text \in Nat /\ now.texts \in Nat
  BY DEF ReportRow
<1>4. RowFits(new)
  BY <1>1, <1>2, <1>3 DEF RowFits
<1> QED BY <1>1, <1>2, <1>4

LEMMA ReopenNext ==
    ASSUME NEW w \in Request, NEW next \in Reports!ReportStatus, hand[w].i \in Report
    PROVE  LET after == Reports!AfterReopen(w, next)
           IN  /\ after \in HandRow /\ after.at \in {"none", "clear"}
               /\ after.at # "none" => after.i = hand[w].i
               /\ after.at = "clear" <=> hand[w].row.status = "RESOLVED" /\ next # "RESOLVED"
BY DEF Reports!AfterReopen, HandRow, Reports!NoHand

LEMMA UpdateStatusReport ==
    ASSUME ReportInv, NEW w \in Request, NEW next \in Reports!ReportStatus,
           Reports!UpdateStatus(w, next)
    PROVE  ReportInv'
<1> DEFINE i == hand[w].i
           row == hand[w].row
           now == report[i]
           admin == IF next = "RECEIVED" THEN NoAdmin ELSE now.assignee
           new == StatusRow(now, row.status, next, admin)
           after == Reports!AfterReopen(w, next)
<1>1. /\ hand[w].at = "status" /\ next # "ASSIGNED"
      /\ next = "IN_PROGRESS" => row.assignee # NoAdmin
      /\ Reports!Save(w, new, TRUE) /\ Reports!Texts(w, after)
  BY DEF Reports!UpdateStatus, StatusRow
<1>2. /\ i \in Report /\ row \in ReportRow /\ now \in ReportRow
      /\ RowFits(now) /\ (i \notin outdated => RowSettled(now))
  BY <1>1, HandRead
<1>3. row.status \in Reports!ReportStatus /\ admin \in Admin \cup {NoAdmin}
  BY <1>2 DEF ReportRow
<1>4. /\ new \in ReportRow /\ RowFits(new)
      /\ new.status = next /\ new.assignee = admin /\ new.texts = now.texts
      /\ new.text = IF next # "RESOLVED" /\ row.status = "RESOLVED" THEN 0 ELSE now.text
  <2>1. next = "RECEIVED" => admin = NoAdmin
    OBVIOUS
  <2>2. next = "ASSIGNED" => admin # NoAdmin
    BY <1>1
  <2> HIDE DEF row, now, admin
  <2> QED BY <1>1, <1>2, <1>3, <2>1, <2>2, StatusWritten
<1>5. /\ after \in HandRow /\ after.at \in {"none", "clear"}
      /\ after.at # "none" => after.i = i
      /\ after.at = "clear" <=> row.status = "RESOLVED" /\ next # "RESOLVED"
  BY <1>2, ReopenNext
<1>6. now = row /\ i \notin outdated => RowSettled(new)
  BY <1>1, <1>2, <1>4 DEF RowSettled
<1>7. now.texts \in Nat
  BY <1>2 DEF ReportRow
<1> HIDE DEF new, after
<1>8. /\ after.at = "none" /\ now = row => new.text = now.text
      /\ after.at = "clear" => new.text = 0
  BY <1>4, <1>5
<1>9. after.at # "sync" /\ now.texts <= new.texts
  BY <1>4, <1>5, <1>7
<1> QED BY <1>1, <1>2, <1>4, <1>5, <1>6, <1>8, <1>9, SaveKeeps

LEMMA UpdateAssigneeReport ==
    ASSUME ReportInv, NEW w \in Request, NEW admin \in Admin \cup {NoAdmin},
           Reports!UpdateAssignee(w, admin)
    PROVE  ReportInv'
<1> DEFINE i == hand[w].i
           row == hand[w].row
           now == report[i]
           next == IF admin # NoAdmin THEN "ASSIGNED" ELSE "RECEIVED"
           new == StatusRow(now, row.status, next, admin)
           after == Reports!AfterReopen(w, next)
<1>1. /\ hand[w].at = "assignee"
      /\ Reports!Save(w, new, TRUE) /\ Reports!Texts(w, after)
  BY DEF Reports!UpdateAssignee, StatusRow
<1>2. /\ i \in Report /\ row \in ReportRow /\ now \in ReportRow
      /\ RowFits(now) /\ (i \notin outdated => RowSettled(now))
  BY <1>1, HandRead
<1>3. row.status \in Reports!ReportStatus /\ next \in Reports!ReportStatus
  BY <1>2 DEF ReportRow, Reports!ReportStatus
<1>4. /\ new \in ReportRow /\ RowFits(new)
      /\ new.status = next /\ new.assignee = admin /\ new.texts = now.texts
      /\ new.text = IF next # "RESOLVED" /\ row.status = "RESOLVED" THEN 0 ELSE now.text
  <2>1. next = "RECEIVED" => admin = NoAdmin
    OBVIOUS
  <2>2. next = "ASSIGNED" => admin # NoAdmin
    BY <1>1
  <2> HIDE DEF row, now
  <2> QED BY <1>2, <1>3, <2>1, <2>2, StatusWritten
<1>5. /\ after \in HandRow /\ after.at \in {"none", "clear"}
      /\ after.at # "none" => after.i = i
      /\ after.at = "clear" <=> row.status = "RESOLVED" /\ next # "RESOLVED"
  BY <1>2, <1>3, ReopenNext
<1>6. now = row /\ i \notin outdated => RowSettled(new)
  BY <1>2, <1>4 DEF RowSettled
<1>7. now.texts \in Nat
  BY <1>2 DEF ReportRow
<1> HIDE DEF new, after
<1>8. /\ after.at = "none" /\ now = row => new.text = now.text
      /\ after.at = "clear" => new.text = 0
  BY <1>4, <1>5
<1>9. after.at # "sync" /\ now.texts <= new.texts
  BY <1>4, <1>5, <1>7
<1> HIDE DEF next
<1> QED BY <1>1, <1>2, <1>4, <1>5, <1>6, <1>8, <1>9, SaveKeeps

LEMMA UpdateSeverityReport ==
    ASSUME ReportInv, NEW w \in Request, NEW severity \in Reports!Severity,
           Reports!UpdateSeverity(w, severity)
    PROVE  ReportInv'
<1> DEFINE i == hand[w].i
           now == report[i]
           new == [now EXCEPT !.severity = severity, !.emergency = severity = "EMERGENCY"]
<1>1. /\ hand[w].at = "severity"
      /\ Reports!Save(w, new, FALSE) /\ Reports!Texts(w, Reports!NoHand)
  BY DEF Reports!UpdateSeverity
<1>2. /\ i \in Report /\ hand[w].row \in ReportRow /\ now \in ReportRow
      /\ RowFits(now) /\ (i \notin outdated => RowSettled(now))
  BY <1>1, HandRead
<1>3. /\ new \in ReportRow /\ new.severity = severity
      /\ new.emergency = (severity = "EMERGENCY")
      /\ new.status = now.status /\ new.assignee = now.assignee
      /\ new.text = now.text /\ new.texts = now.texts /\ new.resolvedAt = now.resolvedAt
  BY <1>2 DEF ReportRow
<1>4. now.texts \in Nat
  BY <1>2 DEF ReportRow
<1>5. Reports!NoHand \in HandRow /\ Reports!NoHand.at = "none"
  BY DEF HandRow, Reports!NoHand
<1> HIDE DEF new
<1>6. RowFits(new) /\ (i \notin outdated => RowSettled(new))
  BY <1>2, <1>3 DEF RowFits, RowSettled
<1>7. /\ new \in ReportRow /\ new.status = now.status /\ now.texts <= new.texts
      /\ new.text = now.text /\ new.texts = now.texts
  BY <1>3, <1>4
<1>8. Reports!NoHand.at # "sync" /\ Reports!NoHand.at # "clear"
  BY <1>5
<1> QED BY <1>1, <1>2, <1>5, <1>6, <1>7, <1>8, SaveKeeps

LEMMA ResolveReport ==
    ASSUME ReportInv, NEW w \in Request, Reports!Resolve(w) PROVE ReportInv'
<1> DEFINE i == hand[w].i
           now == report[i]
           text == now.texts + 1
           new == [now EXCEPT !.status = "RESOLVED", !.text = text, !.texts = text,
                              !.resolvedAt = TRUE]
           after == [at |-> "sync", i |-> i, text |-> text]
<1>1. /\ hand[w].at = "resolve" /\ text <= MaxText
      /\ Reports!Save(w, new, TRUE) /\ Reports!Texts(w, after)
  BY DEF Reports!Resolve
<1>2. /\ i \in Report /\ hand[w].row \in ReportRow /\ now \in ReportRow
      /\ RowFits(now)
  BY <1>1, HandRead
<1>3. now.texts \in Nat /\ text \in Nat /\ now.texts <= text
  BY <1>2 DEF ReportRow
<1> HIDE DEF text
<1>4. /\ new \in ReportRow /\ new.status = "RESOLVED"
      /\ new.severity = now.severity /\ new.emergency = now.emergency
      /\ new.text = text /\ new.texts = text /\ new.resolvedAt = TRUE
  BY <1>2, <1>3 DEF ReportRow, Reports!ReportStatus
<1>5. after \in HandRow /\ after.at = "sync" /\ after.i = i /\ after.text = text
  BY <1>2, <1>3 DEF HandRow
<1> HIDE DEF new, after
<1>6. RowFits(new) /\ RowSettled(new)
  BY <1>1, <1>2, <1>3, <1>4 DEF RowFits, RowSettled
<1> QED BY <1>1, <1>2, <1>3, <1>4, <1>5, <1>6, SaveKeeps

\* Reading, and a request that is refused, leave every row and every text alone.
LEMMA ReadOrLeave ==
    ASSUME ReportInv, NEW w \in Request, NEW next \in HandRow,
           hand' = [hand EXCEPT ![w] = next],
           hand[w].at \notin {"sync", "clear"}, next.at \notin {"sync", "clear"},
           UNCHANGED <<report, history, summary, outdated, crossed>>
    PROVE  ReportInv'
<1>1. hand'[w] = next /\ \A v \in Request \ {w} : hand'[v] = hand[v]
  BY DEF ReportInv, ReportTypes
<1>2. ReportTypes'
  BY DEF ReportInv, ReportTypes
<1>3. RowsFit'
  BY DEF ReportInv, RowsFit
<1>4. \A v \in Request, j \in Report : Pending(v, j)' <=> Pending(v, j)
  BY <1>1 DEF Pending
<1>5. \A v \in Request, j \in Report : Pending(v, j) => hand'[v] = hand[v]
  BY <1>1 DEF Pending
<1>6. \A v \in Request : hand'[v].at = "sync" => hand'[v] = hand[v]
  BY <1>1
<1>7. TextsStored'
  BY <1>4, <1>5, <1>6 DEF ReportInv, TextsStored, Sole
<1>8. Reports!ResolutionIsTranslated'
  BY <1>4 DEF ReportInv, Reports!ResolutionIsTranslated, Pending
<1> QED BY <1>2, <1>3, <1>7, <1>8 DEF ReportInv

LEMMA ReadReport ==
    ASSUME ReportInv, NEW w \in Request, NEW i \in Report,
           NEW at \in {"status", "assignee", "severity", "resolve"}, Reports!Read(w, i, at)
    PROVE  ReportInv'
<1> DEFINE next == [at |-> at, i |-> i, row |-> report[i]]
<1>1. /\ hand' = [hand EXCEPT ![w] = next] /\ hand[w].at = "none"
      /\ UNCHANGED <<report, history, summary, outdated, crossed>>
  BY DEF Reports!Read, Reports!NoHand
<1>2. next \in HandRow /\ next.at = at
  BY DEF HandRow, ReportInv, ReportTypes
<1> HIDE DEF next
<1> QED BY <1>1, <1>2, ReadOrLeave

LEMMA LeaveReport ==
    ASSUME ReportInv, NEW w \in Request, Reports!Leave(w) PROVE ReportInv'
<1>1. Reports!NoHand \in HandRow /\ Reports!NoHand.at = "none"
  BY DEF HandRow, Reports!NoHand
<1> QED BY <1>1, ReadOrLeave DEF Reports!Leave

\* The end of a request that stored or cleared a text.
LEMMA TextDone ==
    ASSUME ReportInv, NEW w \in Request, NEW i \in Report, NEW text \in Nat,
           Pending(w, i), hand' = [hand EXCEPT ![w] = Reports!NoHand],
           Reports!Crossing(w), summary' = [summary EXCEPT ![i] = text],
           text <= report[i].texts,
           Sole(w, i) /\ i \notin outdated \cup crossed => text = report[i].text,
           UNCHANGED <<report, history, outdated>>
    PROVE  ReportInv'
<1>1. /\ hand'[w] = Reports!NoHand /\ \A v \in Request \ {w} : hand'[v] = hand[v]
      /\ summary'[i] = text /\ \A j \in Report \ {i} : summary'[j] = summary[j]
  BY DEF ReportInv, ReportTypes
<1>2. Reports!NoHand \in HandRow /\ Reports!NoHand.at = "none"
  BY DEF HandRow, Reports!NoHand
<1>3. ReportTypes'
  BY <1>2 DEF ReportInv, ReportTypes
<1>4. RowsFit'
  BY DEF ReportInv, RowsFit
<1>5. /\ crossed \subseteq crossed'
      /\ i \notin crossed' => Sole(w, i)
  BY DEF Reports!Crossing, Sole, Pending
<1>6. /\ \A v \in Request \ {w}, j \in Report : Pending(v, j)' <=> Pending(v, j)
      /\ \A j \in Report : ~ Pending(w, j)'
      /\ \A j \in Report : Pending(w, j) => j = i
  BY <1>1, <1>2 DEF Pending
<1>7. /\ \A j \in Report : summary'[j] <= report[j].texts
      /\ \A v \in Request : hand'[v].at = "sync" =>
            hand'[v].text <= report[hand'[v].i].texts
  BY <1>1, <1>2 DEF ReportInv, TextsStored
<1>8. ASSUME NEW j \in Report \ (outdated \cup crossed'), NEW v \in Request, Sole(v, j)'
      PROVE  /\ hand'[v].at = "sync" => /\ report[j].text = hand'[v].text
                                        /\ report[j].texts = hand'[v].text
             /\ hand'[v].at = "clear" => report[j].text = 0
  <2>1. v # w /\ hand'[v] = hand[v] /\ Pending(v, j)
    BY <1>1, <1>6, <1>8 DEF Sole
  <2>2. j # i
    BY <1>5, <1>8, <2>1 DEF Sole
  <2>3. Sole(v, j)
    BY <1>6, <1>8, <2>1, <2>2 DEF Sole
  <2> QED BY <1>5, <1>8, <2>1, <2>3 DEF ReportInv, TextsStored
<1>9. TextsStored'
  BY <1>7, <1>8 DEF TextsStored
<1>10. ASSUME NEW j \in Report \ (outdated \cup crossed')
       PROVE  (\E v \in Request : Pending(v, j)') \/ summary'[j] = report[j].text
  <2>1. CASE j = i
    BY <1>1, <1>5, <1>10, <2>1
  <2>2. CASE j # i
    <3>1. (\E v \in Request : Pending(v, j)) \/ summary[j] = report[j].text
      BY <1>5, <1>10 DEF ReportInv, Reports!ResolutionIsTranslated, Pending
    <3> QED BY <1>1, <1>6, <2>2, <3>1
  <2> QED BY <2>1, <2>2
<1>11. Reports!ResolutionIsTranslated'
  BY <1>10 DEF Reports!ResolutionIsTranslated, Pending
<1> QED BY <1>3, <1>4, <1>9, <1>11 DEF ReportInv

LEMMA SyncReport ==
    ASSUME ReportInv, NEW w \in Request, Reports!SyncResolution(w) PROVE ReportInv'
<1> DEFINE i == hand[w].i
           text == IF summary[i] > hand[w].text THEN summary[i] ELSE hand[w].text
<1>1. /\ hand[w].at = "sync" /\ Reports!Crossing(w)
      /\ summary' = [summary EXCEPT ![i] = text]
      /\ hand' = [hand EXCEPT ![w] = Reports!NoHand]
      /\ UNCHANGED <<report, history, outdated>>
  BY DEF Reports!SyncResolution
<1>2. i \in Report /\ hand[w].text \in Nat
  <2>1. hand[w] \in HandRow
    BY DEF ReportInv, ReportTypes
  <2> QED BY <1>1, <2>1 DEF HandRow, Reports!NoHand
<1>3. /\ summary[i] \in Nat /\ report[i].texts \in Nat
      /\ summary[i] <= report[i].texts /\ hand[w].text <= report[i].texts
  BY <1>1, <1>2 DEF ReportInv, ReportTypes, TextsStored, ReportRow
<1>4. Pending(w, i)
  BY <1>1 DEF Pending
<1>5. Sole(w, i) /\ i \notin outdated \cup crossed => text = report[i].text
  <2>1. Sole(w, i) /\ i \notin outdated \cup crossed =>
            report[i].text = hand[w].text /\ report[i].texts = hand[w].text
    BY <1>1, <1>2 DEF ReportInv, TextsStored
  <2> QED BY <1>2, <1>3, <2>1
<1>6. text \in Nat /\ text <= report[i].texts
  BY <1>2, <1>3
<1> HIDE DEF text
<1> QED BY <1>1, <1>2, <1>4, <1>5, <1>6, TextDone

LEMMA ClearReport ==
    ASSUME ReportInv, NEW w \in Request, Reports!ClearResolution(w) PROVE ReportInv'
<1> DEFINE i == hand[w].i
<1>1. /\ hand[w].at = "clear" /\ Reports!Crossing(w)
      /\ summary' = [summary EXCEPT ![i] = 0]
      /\ hand' = [hand EXCEPT ![w] = Reports!NoHand]
      /\ UNCHANGED <<report, history, outdated>>
  BY DEF Reports!ClearResolution, Reports!Cleared
<1>2. i \in Report
  BY <1>1 DEF ReportInv, ReportTypes, HandRow, Reports!NoHand
<1>3. 0 <= report[i].texts
  BY <1>2 DEF ReportInv, ReportTypes, ReportRow
<1>4. Pending(w, i)
  BY <1>1 DEF Pending
<1>5. Sole(w, i) /\ i \notin outdated \cup crossed => 0 = report[i].text
  BY <1>1, <1>2 DEF ReportInv, TextsStored
<1> QED BY <1>1, <1>2, <1>3, <1>4, <1>5, TextDone

LEMMA ReportStep == ReportInv /\ [Reports!Next]_(Reports!reportVars) => ReportInv'
<1>1. ASSUME ReportInv, UNCHANGED Reports!reportVars PROVE ReportInv'
  <2>1. UNCHANGED <<report, history, summary, hand, outdated, crossed>>
    BY <1>1 DEF Reports!reportVars
  <2>2. ReportTypes' /\ RowsFit'
    BY <1>1, <2>1 DEF ReportInv, ReportTypes, RowsFit
  <2>3. TextsStored' /\ Reports!ResolutionIsTranslated'
    BY <1>1, <2>1 DEF ReportInv, TextsStored, Sole, Pending, Reports!ResolutionIsTranslated
  <2> QED BY <2>2, <2>3 DEF ReportInv
<1> QED
  BY <1>1, ReadReport, UpdateStatusReport, UpdateAssigneeReport, UpdateSeverityReport,
     ResolveReport, LeaveReport, SyncReport, ClearReport
  DEF Reports!Next

\* The types of incident reports and of the texts that are stored for translation.
THEOREM ReportsTyped == Reports!Spec => []Reports!TypeOK
<1>1. ReportInv => Reports!TypeOK
  <2> SUFFICES ASSUME ReportInv PROVE Reports!TypeOK
    OBVIOUS
  <2>1. \A i \in Report : /\ report[i].text \in 0..report[i].texts
                          /\ summary[i] \in 0..MaxText
    BY DocumentsAssumption
    DEF ReportInv, ReportTypes, RowsFit, RowFits, TextsStored, ReportRow,
        Reports!ReportAssumption
  <2> QED BY <2>1 DEF ReportInv, ReportTypes, ReportRow, Reports!TypeOK
<1> QED BY <1>1, ReportStart, ReportStep, PTL DEF Reports!Spec

\* updateStatus, updateAssignee, updateSeverity, resolve: whatever crosses, the fields
\* of a report fit its status and its history ends in it; if nothing was overtaken,
\* one in progress has somebody and its history has no gap.
THEOREM ReportStatusFits == Reports!Spec => []Reports!StatusFits
<1>1. ReportInv => Reports!StatusFits
  BY DEF ReportInv, RowsFit, RowFits, RowSettled, Ending, Whole, Reports!StatusFits
<1> QED BY <1>1, ReportStart, ReportStep, PTL DEF Reports!Spec

\* syncIncidentReportResolutionTranslation, clearIncidentReportResolutionTranslations:
\* when nothing is overtaken and no two texts cross, the text that is translated is
\* the resolution the report has.
THEOREM ResolutionTranslated == Reports!Spec => []Reports!ResolutionIsTranslated
<1>1. ReportInv => Reports!ResolutionIsTranslated
  BY DEF ReportInv
<1> QED BY <1>1, ReportStart, ReportStep, PTL DEF Reports!Spec

-----------------------------------------------------------------------------
(* TBM records. *)

TbmRow ==
    [status : Tbms!TbmStatus \cup {"none"}, started : BOOLEAN, ended : BOOLEAN,
     deleted : BOOLEAN, company : Company \cup {NoFile}, author : Unit \cup {NoFile},
     content : 0..MaxContent, people : SUBSET Person, audio : File \cup {NoFile},
     files : SUBSET File]
TbmCall ==
    [at : {"create", "update", "remove", "start", "end", "set"}, t : Tbm,
     audio : File \cup {NoFile}, files : SUBSET File, row : TbmRow]

TbmTypes ==
    /\ companyOf \in [Unit -> Company]
    /\ session \in [Tbm -> TbmRow]
    /\ confirmed \in [Tbm -> SUBSET Person]
    /\ disk \subseteq File
    /\ queued \in [Tbm -> [Tbms!Language -> 0..MaxContent]]
    /\ caller \in [Request -> {Tbms!Idle} \cup TbmCall]

Calling(r) == caller[r] \in TbmCall
LiveRow(row) == row.status # "none" /\ ~ row.deleted

\* What a request has read: only one that creates finds no row, and only one that
\* creates or updates brings files.
CallsFit ==
    /\ \A r \in Request : Calling(r) /\ caller[r].at # "create" =>
          LiveRow(caller[r].row) /\ session[caller[r].t].status # "none"
    /\ \A r \in Request : Calling(r) /\ caller[r].at \notin {"create", "update"} =>
          Tbms!Uploaded(caller[r]) = {}
    /\ \A t \in Tbm : confirmed[t] \subseteq session[t].people
                      /\ (session[t].status = "none" => confirmed[t] = {})

\* A row of a record that the database has or a request has read.
Known(t, row) ==
    \/ row = session[t]
    \/ \E r \in Request : Calling(r) /\ caller[r].t = t /\ caller[r].row = row

\* No file is known to two records, or as audio and as attachment of one; nobody
\* else knows the files of a request in flight; no name is used again.
RowsApart ==
    \A t, u \in Tbm, x, y \in TbmRow : Known(t, x) /\ Known(u, y) =>
        /\ t # u => Tbms!Named(x) \cap Tbms!Named(y) = {}
        /\ t = u => x.audio \notin y.files

CallsApart ==
    \A r, s \in Request : Calling(r) /\ Calling(s) /\ r # s =>
        Tbms!Uploaded(caller[r]) \cap Tbms!Uploaded(caller[s]) = {}

FilesFresh ==
    /\ \A r \in Request : Calling(r) =>
          /\ caller[r].audio \notin caller[r].files
          /\ Tbms!Uploaded(caller[r]) \subseteq made
          /\ \A t \in Tbm, x \in TbmRow : Known(t, x) =>
                Tbms!Uploaded(caller[r]) \cap Tbms!Named(x) = {}
    /\ \A t \in Tbm, x \in TbmRow : Known(t, x) => Tbms!Named(x) \subseteq made

UploadsStored ==
    \A r \in Request : Calling(r) => Tbms!Uploaded(caller[r]) \subseteq disk

\* The newest content is queued for the language of everybody on a record.
PeopleQueued ==
    \A t \in Tbm \ overtaken, p \in Person :
        Tbms!Live(t) /\ p \in session[t].people /\ Speaks[p] # Korean =>
            queued[t][Speaks[p]] >= session[t].content

FilesInv ==
    /\ RowsApart /\ CallsApart /\ FilesFresh /\ UploadsStored
    /\ Tbms!NamedFilesExist /\ Tbms!NoFileLeft

TbmInv == TbmTypes /\ CallsFit /\ FilesInv /\ Tbms!TimesFit /\ PeopleQueued

LEMMA IdleIsNoCall == Tbms!Idle \notin TbmCall /\ Tbms!Idle.at = "idle"
BY DEF Tbms!Idle, TbmCall

LEMMA NoRowIsRow ==
    /\ Tbms!NoRow \in TbmRow /\ Tbms!NoRow.status = "none"
    /\ Tbms!NoRow.people = {} /\ Tbms!NoRow.files = {} /\ Tbms!NoRow.audio = NoFile
    /\ Tbms!NoRow.deleted = FALSE /\ Tbms!NoRow.started = FALSE
    /\ Tbms!NoRow.ended = FALSE
BY DocumentsAssumption DEF Tbms!NoRow, TbmRow, Tbms!TbmAssumption

LEMMA TbmStart == Tbms!Init => TbmInv
<1> SUFFICES ASSUME Tbms!Init PROVE TbmInv
  OBVIOUS
<1> USE DEF Tbms!Init
<1>1. TbmTypes
  <2>1. companyOf \in [Unit -> Company]
    BY DocumentsAssumption DEF Tbms!TbmAssumption
  <2>2. queued \in [Tbm -> [Tbms!Language -> 0..MaxContent]]
    BY DocumentsAssumption DEF Tbms!TbmAssumption
  <2> QED BY <2>1, <2>2, NoRowIsRow DEF TbmTypes
<1>2. \A r \in Request : ~ Calling(r)
  BY IdleIsNoCall DEF Calling
<1>3. \A t \in Tbm : session[t].status = "none" /\ session[t].people = {}
                     /\ ~ Tbms!Live(t)
  BY NoRowIsRow DEF Tbms!Live
<1>4. CallsFit
  BY <1>2, <1>3 DEF CallsFit
<1>5. \A t \in Tbm : \A x : Known(t, x) =>
          Tbms!Named(x) = {} /\ x.files = {}
  BY <1>2, NoRowIsRow DEF Known, Tbms!Named
<1>6. FilesInv
  BY <1>2, <1>3, <1>5
  DEF FilesInv, RowsApart, CallsApart, FilesFresh, UploadsStored, Tbms!NamedFilesExist,
      Tbms!NoFileLeft
<1>7. Tbms!TimesFit /\ PeopleQueued
  BY <1>3 DEF Tbms!TimesFit, PeopleQueued
<1> QED BY <1>1, <1>4, <1>6, <1>7 DEF TbmInv

\* The files of a row, and of a request.
LEMMA NamesOf ==
    /\ \A x \in TbmRow : Tbms!Named(x) = {f \in File : f \in x.files \/ f = x.audio}
    /\ \A q \in TbmCall : Tbms!Uploaded(q) = {f \in File : f \in q.files \/ f = q.audio}
BY DocumentsAssumption
DEF TbmRow, TbmCall, Tbms!Named, Tbms!Uploaded, Tbms!TbmAssumption

-----------------------------------------------------------------------------
(* A request that ends: the row of its record becomes `new'. *)

Ends(r, new) ==
    /\ Calling(r)
    /\ new \in TbmRow
    /\ session' = [session EXCEPT ![caller[r].t] = new]
    /\ caller' = [caller EXCEPT ![r] = Tbms!Idle]
    /\ made' = made
    /\ new.files \subseteq session[caller[r].t].files \cup caller[r].files
    /\ new.audio \in {NoFile, session[caller[r].t].audio, caller[r].audio}

LEMMA EndsKnown ==
    ASSUME TbmTypes, NEW r \in Request, NEW new, Ends(r, new)
    PROVE  /\ caller[r].t \in Tbm /\ caller[r] \in TbmCall
           /\ session[caller[r].t] \in TbmRow /\ session' \in [Tbm -> TbmRow]
           /\ session'[caller[r].t] = new
           /\ \A t \in Tbm \ {caller[r].t} : session'[t] = session[t]
           /\ caller' \in [Request -> {Tbms!Idle} \cup TbmCall]
           /\ ~ Calling(r)'
           /\ \A s \in Request \ {r} : caller'[s] = caller[s] /\ Calling(s)' = Calling(s)
           /\ \A t \in Tbm : \A x : Known(t, x)' => Known(t, x) \/ (t = caller[r].t /\ x = new)
           /\ \A t \in Tbm : Known(t, session[t])
           /\ Known(caller[r].t, caller[r].row)
<1>1. caller[r] \in TbmCall /\ caller[r].t \in Tbm
  BY DEF Ends, Calling, TbmCall
<1>2. /\ session'[caller[r].t] = new /\ session' \in [Tbm -> TbmRow]
      /\ \A t \in Tbm \ {caller[r].t} : session'[t] = session[t]
  BY <1>1 DEF Ends, TbmTypes
<1>3. /\ caller'[r] = Tbms!Idle /\ \A s \in Request \ {r} : caller'[s] = caller[s]
      /\ caller' \in [Request -> {Tbms!Idle} \cup TbmCall]
  BY DEF Ends, TbmTypes
<1>4. ~ Calling(r)' /\ \A s \in Request \ {r} : Calling(s)' = Calling(s)
  BY <1>3, IdleIsNoCall DEF Calling
<1>5. \A t \in Tbm : \A x : Known(t, x)' => Known(t, x) \/ (t = caller[r].t /\ x = new)
  BY <1>2, <1>3, <1>4 DEF Known
<1> QED BY <1>1, <1>2, <1>3, <1>4, <1>5 DEF Known, Calling, TbmTypes

\* No file of a record gets to another one.
LEMMA ApartKept ==
    ASSUME TbmTypes, RowsApart, CallsApart, FilesFresh,
           NEW r \in Request, NEW new, Ends(r, new)
    PROVE  RowsApart' /\ CallsApart' /\ FilesFresh'
<1> DEFINE q == caller[r]
           now == session[q.t]
<1>1. /\ q.t \in Tbm /\ q \in TbmCall /\ now \in TbmRow /\ new \in TbmRow
      /\ ~ Calling(r)'
      /\ \A s \in Request \ {r} : caller'[s] = caller[s] /\ Calling(s)' = Calling(s)
      /\ \A t \in Tbm : \A x : Known(t, x)' => Known(t, x) \/ (t = q.t /\ x = new)
      /\ Known(q.t, now)
  <2>1. new \in TbmRow
    BY DEF Ends
  <2> QED BY <2>1, EndsKnown
<1>2. /\ Tbms!Named(new) \subseteq Tbms!Named(now) \cup Tbms!Uploaded(q)
      /\ new.files \subseteq now.files \cup q.files /\ new.files \subseteq File
      /\ new.audio \in {NoFile, now.audio, q.audio}
      /\ q.files \subseteq Tbms!Uploaded(q)
      /\ q.audio # NoFile => q.audio \in Tbms!Uploaded(q)
      /\ NoFile \notin File
  BY <1>1, NamesOf, DocumentsAssumption
  DEF Ends, Tbms!TbmAssumption, Tbms!Uploaded, Tbms!Named, TbmRow
<1>3. /\ q.audio \notin q.files /\ Tbms!Uploaded(q) \subseteq made
      /\ \A t \in Tbm, x \in TbmRow : Known(t, x) =>
            Tbms!Uploaded(q) \cap Tbms!Named(x) = {}
      /\ \A t \in Tbm, x \in TbmRow : Known(t, x) => Tbms!Named(x) \subseteq made
  BY <1>1 DEF FilesFresh, Calling
<1>4. made' = made
  BY DEF Ends
<1> HIDE DEF q, now
<1>5. ASSUME NEW u \in Tbm, NEW y \in TbmRow, Known(u, y)
      PROVE  /\ u # q.t => Tbms!Named(new) \cap Tbms!Named(y) = {}
             /\ u = q.t => new.audio \notin y.files /\ y.audio \notin new.files
  <2>1. Tbms!Uploaded(q) \cap Tbms!Named(y) = {}
    BY <1>3, <1>5
  <2>2. u # q.t => Tbms!Named(now) \cap Tbms!Named(y) = {}
    BY <1>1, <1>5 DEF RowsApart
  <2>3. u = q.t => now.audio \notin y.files /\ y.audio \notin now.files
    BY <1>1, <1>5 DEF RowsApart
  <2>4. y.files \subseteq Tbms!Named(y) /\ y.files \subseteq File
        /\ (y.audio \in File => y.audio \in Tbms!Named(y))
        /\ q.files \subseteq File
    BY <1>1, NamesOf DEF TbmRow, TbmCall
  <2>5. q.audio \notin y.files /\ y.audio \notin q.files
    BY <1>2, <2>1, <2>4
  <2> QED BY <1>2, <2>1, <2>2, <2>3, <2>4, <2>5
<1>6. new.audio \notin new.files
  <2>1. now.audio \notin now.files
    BY <1>1 DEF RowsApart
  <2>2. now.files \subseteq Tbms!Named(now)
        /\ (now.audio \in File => now.audio \in Tbms!Named(now))
        /\ q.files \subseteq File
    BY <1>1, NamesOf DEF TbmRow, TbmCall
  <2>3. Tbms!Uploaded(q) \cap Tbms!Named(now) = {}
    BY <1>1, <1>3
  <2> QED BY <1>2, <1>3, <2>1, <2>2, <2>3
<1>7. RowsApart'
  <2> SUFFICES ASSUME NEW t \in Tbm, NEW u \in Tbm, NEW x \in TbmRow, NEW y \in TbmRow,
                      Known(t, x)', Known(u, y)'
               PROVE  /\ t # u => Tbms!Named(x) \cap Tbms!Named(y) = {}
                      /\ t = u => x.audio \notin y.files
    BY DEF RowsApart
  <2>1. CASE Known(t, x) /\ Known(u, y)
    BY <2>1 DEF RowsApart
  <2>2. CASE Known(t, x) /\ u = q.t /\ y = new
    BY <1>5, <2>2
  <2>3. CASE t = q.t /\ x = new /\ Known(u, y)
    BY <1>5, <2>3
  <2>4. CASE t = q.t /\ x = new /\ u = q.t /\ y = new
    BY <1>6, <2>4
  <2> QED BY <1>1, <2>1, <2>2, <2>3, <2>4
<1>8. CallsApart'
  BY <1>1 DEF CallsApart
<1>9. FilesFresh'
  <2>1. \A t \in Tbm, x \in TbmRow : Known(t, x)' => Tbms!Named(x) \subseteq made
    BY <1>1, <1>2, <1>3
  <2>2. ASSUME NEW s \in Request, Calling(s)'
        PROVE  /\ s # r /\ caller'[s] = caller[s] /\ Calling(s)
               /\ caller[s].audio \notin caller[s].files
               /\ Tbms!Uploaded(caller[s]) \subseteq made
               /\ \A t \in Tbm, x \in TbmRow : Known(t, x) =>
                     Tbms!Uploaded(caller[s]) \cap Tbms!Named(x) = {}
    BY <1>1, <2>2 DEF FilesFresh
  <2>3. ASSUME NEW s \in Request, Calling(s)', NEW t \in Tbm, NEW x \in TbmRow, Known(t, x)'
        PROVE  Tbms!Uploaded(caller[s]) \cap Tbms!Named(x) = {}
    <3>1. CASE Known(t, x)
      BY <2>2, <2>3, <3>1
    <3>2. CASE t = q.t /\ x = new
      <4>1. Tbms!Uploaded(caller[s]) \cap Tbms!Named(now) = {}
        BY <1>1, <2>2, <2>3
      <4>2. Tbms!Uploaded(caller[s]) \cap Tbms!Uploaded(q) = {}
        BY <1>1, <2>2, <2>3 DEF CallsApart, Calling, q
      <4> QED BY <1>2, <3>2, <4>1, <4>2
    <3> QED BY <1>1, <2>3, <3>1, <3>2
  <2> QED BY <1>4, <2>1, <2>2, <2>3 DEF FilesFresh
<1> QED BY <1>7, <1>8, <1>9

\* What a request removes from disk is its own, or of the row that it read: no other
\* record and no other request names it.
LEMMA DiskKept ==
    ASSUME TbmTypes, RowsApart, CallsApart, FilesFresh, UploadsStored, Tbms!NamedFilesExist,
           NEW r \in Request, NEW new, Ends(r, new),
           disk' \subseteq disk,
           disk \ disk' \subseteq Tbms!Named(caller[r].row) \cup Tbms!Uploaded(caller[r]),
           LiveRow(new) => Tbms!Named(new) \subseteq disk'
    PROVE  UploadsStored' /\ Tbms!NamedFilesExist'
<1> DEFINE q == caller[r]
<1>1. /\ q.t \in Tbm /\ q \in TbmCall /\ q.row \in TbmRow
      /\ ~ Calling(r)'
      /\ \A s \in Request \ {r} : caller'[s] = caller[s] /\ Calling(s)' = Calling(s)
      /\ session'[q.t] = new
      /\ \A t \in Tbm \ {q.t} : session'[t] = session[t]
      /\ \A t \in Tbm : Known(t, session[t]) /\ session[t] \in TbmRow
      /\ Known(q.t, q.row)
  BY EndsKnown DEF TbmCall, TbmTypes
<1>2. ASSUME NEW s \in Request, Calling(s)' PROVE Tbms!Uploaded(caller'[s]) \subseteq disk'
  <2>1. s # r /\ caller'[s] = caller[s] /\ Calling(s)
    BY <1>1, <1>2
  <2>2. Tbms!Uploaded(caller[s]) \subseteq disk
    BY <2>1 DEF UploadsStored
  <2>3. Tbms!Uploaded(caller[s]) \cap Tbms!Uploaded(q) = {}
    BY <1>1, <2>1 DEF CallsApart, Calling
  <2>4. Tbms!Uploaded(caller[s]) \cap Tbms!Named(q.row) = {}
    BY <1>1, <2>1 DEF FilesFresh
  <2> QED BY <2>1, <2>2, <2>3, <2>4
<1>3. ASSUME NEW t \in Tbm, Tbms!Live(t)' PROVE Tbms!Named(session'[t]) \subseteq disk'
  <2>1. CASE t = q.t
    BY <1>1, <1>3, <2>1 DEF Tbms!Live, LiveRow
  <2>2. CASE t # q.t
    <3>1. session'[t] = session[t] /\ Tbms!Live(t)
      BY <1>1, <1>3, <2>2 DEF Tbms!Live
    <3>2. Tbms!Named(session[t]) \subseteq disk
      BY <3>1 DEF Tbms!NamedFilesExist
    <3>3. Tbms!Named(session[t]) \cap Tbms!Named(q.row) = {}
      BY <1>1, <2>2 DEF RowsApart
    <3>4. Tbms!Named(session[t]) \cap Tbms!Uploaded(q) = {}
      BY <1>1 DEF FilesFresh, Calling
    <3> QED BY <3>1, <3>2, <3>3, <3>4
  <2> QED BY <2>1, <2>2
<1> QED BY <1>2, <1>3 DEF UploadsStored, Tbms!NamedFilesExist

\* A file that stays on disk is still named, if the request was not overtaken.
LEMMA NoneLeft ==
    ASSUME TbmTypes, CallsFit, Tbms!NoFileLeft, NEW r \in Request, NEW new, Ends(r, new),
           overtaken \subseteq overtaken', disk' \subseteq disk,
           ASSUME overtaken' = {}, NEW f \in disk',
                  \/ Tbms!Live(caller[r].t) /\ f \in Tbms!Named(session[caller[r].t])
                  \/ f \in Tbms!Uploaded(caller[r])
           PROVE  LiveRow(new) /\ f \in Tbms!Named(new)
    PROVE  Tbms!NoFileLeft'
<1> DEFINE q == caller[r]
<1>0. PICK k \in Tbm : k = q.t
  BY EndsKnown
<1>1. /\ q \in TbmCall
      /\ \A s \in Request \ {r} : caller'[s] = caller[s]
      /\ session'[k] = new
      /\ \A t \in Tbm \ {k} : session'[t] = session[t]
  BY <1>0, EndsKnown
<1> SUFFICES ASSUME overtaken' = {}, NEW f \in disk'
             PROVE  \/ \E t \in Tbm : Tbms!Live(t)' /\ f \in Tbms!Named(session'[t])
                    \/ \E s \in Request : /\ caller'[s].at \in {"create", "update"}
                                          /\ f \in Tbms!Uploaded(caller'[s])
  BY DEF Tbms!NoFileLeft
<1>2. \/ \E t \in Tbm : Tbms!Live(t) /\ f \in Tbms!Named(session[t])
      \/ \E s \in Request : /\ caller[s].at \in {"create", "update"}
                            /\ f \in Tbms!Uploaded(caller[s])
  BY DEF Tbms!NoFileLeft
<1>3. LiveRow(new) => Tbms!Live(k)'
  BY <1>1 DEF LiveRow, Tbms!Live
<1>4. ASSUME NEW t \in Tbm, Tbms!Live(t), f \in Tbms!Named(session[t])
      PROVE  \E u \in Tbm : Tbms!Live(u)' /\ f \in Tbms!Named(session'[u])
  <2>1. CASE t = k
    BY <1>0, <1>1, <1>3, <1>4, <2>1
  <2>2. CASE t # k
    BY <1>1, <1>4, <2>2 DEF Tbms!Live
  <2> QED BY <2>1, <2>2
<1>5. ASSUME NEW s \in Request, caller[s].at \in {"create", "update"},
             f \in Tbms!Uploaded(caller[s])
      PROVE  \/ \E u \in Tbm : Tbms!Live(u)' /\ f \in Tbms!Named(session'[u])
             \/ /\ caller'[s].at \in {"create", "update"}
                /\ f \in Tbms!Uploaded(caller'[s])
  <2>1. CASE s = r
    BY <1>0, <1>1, <1>3, <1>5, <2>1
  <2>2. CASE s # r
    BY <1>1, <1>5, <2>2
  <2> QED BY <2>1, <2>2
<1> QED BY <1>2, <1>4, <1>5

\* What the requests in flight have read fits when one of them has ended.
LEMMA CallsKept ==
    ASSUME TbmTypes, CallsFit, NEW r \in Request, NEW new, Ends(r, new),
           session[caller[r].t].status # "none" => new.status # "none",
           confirmed'[caller[r].t] \subseteq new.people,
           new.status = "none" => confirmed'[caller[r].t] = {},
           \A t \in Tbm \ {caller[r].t} : confirmed'[t] = confirmed[t]
    PROVE  CallsFit'
<1>0. PICK k \in Tbm : k = caller[r].t
  BY EndsKnown
<1>1. /\ ~ Calling(r)'
      /\ \A s \in Request \ {r} : caller'[s] = caller[s] /\ Calling(s)' = Calling(s)
      /\ session'[k] = new
      /\ \A t \in Tbm \ {k} : session'[t] = session[t]
  BY <1>0, EndsKnown
<1>2. ASSUME NEW s \in Request, Calling(s)'
      PROVE  /\ s # r /\ Calling(s) /\ caller'[s] = caller[s]
             /\ caller[s].t \in Tbm
             /\ caller[s].at # "create" =>
                   LiveRow(caller[s].row) /\ session[caller[s].t].status # "none"
             /\ caller[s].at \notin {"create", "update"} => Tbms!Uploaded(caller[s]) = {}
  BY <1>1, <1>2 DEF CallsFit, Calling, TbmCall
<1>3. \A t \in Tbm : session[t].status # "none" => session'[t].status # "none"
  BY <1>0, <1>1
<1>4. \A t \in Tbm : confirmed'[t] \subseteq session'[t].people
                     /\ (session'[t].status = "none" => confirmed'[t] = {})
  BY <1>0, <1>1 DEF CallsFit
<1> QED BY <1>2, <1>3, <1>4 DEF CallsFit

TimesFitRow(row) ==
    /\ row.started <=> row.status # "CREATED"
    /\ row.ended <=> row.status = "ENDED"

\* A request that ends keeps the invariant if the row it writes does.
LEMMA EndKeeps ==
    ASSUME TbmInv, NEW r \in Request, NEW new, Ends(r, new),
           UNCHANGED companyOf,
           disk' \subseteq disk,
           disk \ disk' \subseteq Tbms!Named(caller[r].row) \cup Tbms!Uploaded(caller[r]),
           LiveRow(new) => Tbms!Named(new) \subseteq disk',
           overtaken \subseteq overtaken',
           ASSUME overtaken' = {}, NEW f \in disk',
                  \/ Tbms!Live(caller[r].t) /\ f \in Tbms!Named(session[caller[r].t])
                  \/ f \in Tbms!Uploaded(caller[r])
           PROVE  LiveRow(new) /\ f \in Tbms!Named(new),
           session[caller[r].t].status # "none" => new.status # "none",
           confirmed' \in [Tbm -> SUBSET Person],
           confirmed'[caller[r].t] \subseteq new.people,
           new.status = "none" => confirmed'[caller[r].t] = {},
           \A t \in Tbm \ {caller[r].t} : confirmed'[t] = confirmed[t],
           queued' \in [Tbm -> [Tbms!Language -> 0..MaxContent]],
           \A t \in Tbm \ {caller[r].t} : queued'[t] = queued[t],
           caller[r].t \notin overtaken' /\ LiveRow(new) =>
              /\ TimesFitRow(new)
              /\ \A p \in new.people : Speaks[p] # Korean =>
                    queued'[caller[r].t][Speaks[p]] >= new.content
    PROVE  TbmInv'
<1>0. PICK k \in Tbm : k = caller[r].t
  BY EndsKnown DEF TbmInv
<1>1. /\ session' \in [Tbm -> TbmRow]
      /\ caller' \in [Request -> {Tbms!Idle} \cup TbmCall]
      /\ session'[k] = new
      /\ \A t \in Tbm \ {k} : session'[t] = session[t]
  BY <1>0, EndsKnown DEF TbmInv
<1>2. TbmTypes'
  BY <1>1 DEF TbmInv, TbmTypes
<1>3. CallsFit'
  BY CallsKept DEF TbmInv
<1>4. RowsApart' /\ CallsApart' /\ FilesFresh'
  BY ApartKept DEF TbmInv, FilesInv
<1>5. UploadsStored' /\ Tbms!NamedFilesExist'
  BY DiskKept DEF TbmInv, FilesInv
<1>6. Tbms!NoFileLeft'
  BY NoneLeft DEF TbmInv, FilesInv
<1>7. \A t \in Tbm \ {k} : Tbms!Live(t)' = Tbms!Live(t)
  BY <1>1 DEF Tbms!Live
<1>8. Tbms!Live(k)' <=> LiveRow(new)
  BY <1>1 DEF Tbms!Live, LiveRow
<1>9. Tbms!TimesFit'
  <2> SUFFICES ASSUME NEW t \in Tbm \ overtaken', Tbms!Live(t)'
               PROVE  TimesFitRow(session'[t])
    BY DEF Tbms!TimesFit, TimesFitRow
  <2>1. CASE t = k
    BY <1>0, <1>1, <1>8, <2>1
  <2>2. CASE t # k
    BY <1>1, <1>7, <2>2 DEF TbmInv, Tbms!TimesFit, TimesFitRow
  <2> QED BY <2>1, <2>2
<1>10. PeopleQueued'
  <2> SUFFICES ASSUME NEW t \in Tbm \ overtaken', NEW p \in Person, Tbms!Live(t)',
                      p \in session'[t].people, Speaks[p] # Korean
               PROVE  queued'[t][Speaks[p]] >= session'[t].content
    BY DEF PeopleQueued
  <2>1. CASE t = k
    BY <1>0, <1>1, <1>8, <2>1
  <2>2. CASE t # k
    BY <1>0, <1>1, <1>7, <2>2 DEF TbmInv, PeopleQueued
  <2> QED BY <2>1, <2>2
<1> QED BY <1>2, <1>3, <1>4, <1>5, <1>6, <1>9, <1>10 DEF TbmInv, FilesInv

\* What is queued for the languages of people.
LEMMA QueueAdds ==
    ASSUME TbmTypes, NEW t \in Tbm, NEW people \in SUBSET Person,
           NEW content \in 0..MaxContent, Tbms!Queue(t, people, content)
    PROVE  /\ queued' \in [Tbm -> [Tbms!Language -> 0..MaxContent]]
           /\ \A u \in Tbm \ {t} : queued'[u] = queued[u]
           /\ \A p \in people : Speaks[p] # Korean => queued'[t][Speaks[p]] >= content
<1> DEFINE new == [l \in Tbms!Language |->
                     IF /\ l # Korean /\ \E p \in people : Speaks[p] = l
                        /\ content > queued[t][l]
                     THEN content ELSE queued[t][l]]
<1>1. queued' = [queued EXCEPT ![t] = new]
  BY DEF Tbms!Queue
<1>2. queued[t] \in [Tbms!Language -> 0..MaxContent]
  BY DEF TbmTypes
<1>3. new \in [Tbms!Language -> 0..MaxContent]
  BY <1>2
<1>4. ASSUME NEW p \in people, Speaks[p] # Korean PROVE new[Speaks[p]] >= content
  <2>1. Speaks[p] \in Tbms!Language
    BY DEF Tbms!Language
  <2>2. queued[t][Speaks[p]] \in 0..MaxContent
    BY <1>2, <2>1
  <2>3. new[Speaks[p]] = IF content > queued[t][Speaks[p]] THEN content
                         ELSE queued[t][Speaks[p]]
    BY <1>4, <2>1
  <2> QED BY <2>2, <2>3
<1> HIDE DEF new
<1> QED BY <1>1, <1>3, <1>4 DEF TbmTypes

\* The files of a record are on disk, and none of a request that is in flight.
LEMMA RecordFiles ==
    ASSUME TbmInv, NEW r \in Request, Calling(r)
    PROVE  LET q == caller[r]
               now == session[q.t]
           IN  /\ q.t \in Tbm /\ q \in TbmCall /\ q.row \in TbmRow /\ now \in TbmRow
               /\ LiveRow(now) => Tbms!Named(now) \subseteq disk
               /\ Tbms!Uploaded(q) \subseteq disk
               /\ Tbms!Uploaded(q) \cap Tbms!Named(now) = {}
               /\ Tbms!Uploaded(q) \cap Tbms!Named(q.row) = {}
               /\ q.row.audio \notin now.files /\ now.audio \notin q.row.files
               /\ q.at # "create" => LiveRow(q.row) /\ now.status # "none"
               /\ q.at \notin {"create", "update"} => Tbms!Uploaded(q) = {}
               /\ q.audio \notin q.files
               /\ confirmed[q.t] \subseteq now.people
               /\ now.status = "none" => confirmed[q.t] = {}
<1> DEFINE q == caller[r]
           now == session[q.t]
<1>1. /\ q.t \in Tbm /\ q \in TbmCall /\ q.row \in TbmRow /\ now \in TbmRow
      /\ Known(q.t, now) /\ Known(q.t, q.row)
  BY DEF Calling, TbmCall, TbmInv, TbmTypes, Known
<1>2. LiveRow(now) => Tbms!Named(now) \subseteq disk
  BY <1>1 DEF TbmInv, FilesInv, Tbms!NamedFilesExist, Tbms!Live, LiveRow
<1>3. Tbms!Uploaded(q) \subseteq disk
  BY DEF TbmInv, FilesInv, UploadsStored
<1>4. /\ Tbms!Uploaded(q) \cap Tbms!Named(now) = {}
      /\ Tbms!Uploaded(q) \cap Tbms!Named(q.row) = {}
      /\ q.audio \notin q.files
  BY <1>1 DEF TbmInv, FilesInv, FilesFresh
<1>5. q.row.audio \notin now.files /\ now.audio \notin q.row.files
  BY <1>1 DEF TbmInv, FilesInv, RowsApart
<1>6. /\ q.at # "create" => LiveRow(q.row) /\ now.status # "none"
      /\ q.at \notin {"create", "update"} => Tbms!Uploaded(q) = {}
      /\ confirmed[q.t] \subseteq now.people
      /\ now.status = "none" => confirmed[q.t] = {}
  BY <1>1 DEF TbmInv, CallsFit
<1> QED BY <1>1, <1>2, <1>3, <1>4, <1>5, <1>6

LEMMA CallOf ==
    ASSUME TbmInv, NEW r \in Request, caller[r].at # "idle"
    PROVE  Calling(r)
BY IdleIsNoCall DEF TbmInv, TbmTypes, Calling

LEMMA FailTbm == ASSUME TbmInv, NEW r \in Request, Tbms!Fail(r) PROVE TbmInv'
<1> DEFINE q == caller[r]
           now == session[q.t]
<1>1. /\ q.at # "idle" /\ disk' = disk \ Tbms!Uploaded(q)
      /\ caller' = [caller EXCEPT ![r] = Tbms!Idle]
      /\ UNCHANGED <<made, companyOf, session, confirmed, queued, overtaken>>
  BY DEF Tbms!Fail, Tbms!To
<1>2. Calling(r)
  BY <1>1, CallOf
<1>3. /\ q.t \in Tbm /\ now \in TbmRow
      /\ LiveRow(now) => Tbms!Named(now) \subseteq disk
      /\ Tbms!Uploaded(q) \cap Tbms!Named(now) = {}
      /\ confirmed[q.t] \subseteq now.people
      /\ now.status = "none" => confirmed[q.t] = {}
  BY <1>2, RecordFiles
<1>4. Ends(r, now)
  BY <1>1, <1>2, <1>3 DEF Ends, TbmInv, TbmTypes
<1>5. LiveRow(now) => Tbms!Named(now) \subseteq disk'
  BY <1>1, <1>3
<1>6. ASSUME overtaken' = {}, NEW f \in disk',
             (Tbms!Live(q.t) /\ f \in Tbms!Named(now)) \/ f \in Tbms!Uploaded(q)
      PROVE  LiveRow(now) /\ f \in Tbms!Named(now)
  BY <1>1, <1>6 DEF Tbms!Live, LiveRow
<1>7. q.t \notin overtaken' /\ LiveRow(now) =>
          /\ TimesFitRow(now)
          /\ \A p \in now.people : Speaks[p] # Korean =>
                queued'[q.t][Speaks[p]] >= now.content
  BY <1>1, <1>3
  DEF TbmInv, Tbms!TimesFit, TimesFitRow, PeopleQueued, Tbms!Live, LiveRow, TbmRow
<1>8. /\ confirmed' \in [Tbm -> SUBSET Person]
      /\ queued' \in [Tbm -> [Tbms!Language -> 0..MaxContent]]
      /\ confirmed' = confirmed /\ queued' = queued /\ overtaken' = overtaken
      /\ companyOf' = companyOf
  BY <1>1 DEF TbmInv, TbmTypes
<1>9. disk' \subseteq disk /\ disk \ disk' \subseteq Tbms!Named(q.row) \cup Tbms!Uploaded(q)
  BY <1>1
<1> QED BY <1>3, <1>4, <1>5, <1>6, <1>7, <1>8, <1>9, EndKeeps

\* A status that is written leaves the rest of the row alone.
LEMMA StatusKeeps ==
    ASSUME TbmInv, NEW r \in Request, NEW new \in TbmRow,
           caller[r].at \in {"start", "end", "set"},
           session' = [session EXCEPT ![caller[r].t] = new],
           caller' = [caller EXCEPT ![r] = Tbms!Idle],
           UNCHANGED <<made, companyOf, disk, queued>>,
           overtaken \subseteq overtaken',
           new.status # "none", new.deleted = session[caller[r].t].deleted,
           new.content = session[caller[r].t].content,
           new.people = session[caller[r].t].people,
           new.audio = session[caller[r].t].audio, new.files = session[caller[r].t].files,
           confirmed' \in [Tbm -> SUBSET Person],
           confirmed'[caller[r].t] \subseteq confirmed[caller[r].t],
           \A t \in Tbm \ {caller[r].t} : confirmed'[t] = confirmed[t],
           caller[r].t \notin overtaken' /\ LiveRow(new) => TimesFitRow(new)
    PROVE  TbmInv'
<1> DEFINE q == caller[r]
           now == session[q.t]
<1>1. Calling(r)
  BY CallOf
<1>2. /\ q.t \in Tbm /\ now \in TbmRow
      /\ LiveRow(now) => Tbms!Named(now) \subseteq disk
      /\ now.status # "none" /\ Tbms!Uploaded(q) = {}
      /\ confirmed[q.t] \subseteq now.people
  BY <1>1, RecordFiles
<1>3. Tbms!Named(new) = Tbms!Named(now) /\ (LiveRow(new) <=> LiveRow(now))
  BY <1>2 DEF Tbms!Named, LiveRow
<1>4. Ends(r, new)
  BY <1>1, <1>2 DEF Ends
<1>5. LiveRow(new) => Tbms!Named(new) \subseteq disk'
  BY <1>2, <1>3
<1>6. ASSUME overtaken' = {}, NEW f \in disk',
             (Tbms!Live(q.t) /\ f \in Tbms!Named(now)) \/ f \in Tbms!Uploaded(q)
      PROVE  LiveRow(new) /\ f \in Tbms!Named(new)
  BY <1>2, <1>3, <1>6 DEF Tbms!Live, LiveRow
<1>7. q.t \notin overtaken' /\ LiveRow(new) =>
          /\ TimesFitRow(new)
          /\ \A p \in new.people : Speaks[p] # Korean =>
                queued'[q.t][Speaks[p]] >= new.content
  BY <1>2, <1>3 DEF TbmInv, PeopleQueued, Tbms!Live, LiveRow, TbmRow
<1>8. /\ queued' \in [Tbm -> [Tbms!Language -> 0..MaxContent]]
      /\ queued' = queued /\ companyOf' = companyOf
      /\ confirmed'[q.t] \subseteq new.people
  BY <1>2 DEF TbmInv, TbmTypes
<1>9. disk' \subseteq disk /\ disk \ disk' \subseteq Tbms!Named(q.row) \cup Tbms!Uploaded(q)
  OBVIOUS
<1> QED BY <1>4, <1>5, <1>6, <1>7, <1>8, <1>9, EndKeeps

\* The row of the record when the request was not overtaken.
LEMMA WriteFresh ==
    ASSUME TbmInv, NEW t \in Tbm, NEW row, NEW new, Tbms!Write(t, row, new)
    PROVE  /\ session' = [session EXCEPT ![t] = new]
           /\ overtaken \subseteq overtaken'
           /\ t \notin overtaken' => session[t] = row /\ t \notin overtaken
BY DEF Tbms!Write

LEMMA StartTbm == ASSUME TbmInv, NEW r \in Request, Tbms!Start(r) PROVE TbmInv'
<1> DEFINE q == caller[r]
           now == session[q.t]
           new == [now EXCEPT !.status = "ACTIVE", !.started = TRUE]
<1>1. /\ q.at = "start" /\ q.row.status = "CREATED"
      /\ Tbms!Write(q.t, q.row, new) /\ caller' = [caller EXCEPT ![r] = Tbms!Idle]
      /\ UNCHANGED <<made, companyOf, confirmed, disk, queued>>
  BY DEF Tbms!Start, Tbms!Stored, Tbms!To
<1>2. q.t \in Tbm /\ now \in TbmRow
  BY <1>1, CallOf, RecordFiles
<1>3. /\ new \in TbmRow /\ new.status = "ACTIVE" /\ new.started = TRUE
      /\ new.ended = now.ended /\ new.deleted = now.deleted /\ new.content = now.content
      /\ new.people = now.people /\ new.audio = now.audio /\ new.files = now.files
  BY <1>2 DEF TbmRow, Tbms!TbmStatus
<1>4. /\ session' = [session EXCEPT ![q.t] = new] /\ overtaken \subseteq overtaken'
      /\ q.t \notin overtaken' => now = q.row /\ q.t \notin overtaken
  BY <1>1, <1>2, WriteFresh
<1> HIDE DEF new
<1>5. q.t \notin overtaken' /\ LiveRow(new) => TimesFitRow(new)
  <2> SUFFICES ASSUME q.t \notin overtaken', LiveRow(new) PROVE TimesFitRow(new)
    OBVIOUS
  <2>1. now.status = "CREATED" /\ Tbms!Live(q.t) /\ q.t \notin overtaken
    BY <1>1, <1>3, <1>4 DEF LiveRow, Tbms!Live
  <2>2. now.ended <=> now.status = "ENDED"
    BY <1>2, <2>1 DEF TbmInv, Tbms!TimesFit
  <2> QED BY <1>3, <2>1, <2>2 DEF TimesFitRow
<1>6. confirmed' \in [Tbm -> SUBSET Person] /\ confirmed' = confirmed
  BY <1>1 DEF TbmInv, TbmTypes
<1>7. new.status # "none"
  BY <1>3
<1> QED BY <1>1, <1>3, <1>4, <1>5, <1>6, <1>7, StatusKeeps

LEMMA EndTbm == ASSUME TbmInv, NEW r \in Request, Tbms!End(r) PROVE TbmInv'
<1> DEFINE q == caller[r]
           now == session[q.t]
           new == [now EXCEPT !.status = "ENDED", !.ended = TRUE]
<1>1. /\ q.at = "end" /\ q.row.status = "ACTIVE"
      /\ Tbms!Write(q.t, q.row, new) /\ caller' = [caller EXCEPT ![r] = Tbms!Idle]
      /\ UNCHANGED <<made, companyOf, confirmed, disk, queued>>
  BY DEF Tbms!End, Tbms!Stored, Tbms!To
<1>2. q.t \in Tbm /\ now \in TbmRow
  BY <1>1, CallOf, RecordFiles
<1>3. /\ new \in TbmRow /\ new.status = "ENDED" /\ new.ended = TRUE
      /\ new.started = now.started /\ new.deleted = now.deleted
      /\ new.content = now.content
      /\ new.people = now.people /\ new.audio = now.audio /\ new.files = now.files
  BY <1>2 DEF TbmRow, Tbms!TbmStatus
<1>4. /\ session' = [session EXCEPT ![q.t] = new] /\ overtaken \subseteq overtaken'
      /\ q.t \notin overtaken' => now = q.row /\ q.t \notin overtaken
  BY <1>1, <1>2, WriteFresh
<1> HIDE DEF new
<1>5. q.t \notin overtaken' /\ LiveRow(new) => TimesFitRow(new)
  <2> SUFFICES ASSUME q.t \notin overtaken', LiveRow(new) PROVE TimesFitRow(new)
    OBVIOUS
  <2>1. now.status = "ACTIVE" /\ Tbms!Live(q.t) /\ q.t \notin overtaken
    BY <1>1, <1>3, <1>4 DEF LiveRow, Tbms!Live
  <2>2. now.started <=> now.status # "CREATED"
    BY <1>2, <2>1 DEF TbmInv, Tbms!TimesFit
  <2> QED BY <1>3, <2>1, <2>2 DEF TimesFitRow
<1>6. confirmed' \in [Tbm -> SUBSET Person] /\ confirmed' = confirmed
  BY <1>1 DEF TbmInv, TbmTypes
<1>7. new.status # "none"
  BY <1>3
<1> QED BY <1>1, <1>3, <1>4, <1>5, <1>6, <1>7, StatusKeeps

LEMMA ChangeTbm ==
    ASSUME TbmInv, NEW r \in Request, NEW status \in Tbms!TbmStatus, NEW reset \in BOOLEAN,
           Tbms!ChangeStatus(r, status, reset)
    PROVE  TbmInv'
<1> DEFINE q == caller[r]
           now == session[q.t]
           new == Tbms!Times(now, status)
<1>1. /\ q.at = "set"
      /\ Tbms!Write(q.t, q.row, new) /\ caller' = [caller EXCEPT ![r] = Tbms!Idle]
      /\ confirmed' = IF status = "CREATED" /\ reset
                      THEN [confirmed EXCEPT ![q.t] = {}] ELSE confirmed
      /\ UNCHANGED <<made, companyOf, disk, queued>>
  BY DEF Tbms!ChangeStatus, Tbms!Stored, Tbms!To
<1>2. q.t \in Tbm /\ now \in TbmRow
  BY <1>1, CallOf, RecordFiles
<1>3. /\ new \in TbmRow /\ new.status = status
      /\ new.ended = (status = "ENDED") /\ new.started = (status # "CREATED")
      /\ new.deleted = now.deleted /\ new.content = now.content
      /\ new.people = now.people /\ new.audio = now.audio /\ new.files = now.files
  BY <1>2 DEF TbmRow, Tbms!Times
<1>4. /\ session' = [session EXCEPT ![q.t] = new] /\ overtaken \subseteq overtaken'
  BY <1>1, <1>2, WriteFresh
<1> HIDE DEF new
<1>5. TimesFitRow(new)
  BY <1>3 DEF TimesFitRow
<1>6. /\ confirmed' \in [Tbm -> SUBSET Person]
      /\ confirmed'[q.t] \subseteq confirmed[q.t]
      /\ \A t \in Tbm \ {q.t} : confirmed'[t] = confirmed[t]
  BY <1>1, <1>2 DEF TbmInv, TbmTypes
<1>7. /\ new.status # "none" /\ new \in TbmRow
      /\ new.deleted = now.deleted /\ new.content = now.content
      /\ new.people = now.people /\ new.audio = now.audio /\ new.files = now.files
  BY <1>3 DEF Tbms!TbmStatus
<1> QED BY <1>1, <1>4, <1>5, <1>6, <1>7, StatusKeeps

LEMMA RemoveTbm == ASSUME TbmInv, NEW r \in Request, Tbms!Remove(r) PROVE TbmInv'
<1> DEFINE q == caller[r]
           now == session[q.t]
           new == [now EXCEPT !.deleted = TRUE]
<1>1. /\ q.at = "remove" /\ disk' = disk \ Tbms!Named(q.row)
      /\ Tbms!Write(q.t, q.row, new) /\ caller' = [caller EXCEPT ![r] = Tbms!Idle]
      /\ UNCHANGED <<made, companyOf, confirmed, queued>>
  BY DEF Tbms!Remove, Tbms!To
<1>2. Calling(r)
  BY <1>1, CallOf
<1>3. /\ q.t \in Tbm /\ now \in TbmRow
      /\ Tbms!Uploaded(q) = {} /\ now.status # "none"
      /\ confirmed[q.t] \subseteq now.people
  BY <1>1, <1>2, RecordFiles
<1>4. /\ new \in TbmRow /\ new.status = now.status /\ new.deleted = TRUE
      /\ new.content = now.content
      /\ new.people = now.people /\ new.audio = now.audio /\ new.files = now.files
  BY <1>3 DEF TbmRow
<1>5. /\ session' = [session EXCEPT ![q.t] = new] /\ overtaken \subseteq overtaken'
      /\ q.t \notin overtaken' => now = q.row /\ q.t \notin overtaken
  BY <1>1, <1>3, WriteFresh
<1> HIDE DEF new
<1>6. ~ LiveRow(new)
  BY <1>4 DEF LiveRow
<1>7. Ends(r, new)
  BY <1>1, <1>2, <1>4, <1>5 DEF Ends
<1>8. ASSUME overtaken' = {}, NEW f \in disk',
             (Tbms!Live(q.t) /\ f \in Tbms!Named(now)) \/ f \in Tbms!Uploaded(q)
      PROVE  LiveRow(new) /\ f \in Tbms!Named(new)
  BY <1>1, <1>3, <1>5, <1>8
<1>9. /\ confirmed' \in [Tbm -> SUBSET Person]
      /\ queued' \in [Tbm -> [Tbms!Language -> 0..MaxContent]]
      /\ confirmed' = confirmed /\ queued' = queued
      /\ companyOf' = companyOf
      /\ confirmed'[q.t] \subseteq new.people /\ new.status # "none"
  BY <1>1, <1>3, <1>4 DEF TbmInv, TbmTypes
<1>10. disk' \subseteq disk /\ disk \ disk' \subseteq Tbms!Named(q.row) \cup Tbms!Uploaded(q)
  BY <1>1
<1> QED BY <1>5, <1>6, <1>7, <1>8, <1>9, <1>10, EndKeeps

LEMMA CreateTbm == ASSUME TbmInv, NEW r \in Request, Tbms!Create(r) PROVE TbmInv'
<1> DEFINE q == caller[r]
           now == session[q.t]
<1>1. PICK author \in Person, people \in SUBSET Person :
        /\ session' = [session EXCEPT ![q.t] =
              [Tbms!NoRow EXCEPT !.status = "CREATED",
                 !.company = Tbms!CompanyOf(At[author]),
                 !.author = At[author], !.content = 1, !.people = people,
                 !.audio = q.audio, !.files = q.files]]
        /\ Tbms!Queue(q.t, people, 1)
  BY DEF Tbms!Create
<1> DEFINE new == [Tbms!NoRow EXCEPT !.status = "CREATED",
                     !.company = Tbms!CompanyOf(At[author]),
                     !.author = At[author], !.content = 1, !.people = people,
                     !.audio = q.audio, !.files = q.files]
<1>2. /\ q.at = "create" /\ now.status = "none"
      /\ caller' = [caller EXCEPT ![r] = Tbms!Idle]
      /\ UNCHANGED <<made, companyOf, confirmed, disk, overtaken>>
  BY DEF Tbms!Create, Tbms!To
<1>3. Calling(r)
  BY <1>2, CallOf
<1>4. /\ q.t \in Tbm /\ q \in TbmCall
      /\ Tbms!Uploaded(q) \subseteq disk /\ confirmed[q.t] = {}
  BY <1>2, <1>3, RecordFiles
<1>5. At[author] \in Unit /\ Tbms!CompanyOf(At[author]) \in Company
  BY DocumentsAssumption DEF Tbms!CompanyOf, Tbms!TbmAssumption, TbmInv, TbmTypes
<1>6. q.audio \in File \cup {NoFile} /\ q.files \subseteq File
  BY <1>4 DEF TbmCall
<1>7. 1 \in 0..MaxContent
  BY DocumentsAssumption DEF Tbms!TbmAssumption
<1>8. /\ new \in TbmRow /\ new.status = "CREATED" /\ new.deleted = FALSE
      /\ new.started = FALSE /\ new.ended = FALSE /\ new.content = 1
      /\ new.people = people /\ new.audio = q.audio /\ new.files = q.files
  BY <1>5, <1>6, <1>7 DEF TbmRow, Tbms!NoRow, Tbms!TbmStatus
<1>9. session' = [session EXCEPT ![q.t] = new]
  BY <1>1
<1> HIDE DEF new
<1>10. Ends(r, new)
  BY <1>2, <1>3, <1>8, <1>9 DEF Ends
<1>11. Tbms!Named(new) = Tbms!Uploaded(q) /\ LiveRow(new)
  BY <1>8 DEF Tbms!Named, Tbms!Uploaded, LiveRow
<1>12. ASSUME overtaken' = {}, NEW f \in disk',
              (Tbms!Live(q.t) /\ f \in Tbms!Named(now)) \/ f \in Tbms!Uploaded(q)
       PROVE  LiveRow(new) /\ f \in Tbms!Named(new)
  BY <1>2, <1>11, <1>12 DEF Tbms!Live
<1>13. /\ queued' \in [Tbm -> [Tbms!Language -> 0..MaxContent]]
       /\ \A u \in Tbm \ {q.t} : queued'[u] = queued[u]
       /\ \A p \in people : Speaks[p] # Korean => queued'[q.t][Speaks[p]] >= 1
  BY <1>1, <1>4, <1>7, QueueAdds DEF TbmInv
<1>14. /\ confirmed' \in [Tbm -> SUBSET Person] /\ confirmed' = confirmed
       /\ confirmed'[q.t] = {} /\ companyOf' = companyOf
       /\ overtaken' = overtaken
  BY <1>2, <1>4 DEF TbmInv, TbmTypes
<1>15. TimesFitRow(new) /\ new.status # "none"
       /\ \A p \in new.people : Speaks[p] # Korean =>
             queued'[q.t][Speaks[p]] >= new.content
  BY <1>8, <1>13 DEF TimesFitRow
<1>16. disk' = disk /\ (LiveRow(new) => Tbms!Named(new) \subseteq disk')
  BY <1>2, <1>4, <1>11
<1> QED BY <1>10, <1>12, <1>13, <1>14, <1>15, <1>16, EndKeeps

\* The audio that an update leaves, and what it removes from disk.
Updating(r, gone, replacing, kept, new, dropped) ==
    /\ Calling(r)
    /\ gone \subseteq caller[r].row.files
    /\ replacing \in BOOLEAN
    /\ caller[r].audio # NoFile => replacing
    /\ kept = IF replacing /\ caller[r].row.audio # NoFile THEN NoFile
              ELSE session[caller[r].t].audio
    /\ caller[r].audio = NoFile \/ kept = NoFile
    /\ new \in TbmRow
    /\ new.files = (session[caller[r].t].files \ gone) \cup caller[r].files
    /\ new.audio = IF caller[r].audio # NoFile THEN caller[r].audio ELSE kept
    /\ LiveRow(new) => LiveRow(session[caller[r].t])
    /\ dropped = Tbms!RemovedByUpdate(caller[r], gone, replacing)

LEMMA UpdatedFiles ==
    ASSUME TbmInv, NEW r \in Request, NEW gone, NEW replacing, NEW kept, NEW new,
           NEW dropped, Updating(r, gone, replacing, kept, new, dropped)
    PROVE  /\ dropped \subseteq Tbms!Named(caller[r].row)
           /\ new.audio \in {NoFile, session[caller[r].t].audio, caller[r].audio}
           /\ LiveRow(new) => Tbms!Named(new) \subseteq disk \ dropped
           /\ session[caller[r].t] = caller[r].row =>
                 Tbms!Named(session[caller[r].t]) \subseteq Tbms!Named(new) \cup dropped
           /\ Tbms!Uploaded(caller[r]) \subseteq Tbms!Named(new)
<1> DEFINE q == caller[r]
           now == session[q.t]
<1> USE DEF Updating
<1>1. /\ q \in TbmCall /\ q.row \in TbmRow /\ now \in TbmRow
      /\ LiveRow(now) => Tbms!Named(now) \subseteq disk
      /\ Tbms!Uploaded(q) \subseteq disk
      /\ Tbms!Uploaded(q) \cap Tbms!Named(now) = {}
      /\ Tbms!Uploaded(q) \cap Tbms!Named(q.row) = {}
      /\ q.row.audio \notin now.files /\ now.audio \notin q.row.files
  BY RecordFiles
<1>2. dropped = gone \cup IF replacing THEN {q.row.audio} \ {NoFile} ELSE {}
  BY DEF Tbms!RemovedByUpdate
<1>3. /\ Tbms!Named(q.row) = {f \in File : f \in q.row.files \/ f = q.row.audio}
      /\ Tbms!Named(now) = {f \in File : f \in now.files \/ f = now.audio}
      /\ Tbms!Named(new) = {f \in File : f \in new.files \/ f = new.audio}
      /\ Tbms!Uploaded(q) = {f \in File : f \in q.files \/ f = q.audio}
      /\ NoFile \notin File
      /\ q.row.files \subseteq File /\ q.row.audio \in File \cup {NoFile}
      /\ q.audio \in File \cup {NoFile} /\ q.files \subseteq File
      /\ now.audio \in File \cup {NoFile} /\ now.files \subseteq File
  BY <1>1, NamesOf, DocumentsAssumption DEF Tbms!TbmAssumption, TbmRow, TbmCall
<1> HIDE DEF q, now
<1>4. dropped \subseteq Tbms!Named(q.row)
  BY <1>2, <1>3 DEF q
<1>5. new.audio \in {NoFile, now.audio, q.audio}
  BY DEF q, now
<1>6. ASSUME NEW f \in Tbms!Named(new)
      PROVE  /\ f \in Tbms!Named(now) \/ f \in Tbms!Uploaded(q)
             /\ f \notin dropped
  <2>1. CASE f \in new.files
    <3>1. f \in now.files \ gone \/ f \in q.files
      BY <2>1 DEF q, now
    <3>2. CASE f \in now.files \ gone
      BY <1>1, <1>2, <1>3, <3>2
    <3>3. CASE f \in q.files
      BY <1>1, <1>3, <1>4, <3>3
    <3> QED BY <3>1, <3>2, <3>3
  <2>2. CASE f = new.audio /\ q.audio # NoFile
    <3>1. f = q.audio
      BY <2>2 DEF q
    <3> QED BY <1>1, <1>3, <1>4, <1>6, <3>1
  <2>3. CASE f = new.audio /\ q.audio = NoFile
    <3>1. f = kept /\ f # NoFile
      BY <1>3, <1>6, <2>3 DEF q
    <3>2. f = now.audio /\ (replacing => q.row.audio = NoFile)
      BY <3>1 DEF q, now
    <3>3. dropped \subseteq q.row.files
      BY <1>2, <3>2 DEF q
    <3> QED BY <1>1, <1>3, <1>6, <3>2, <3>3
  <2> QED BY <1>3, <2>1, <2>2, <2>3
<1>7. LiveRow(new) => Tbms!Named(new) \subseteq disk \ dropped
  BY <1>1, <1>6 DEF now, q
<1>8. ASSUME now = q.row, NEW f \in Tbms!Named(now)
      PROVE  f \in Tbms!Named(new) \cup dropped
  <2>1. CASE f \in now.files
    BY <1>2, <1>3, <1>8, <2>1 DEF now, q
  <2>2. CASE f = now.audio
    <3>1. CASE replacing
      BY <1>2, <1>3, <1>8, <2>2, <3>1
    <3>2. CASE ~ replacing
      BY <1>3, <1>8, <2>2, <3>2 DEF now, q
    <3> QED BY <3>1, <3>2
  <2> QED BY <1>3, <1>8, <2>1, <2>2
<1>9. Tbms!Uploaded(q) \subseteq Tbms!Named(new)
  BY <1>3 DEF q
<1> QED BY <1>4, <1>5, <1>7, <1>8, <1>9 DEF q, now

LEMMA UpdateTbm == ASSUME TbmInv, NEW r \in Request, Tbms!Update(r) PROVE TbmInv'
<1> DEFINE q == caller[r]
           now == session[q.t]
<1>1. q.at = "update" /\ UNCHANGED <<made, companyOf>>
  BY DEF Tbms!Update
<1>2. PICK people \in SUBSET Person \ {{}}, gone \in SUBSET q.row.files,
           removeAudio \in BOOLEAN :
        LET replacing == q.audio # NoFile \/ removeAudio
            kept == IF replacing /\ q.row.audio # NoFile THEN NoFile ELSE now.audio
            added == people \ q.row.people
        IN  /\ now.content < MaxContent
            /\ q.audio = NoFile \/ kept = NoFile
            /\ Tbms!Write(q.t, q.row,
                 [now EXCEPT
                    !.content = now.content + 1,
                    !.people = (now.people \ (q.row.people \ people)) \cup added,
                    !.files = (now.files \ gone) \cup q.files,
                    !.audio = IF q.audio # NoFile THEN q.audio ELSE kept])
            /\ confirmed' = [confirmed EXCEPT ![q.t] = @ \ (q.row.people \ people)]
            /\ disk' = disk \ Tbms!RemovedByUpdate(q, gone, replacing)
            /\ Tbms!Queue(q.t, people, now.content + 1)
            /\ caller' = [caller EXCEPT ![r] = Tbms!Idle]
  BY DEF Tbms!Update, Tbms!To, Tbms!NextPeople
<1> DEFINE replacing == q.audio # NoFile \/ removeAudio
           kept == IF replacing /\ q.row.audio # NoFile THEN NoFile ELSE now.audio
           attending == (now.people \ (q.row.people \ people)) \cup (people \ q.row.people)
           files == (now.files \ gone) \cup q.files
           audio == IF q.audio # NoFile THEN q.audio ELSE kept
           content == now.content + 1
           new == [now EXCEPT !.content = content, !.people = attending, !.files = files,
                              !.audio = audio]
           dropped == Tbms!RemovedByUpdate(q, gone, replacing)
<1>3. /\ now.content < MaxContent /\ (q.audio = NoFile \/ kept = NoFile)
      /\ Tbms!Write(q.t, q.row, new)
      /\ confirmed' = [confirmed EXCEPT ![q.t] = @ \ (q.row.people \ people)]
      /\ disk' = disk \ dropped
      /\ Tbms!Queue(q.t, people, content)
      /\ caller' = [caller EXCEPT ![r] = Tbms!Idle]
  BY <1>2
<1>4. Calling(r)
  BY <1>1, CallOf
<1>5. /\ q.t \in Tbm /\ q \in TbmCall /\ q.row \in TbmRow /\ now \in TbmRow
      /\ now.status # "none" /\ confirmed[q.t] \subseteq now.people
  BY <1>1, <1>4, RecordFiles
<1>6. /\ now.content \in 0..MaxContent /\ MaxContent \in Nat
      /\ now.people \subseteq Person /\ now.files \subseteq File
      /\ now.audio \in File \cup {NoFile}
      /\ q.audio \in File \cup {NoFile} /\ q.files \subseteq File
  BY <1>5, DocumentsAssumption DEF TbmRow, TbmCall, Tbms!TbmAssumption
<1>7. /\ content \in 0..MaxContent /\ attending \subseteq Person /\ files \subseteq File
      /\ audio \in File \cup {NoFile}
  <2>1. content \in 0..MaxContent
    BY <1>3, <1>6
  <2>2. attending \subseteq Person
    BY <1>6
  <2>3. files \subseteq File
    BY <1>6
  <2>4. audio \in File \cup {NoFile}
    BY <1>6
  <2> QED BY <2>1, <2>2, <2>3, <2>4
<1>8. /\ attending = (now.people \ (q.row.people \ people)) \cup (people \ q.row.people)
      /\ files = (now.files \ gone) \cup q.files
      /\ audio = IF q.audio # NoFile THEN q.audio ELSE kept
  OBVIOUS
<1>9. PICK replaced \in BOOLEAN : replaced <=> replacing
  OBVIOUS
<1>10. /\ kept = IF replaced /\ q.row.audio # NoFile THEN NoFile ELSE now.audio
       /\ dropped = Tbms!RemovedByUpdate(q, gone, replaced)
  BY <1>9 DEF Tbms!RemovedByUpdate
<1>11. /\ q.audio = NoFile \/ kept = NoFile
       /\ replaced <=> q.audio # NoFile \/ removeAudio
  BY <1>3, <1>9
<1> HIDE DEF attending, files, audio, content, dropped, kept, replacing
<1>12. /\ new \in TbmRow /\ new.status = now.status /\ new.deleted = now.deleted
       /\ new.started = now.started /\ new.ended = now.ended
       /\ new.content = content /\ new.people = attending
       /\ new.files = files /\ new.audio = audio
  BY <1>5, <1>7 DEF TbmRow
<1>13. /\ session' = [session EXCEPT ![q.t] = new] /\ overtaken \subseteq overtaken'
       /\ q.t \notin overtaken' => now = q.row /\ q.t \notin overtaken
  BY <1>3, <1>5, WriteFresh
<1> HIDE DEF new
<1>14. LiveRow(new) <=> LiveRow(now)
  BY <1>12 DEF LiveRow
<1>15. /\ dropped \subseteq Tbms!Named(q.row)
       /\ new.audio \in {NoFile, now.audio, q.audio}
       /\ LiveRow(new) => Tbms!Named(new) \subseteq disk \ dropped
       /\ now = q.row => Tbms!Named(now) \subseteq Tbms!Named(new) \cup dropped
       /\ Tbms!Uploaded(q) \subseteq Tbms!Named(new)
  <2>1. gone \in SUBSET caller[r].row.files /\ removeAudio \in BOOLEAN /\ replaced \in BOOLEAN
    OBVIOUS
  <2>2. replaced <=> caller[r].audio # NoFile \/ removeAudio
    BY <1>11
  <2>3. kept = IF replaced /\ caller[r].row.audio # NoFile THEN NoFile
               ELSE session[caller[r].t].audio
    BY <1>10
  <2>4. caller[r].audio = NoFile \/ kept = NoFile
    BY <1>11
  <2>5. new \in TbmRow
    BY <1>12
  <2>6. new.files = (session[caller[r].t].files \ gone) \cup caller[r].files
    BY <1>8, <1>12
  <2>7. new.audio = IF caller[r].audio # NoFile THEN caller[r].audio ELSE kept
    BY <1>8, <1>12
  <2>8. LiveRow(new) => LiveRow(session[caller[r].t])
    BY <1>14
  <2>9. dropped = Tbms!RemovedByUpdate(caller[r], gone, replaced)
    BY <1>10
  <2> HIDE DEF q, now
  <2>11. Updating(r, gone, replaced, kept, new, dropped)
    BY <1>4, <2>1, <2>2, <2>3, <2>4, <2>5, <2>6, <2>7, <2>8, <2>9 DEF Updating
  <2>10. /\ dropped \subseteq Tbms!Named(caller[r].row)
         /\ new.audio \in {NoFile, session[caller[r].t].audio, caller[r].audio}
         /\ LiveRow(new) => Tbms!Named(new) \subseteq disk \ dropped
         /\ session[caller[r].t] = caller[r].row =>
               Tbms!Named(session[caller[r].t]) \subseteq Tbms!Named(new) \cup dropped
         /\ Tbms!Uploaded(caller[r]) \subseteq Tbms!Named(new)
    BY <2>11, UpdatedFiles
  <2> QED BY <2>10 DEF q, now
<1>16. Ends(r, new)
  BY <1>1, <1>3, <1>4, <1>8, <1>12, <1>13, <1>15 DEF Ends
<1>17. /\ confirmed' \in [Tbm -> SUBSET Person]
       /\ confirmed'[q.t] \subseteq new.people
       /\ \A t \in Tbm \ {q.t} : confirmed'[t] = confirmed[t]
  BY <1>3, <1>5, <1>8, <1>12 DEF TbmInv, TbmTypes
<1>18. /\ queued' \in [Tbm -> [Tbms!Language -> 0..MaxContent]]
       /\ \A u \in Tbm \ {q.t} : queued'[u] = queued[u]
       /\ \A p \in people : Speaks[p] # Korean => queued'[q.t][Speaks[p]] >= content
  BY <1>3, <1>5, <1>7, QueueAdds DEF TbmInv
<1>19. q.t \notin overtaken' /\ LiveRow(new) =>
           /\ TimesFitRow(new)
           /\ \A p \in new.people : Speaks[p] # Korean =>
                 queued'[q.t][Speaks[p]] >= new.content
  <2> SUFFICES ASSUME q.t \notin overtaken', LiveRow(new)
               PROVE  /\ TimesFitRow(new)
                      /\ \A p \in new.people : Speaks[p] # Korean =>
                            queued'[q.t][Speaks[p]] >= new.content
    OBVIOUS
  <2>1. now = q.row /\ q.t \notin overtaken /\ Tbms!Live(q.t)
    BY <1>13, <1>14 DEF LiveRow, Tbms!Live
  <2>2. (now.started <=> now.status # "CREATED") /\ (now.ended <=> now.status = "ENDED")
    BY <1>5, <2>1 DEF TbmInv, Tbms!TimesFit
  <2>3. attending \subseteq people
    BY <1>8, <2>1
  <2> QED BY <1>12, <1>18, <2>2, <2>3 DEF TimesFitRow
<1>20. ASSUME overtaken' = {}, NEW f \in disk',
              (Tbms!Live(q.t) /\ f \in Tbms!Named(now)) \/ f \in Tbms!Uploaded(q)
       PROVE  LiveRow(new) /\ f \in Tbms!Named(new)
  <2>1. now = q.row /\ LiveRow(q.row)
    BY <1>1, <1>4, <1>13, <1>20, RecordFiles
  <2>2. LiveRow(new)
    BY <1>14, <2>1
  <2>3. f \notin dropped
    BY <1>3, <1>20
  <2> QED BY <1>15, <1>20, <2>1, <2>2, <2>3
<1>21. /\ disk' \subseteq disk
       /\ disk \ disk' \subseteq Tbms!Named(q.row) \cup Tbms!Uploaded(q)
       /\ LiveRow(new) => Tbms!Named(new) \subseteq disk'
       /\ new.status # "none"
       /\ companyOf' = companyOf
  BY <1>1, <1>3, <1>5, <1>12, <1>15
<1> QED BY <1>13, <1>16, <1>17, <1>18, <1>19, <1>20, <1>21, EndKeeps

-----------------------------------------------------------------------------
(* The other steps. *)

LEMMA ArriveTbm ==
    ASSUME TbmInv, NEW r \in Request, NEW t \in Tbm,
           NEW at \in {"create", "update", "remove", "start", "end", "set"},
           NEW audio \in File \cup {NoFile}, NEW files \in SUBSET File,
           at \notin {"create", "update"} => audio = NoFile /\ files = {},
           Tbms!Arrive(r, t, at, audio, files)
    PROVE  TbmInv'
<1> DEFINE new == files \cup ({audio} \ {NoFile})
           q == [at |-> at, t |-> t, audio |-> audio, files |-> files, row |-> session[t]]
<1>1. /\ caller[r] = Tbms!Idle
      /\ audio = NoFile \/ audio \notin files
      /\ new \cap made = {} /\ disk' = disk \cup new /\ made' = made \cup new
      /\ at # "create" => Tbms!Live(t)
      /\ caller' = [caller EXCEPT ![r] = q]
      /\ UNCHANGED <<companyOf, session, confirmed, queued, overtaken>>
  BY DEF Tbms!Arrive, Tbms!To
<1>2. session[t] \in TbmRow /\ NoFile \notin File
  BY DocumentsAssumption DEF TbmInv, TbmTypes, Tbms!TbmAssumption
<1>3. /\ q \in TbmCall /\ q.at = at /\ q.t = t /\ q.audio = audio /\ q.files = files
      /\ q.row = session[t] /\ Tbms!Uploaded(q) = new
  BY <1>2 DEF TbmCall, Tbms!Uploaded
<1>4. new \subseteq File /\ (at \notin {"create", "update"} => new = {})
      /\ audio \notin files
  BY <1>1, <1>2
<1> HIDE DEF q, new
<1>5. /\ caller'[r] = q /\ \A s \in Request \ {r} : caller'[s] = caller[s]
      /\ caller' \in [Request -> {Tbms!Idle} \cup TbmCall]
  BY <1>1, <1>3 DEF TbmInv, TbmTypes
<1>6. /\ ~ Calling(r) /\ Calling(r)'
      /\ \A s \in Request \ {r} : Calling(s)' = Calling(s)
  BY <1>1, <1>3, <1>5, IdleIsNoCall DEF Calling
<1>7. TbmTypes'
  BY <1>1, <1>4, <1>5 DEF TbmInv, TbmTypes
<1>8. CallsFit'
  BY <1>1, <1>3, <1>4, <1>5, <1>6 DEF TbmInv, CallsFit, Tbms!Live, LiveRow
<1>9. \A u \in Tbm : \A x : Known(u, x)' => Known(u, x)
  BY <1>1, <1>3, <1>5, <1>6 DEF Known
<1>10. RowsApart'
  BY <1>9 DEF TbmInv, FilesInv, RowsApart
<1>11. \A s \in Request \ {r} : Calling(s) =>
           Tbms!Uploaded(caller[s]) \subseteq made /\ Tbms!Uploaded(caller[s]) \subseteq disk
  BY DEF TbmInv, FilesInv, FilesFresh, UploadsStored
<1>12. CallsApart'
  <2> SUFFICES ASSUME NEW s \in Request, NEW v \in Request, Calling(s)', Calling(v)', s # v
               PROVE  Tbms!Uploaded(caller'[s]) \cap Tbms!Uploaded(caller'[v]) = {}
    BY DEF CallsApart
  <2>1. CASE s = r
    BY <1>1, <1>3, <1>5, <1>6, <1>11, <2>1
  <2>2. CASE v = r
    BY <1>1, <1>3, <1>5, <1>6, <1>11, <2>2
  <2>3. CASE s # r /\ v # r
    BY <1>5, <1>6, <2>3 DEF TbmInv, FilesInv, CallsApart
  <2> QED BY <2>1, <2>2, <2>3
<1>13. \A u \in Tbm, x \in TbmRow : Known(u, x)' =>
           Known(u, x) /\ Tbms!Named(x) \subseteq made
  BY <1>9 DEF TbmInv, FilesInv, FilesFresh
<1>14. ASSUME NEW s \in Request, Calling(s)'
       PROVE  /\ caller'[s].audio \notin caller'[s].files
              /\ Tbms!Uploaded(caller'[s]) \subseteq made'
              /\ Tbms!Uploaded(caller'[s]) \subseteq disk'
              /\ \A u \in Tbm, x \in TbmRow : Known(u, x)' =>
                    Tbms!Uploaded(caller'[s]) \cap Tbms!Named(x) = {}
  <2>1. CASE s = r
    BY <1>1, <1>3, <1>4, <1>5, <1>13, <2>1
  <2>2. CASE s # r
    <3>1. caller'[s] = caller[s] /\ Calling(s)
      BY <1>5, <1>6, <1>14, <2>2
    <3>2. caller[s].audio \notin caller[s].files
          /\ \A u \in Tbm, x \in TbmRow : Known(u, x) =>
                Tbms!Uploaded(caller[s]) \cap Tbms!Named(x) = {}
      BY <3>1 DEF TbmInv, FilesInv, FilesFresh
    <3> QED BY <1>1, <1>11, <1>13, <2>2, <3>1, <3>2
  <2> QED BY <2>1, <2>2
<1>15. FilesFresh' /\ UploadsStored'
  BY <1>1, <1>13, <1>14 DEF FilesFresh, UploadsStored
<1>16. Tbms!NamedFilesExist'
  BY <1>1 DEF TbmInv, FilesInv, Tbms!NamedFilesExist, Tbms!Live
<1>17. Tbms!NoFileLeft'
  <2> SUFFICES ASSUME overtaken = {}, NEW f \in disk'
               PROVE  \/ \E u \in Tbm : Tbms!Live(u)' /\ f \in Tbms!Named(session'[u])
                      \/ \E s \in Request : /\ caller'[s].at \in {"create", "update"}
                                            /\ f \in Tbms!Uploaded(caller'[s])
    BY <1>1 DEF Tbms!NoFileLeft
  <2>1. CASE f \in new
    BY <1>3, <1>4, <1>5, <2>1
  <2>2. CASE f \in disk
    <3>1. \/ \E u \in Tbm : Tbms!Live(u) /\ f \in Tbms!Named(session[u])
          \/ \E s \in Request \ {r} : /\ caller[s].at \in {"create", "update"}
                                      /\ f \in Tbms!Uploaded(caller[s])
      BY <1>1, <2>2, IdleIsNoCall DEF TbmInv, FilesInv, Tbms!NoFileLeft
    <3> QED BY <1>1, <1>5, <3>1 DEF Tbms!Live
  <2> QED BY <1>1, <2>1, <2>2
<1>18. Tbms!TimesFit' /\ PeopleQueued'
  BY <1>1 DEF TbmInv, Tbms!TimesFit, PeopleQueued, Tbms!Live
<1> QED
  BY <1>7, <1>8, <1>10, <1>12, <1>15, <1>16, <1>17, <1>18 DEF TbmInv, FilesInv

\* Confirmations and organizations that move change no row and no file.
LEMMA TbmStays ==
    ASSUME TbmInv, companyOf' \in [Unit -> Company], confirmed' \in [Tbm -> SUBSET Person],
           \A t \in Tbm : confirmed'[t] \subseteq session[t].people
                          /\ (session[t].status = "none" => confirmed'[t] = {}),
           UNCHANGED <<session, disk, made, queued, caller, overtaken>>
    PROVE  TbmInv'
<1>1. TbmTypes' /\ CallsFit'
  BY DEF TbmInv, TbmTypes, CallsFit, Calling
<1>2. FilesInv'
  BY DEF TbmInv, FilesInv, RowsApart, CallsApart, FilesFresh, UploadsStored, Known, Calling,
         Tbms!NamedFilesExist, Tbms!NoFileLeft, Tbms!Live
<1>3. Tbms!TimesFit' /\ PeopleQueued'
  BY DEF TbmInv, Tbms!TimesFit, PeopleQueued, Tbms!Live
<1> QED BY <1>1, <1>2, <1>3 DEF TbmInv

LEMMA ConfirmTbm ==
    ASSUME TbmInv, NEW t \in Tbm, NEW p \in Person, Tbms!Confirm(t, p) PROVE TbmInv'
<1>1. /\ Tbms!Live(t) /\ p \in session[t].people
      /\ confirmed' = [confirmed EXCEPT ![t] = @ \cup {p}]
      /\ UNCHANGED <<companyOf, session, disk, made, queued, caller, overtaken>>
  BY DEF Tbms!Confirm
<1>2. companyOf' \in [Unit -> Company] /\ confirmed' \in [Tbm -> SUBSET Person]
  BY <1>1 DEF TbmInv, TbmTypes
<1>3. \A u \in Tbm : confirmed'[u] \subseteq session[u].people
                     /\ (session[u].status = "none" => confirmed'[u] = {})
  BY <1>1 DEF TbmInv, TbmTypes, CallsFit, Tbms!Live
<1> QED BY <1>1, <1>2, <1>3, TbmStays

LEMMA MoveTbm ==
    ASSUME TbmInv, NEW u \in Unit, NEW c \in Company, Tbms!MoveUnit(u, c) PROVE TbmInv'
<1>1. /\ companyOf' = [companyOf EXCEPT ![u] = c]
      /\ UNCHANGED <<session, confirmed, disk, made, queued, caller, overtaken>>
  BY DEF Tbms!MoveUnit
<1>2. companyOf' \in [Unit -> Company] /\ confirmed' \in [Tbm -> SUBSET Person]
      /\ \A t \in Tbm : confirmed'[t] \subseteq session[t].people
                        /\ (session[t].status = "none" => confirmed'[t] = {})
  BY <1>1 DEF TbmInv, TbmTypes, CallsFit
<1> QED BY <1>1, <1>2, TbmStays

LEMMA TbmStep == TbmInv /\ [Tbms!Next]_(Tbms!tbmVars) => TbmInv'
<1>1. ASSUME TbmInv, UNCHANGED Tbms!tbmVars PROVE TbmInv'
  <2>1. UNCHANGED <<companyOf, session, confirmed, disk, made, queued, caller, overtaken>>
    BY <1>1 DEF Tbms!tbmVars
  <2> QED BY <1>1, <2>1, TbmStays DEF TbmInv, TbmTypes, CallsFit
<1>2. ASSUME TbmInv, NEW r \in Request, NEW t \in Tbm,
             NEW at \in {"remove", "start", "end", "set"}, Tbms!Arrive(r, t, at, NoFile, {})
      PROVE  TbmInv'
  BY <1>2, ArriveTbm
<1>3. ASSUME TbmInv, NEW r \in Request, NEW t \in Tbm, NEW at \in {"create", "update"},
             NEW audio \in File \cup {NoFile}, NEW files \in SUBSET File,
             Tbms!Arrive(r, t, at, audio, files)
      PROVE  TbmInv'
  BY <1>3, ArriveTbm
<1> QED
  BY <1>1, <1>2, <1>3, CreateTbm, UpdateTbm, RemoveTbm, FailTbm, StartTbm, EndTbm, ChangeTbm,
     ConfirmTbm, MoveTbm
  DEF Tbms!Next

LEMMA TbmAlways == Tbms!Spec => []TbmInv
BY TbmStart, TbmStep, PTL DEF Tbms!Spec

\* The types of TBM records; what was confirmed was asked.
THEOREM TbmsTyped == Tbms!Spec => []Tbms!TypeOK
<1>1. TbmInv => Tbms!TypeOK
  BY DEF TbmInv, TbmTypes, CallsFit, TbmRow, Tbms!TypeOK
<1> QED BY <1>1, TbmAlways, PTL

\* A file that an open record names is on disk, and while no request was overtaken
\* none is left there that nobody names, whatever requests replace and remove.
THEOREM TbmFilesExist == Tbms!Spec => [](Tbms!NamedFilesExist /\ Tbms!NoFileLeft)
<1>1. TbmInv => Tbms!NamedFilesExist /\ Tbms!NoFileLeft
  BY DEF TbmInv, FilesInv
<1> QED BY <1>1, TbmAlways, PTL

\* start, end, changeStatus: the times of a record fit its status.
THEOREM TbmTimesFit == Tbms!Spec => []Tbms!TimesFit
<1>1. TbmInv => Tbms!TimesFit
  BY DEF TbmInv
<1> QED BY <1>1, TbmAlways, PTL

\* queueTbmTranslations: the content is queued for the language of every attendee.
THEOREM AttendeesTranslated == Tbms!Spec => []Tbms!LanguagesQueued
<1>1. TbmInv => Tbms!LanguagesQueued
  <2> SUFFICES ASSUME TbmInv, NEW t \in Tbm \ overtaken, Tbms!Live(t),
                      NEW l \in Tbms!NotQueued(t)
               PROVE  FALSE
    BY DEF Tbms!LanguagesQueued
  <2>1. PICK p \in Tbms!Visible(session[t]) : l = Speaks[p]
    BY DEF Tbms!NotQueued
  <2>2. p \in session[t].people /\ l # Korean /\ queued[t][l] < session[t].content
    BY <2>1 DEF Tbms!NotQueued, Tbms!Visible
  <2>3. p \in Person /\ l \in Tbms!Language
    BY <2>1, <2>2 DEF TbmInv, TbmTypes, TbmRow, Tbms!Language
  <2>4. queued[t][l] \in Int /\ session[t].content \in Int
    BY <2>3 DEF TbmInv, TbmTypes, TbmRow
  <2>5. queued[t][l] >= session[t].content
    BY <2>1, <2>2, <2>3 DEF TbmInv, PeopleQueued
  <2> QED BY <2>2, <2>4, <2>5
<1> QED BY <1>1, TbmAlways, PTL

LEMMA CountsPeople == \A S : Tbms!Cardinality(S) = Cardinality(S)
BY DEF Tbms!Cardinality, Cardinality

\* findAll, findOne, getDateRange, buildAttendeeSummary: an administrator opens exactly
\* what the list shows, with the attendees that it counts; the two filters divide it.
THEOREM TbmListsAgree == Tbms!Spec => []Tbms!ListsAgree
<1>1. TbmInv => Tbms!ListsAgree
  <2> SUFFICES ASSUME TbmInv, NEW o \in Tbms!Workplace
               PROVE  LET S == Tbms!QueryScope(Tbms!Subtree(o), o)
                          all == Tbms!FindAll(S, "ALL")
                      IN  /\ all = {t \in Tbm : Tbms!Live(t) /\ Tbms!InScope(session[t], S)}
                          /\ Tbms!DateRows(S, "HAS_PENDING")
                               = all \ Tbms!FindAll(S, "ALL_CONFIRMED")
                          /\ \A t \in all :
                                /\ Tbms!Summary(t).total = Tbms!Cardinality(Tbms!FindOne(t, S))
                                /\ Tbms!Summary(t).confirmed <= Tbms!Summary(t).total
                                /\ Tbms!Recipients(t) = Tbms!FindOne(t, S)
                          /\ \A p \in Person : At[p] \in S =>
                                Tbms!InCompany(Tbms!Candidates(p, S), Tbms!CompanyOf(At[p]))
    BY DEF Tbms!ListsAgree
  <2> DEFINE S == Tbms!QueryScope(Tbms!Subtree(o), o)
             all == Tbms!FindAll(S, "ALL")
  <2>1. \A row : Tbms!VisibleIn(row, S) <=> Tbms!InScope(row, S)
    BY DEF Tbms!VisibleIn, Tbms!InScope
  <2>2. \A row : Tbms!VisibleIn(row, S) => Tbms!ScopeWhere(row, S)
    BY DEF Tbms!VisibleIn, Tbms!ScopeWhere, Tbms!Visible
  <2>3. \A t \in Tbm : /\ Tbms!Matches(t, "ALL")
                       /\ Tbms!Matches(t, "HAS_PENDING") <=> ~ Tbms!Matches(t, "ALL_CONFIRMED")
    BY DEF Tbms!Matches
  <2>4. all = {t \in Tbm : Tbms!Live(t) /\ Tbms!InScope(session[t], S)}
    BY <2>1, <2>2, <2>3 DEF Tbms!FindAll
  <2>5. Tbms!DateRows(S, "HAS_PENDING") = all \ Tbms!FindAll(S, "ALL_CONFIRMED")
    BY <2>3 DEF Tbms!FindAll, Tbms!DateRows
  <2>6. ASSUME NEW t \in all
        PROVE  /\ Tbms!Summary(t).total = Tbms!Cardinality(Tbms!FindOne(t, S))
               /\ Tbms!Summary(t).confirmed <= Tbms!Summary(t).total
               /\ Tbms!Recipients(t) = Tbms!FindOne(t, S)
    <3> DEFINE seen == Tbms!Visible(session[t])
    <3>1. Tbms!FindOne(t, S) = seen /\ Tbms!Recipients(t) = seen
      BY <2>4 DEF Tbms!FindOne, Tbms!Recipients
    <3>2. IsFiniteSet(seen)
      <4>1. seen \in SUBSET Person
        BY <2>4 DEF Tbms!Visible, TbmInv, TbmTypes, TbmRow
      <4>2. IsFiniteSet(Person)
        BY DocumentsAssumption DEF Tbms!TbmAssumption, Tbms!IsFiniteSet, IsFiniteSet
      <4> QED BY <4>1, <4>2, FS_Subset
    <3>3. Cardinality(seen \cap confirmed[t]) <= Cardinality(seen)
      <4>1. seen \cap confirmed[t] \in SUBSET seen
        OBVIOUS
      <4> HIDE DEF seen
      <4> QED BY <3>2, <4>1, FS_Subset
    <3> QED BY <3>1, <3>3, CountsPeople DEF Tbms!Summary
  <2>7. ASSUME NEW p \in Person
        PROVE  Tbms!InCompany(Tbms!Candidates(p, S), Tbms!CompanyOf(At[p]))
    BY DEF Tbms!InCompany, Tbms!Candidates
  <2> QED BY <2>4, <2>5, <2>6, <2>7
<1> QED BY <1>1, TbmAlways, PTL

-----------------------------------------------------------------------------
(* Notices. *)

NoticeRow ==
    [org : Org \cup {NoOrg}, by : Account \cup {NoOrg}, template : NoticeTemplate \cup {NoOrg},
     content : 0..MaxContent, files : SUBSET File]

\* What a request on a notice has read, at each point of its way.
DeskCall ==
    [at : {"free"}] \cup [at : {"sweep"}, files : SUBSET File]
    \cup [at : {"create"}, n : Notice, a : Account, org : Org,
          template : NoticeTemplate \cup {NoOrg}, files : SUBSET File]
    \cup [at : {"update"}, n : Notice, a : Account, org : Org,
          template : NoticeTemplate \cup {NoOrg}, files : SUBSET File, gone : SUBSET File]
    \cup [at : {"remove", "unbundle"}, n : Notice, gone : SUBSET File]
    \cup [at : {"after"}, n : Notice, content : 0..MaxContent, gone : SUBSET File]
    \cup [at : {"store"}, n : Notice, content : 0..MaxContent, found : 0..MaxContent]

NoticeTypes ==
    /\ notice \in [Notice -> NoticeRow]
    /\ layout \in [NoticeTemplate -> Org \cup {NoOrg}]
    /\ stored \subseteq File /\ shared \subseteq File /\ known \subseteq File
    /\ korean \in [Notice -> 0..MaxContent]
    /\ desk \in [Request -> DeskCall]
    /\ \A n \in Notice : notice[n].template # NoOrg => layout[notice[n].template] # NoOrg

Naming(q) == q.at \in {"create", "update"}
Dropping(q) == q.at \in {"update", "remove", "after", "unbundle"}
Saving(q, n) == q.at \in {"after", "store"} /\ q.n = n
Storing(q, n) == q.at = "store" /\ q.n = n

\* The files that a request names, will sweep from disk, will drop.
NamedBy(q) == IF Naming(q) THEN q.files ELSE {}
SweptBy(q) == IF q.at = "sweep" THEN q.files ELSE {}
DroppedBy(q) == IF Dropping(q) THEN q.gone ELSE {}

\* A notice that was saved keeps its count of saves, also when it is removed, so
\* that it is not created again; a text that is on its way is not newer.
SavesFit ==
    /\ \A n \in Notice :
          /\ ~ Notices!Posted(n) => notice[n].files = {}
          /\ Notices!Posted(n) => notice[n].content # 0
          /\ korean[n] <= notice[n].content
    /\ \A r \in Request :
          /\ desk[r].at = "unbundle" =>
                ~ Notices!Posted(desk[r].n) /\ notice[desk[r].n].content # 0
          /\ desk[r].at \in {"after", "store"} =>
                desk[r].content # 0 /\ desk[r].content <= notice[desk[r].n].content

AllKnown ==
    /\ \A n \in Notice : notice[n].files \subseteq known
    /\ \A r \in Request : NamedBy(desk[r]) \cup DroppedBy(desk[r]) \subseteq known

\* A file that no two requests named is stored as long as it is named, by one
\* notice or by one request, and nobody who will remove it finds it named.
OwnFile(f) ==
    /\ \A n \in Notice : f \in notice[n].files =>
          f \in stored /\ \A m \in Notice : f \in notice[m].files => m = n
    /\ \A r \in Request : f \in NamedBy(desk[r]) =>
          /\ f \in stored
          /\ \A n \in Notice : f \notin notice[n].files
          /\ \A s \in Request : f \in NamedBy(desk[s]) => s = r
    /\ \A r \in Request : f \in SweptBy(desk[r]) =>
          /\ \A n \in Notice : f \notin notice[n].files
          /\ \A s \in Request : f \notin NamedBy(desk[s])
    /\ \A r \in Request : f \in DroppedBy(desk[r]) =>
          /\ \A s \in Request : f \notin NamedBy(desk[s])
          /\ \A n \in Notice : f \in notice[n].files =>
                n = desk[r].n /\ desk[r].at \in {"update", "remove"}
FilesOwned == \A f \in File \ shared : OwnFile(f)

\* As long as one text of a notice is stored at a time, the one who stores it has
\* found what is there, and the newest is there or on its way.
TextOf(n) ==
    /\ \A r, s \in Request : Storing(desk[r], n) /\ Storing(desk[s], n) => r = s
    /\ \A r \in Request : Storing(desk[r], n) => desk[r].found = korean[n]
    /\ \/ korean[n] = notice[n].content
       \/ \E r \in Request : Saving(desk[r], n) /\ desk[r].content = notice[n].content
TextsFit == \A n \in Notice \ torn : Notices!Posted(n) => TextOf(n)

NoticeInv == NoticeTypes /\ SavesFit /\ AllKnown /\ FilesOwned /\ TextsFit

LEMMA NoticeConstants ==
    /\ NoOrg \notin Org /\ Notices!Target \subseteq Org
    /\ MaxContent \in Nat \ {0} /\ 0..MaxContent \subseteq Int
    /\ \A x : x \in 0..MaxContent <=> x \in Int /\ 0 <= x /\ x <= MaxContent
BY DocumentsAssumption, ScopeAssumption DEF Notices!Target, Notices!NoticeAssumption

\* The fields of a request at a point.
LEMMA DeskFields ==
    ASSUME NEW q \in DeskCall
    PROVE  /\ q.at \in {"free", "sweep", "create", "update", "remove", "unbundle", "after",
                        "store"}
           /\ q.at \in {"sweep", "create", "update"} => q.files \in SUBSET File
           /\ Dropping(q) => q.gone \in SUBSET File
           /\ q.at \in {"create", "update"} =>
                 q.a \in Account /\ q.org \in Org /\ q.template \in NoticeTemplate \cup {NoOrg}
           /\ q.at \notin {"free", "sweep"} => q.n \in Notice
           /\ q.at \in {"after", "store"} => q.content \in 0..MaxContent
           /\ q.at = "store" => q.found \in 0..MaxContent
           /\ NamedBy(q) \subseteq File /\ SweptBy(q) \subseteq File
           /\ DroppedBy(q) \subseteq File
BY DEF DeskCall, Dropping, NamedBy, SweptBy, DroppedBy, Naming

LEMMA FreeCall ==
    /\ Notices!Free \in DeskCall /\ Notices!Free.at = "free"
    /\ NamedBy(Notices!Free) = {} /\ SweptBy(Notices!Free) = {}
    /\ DroppedBy(Notices!Free) = {}
    /\ \A n : ~ Saving(Notices!Free, n) /\ ~ Storing(Notices!Free, n)
BY DEF Notices!Free, DeskCall, NamedBy, SweptBy, DroppedBy, Naming, Dropping, Saving, Storing

LEMMA NoNoticeRow ==
    /\ Notices!NoNotice \in NoticeRow /\ Notices!NoNotice.org = NoOrg
    /\ Notices!NoNotice.files = {} /\ Notices!NoNotice.content = 0
    /\ Notices!NoNotice.template = NoOrg
BY NoticeConstants DEF Notices!NoNotice, NoticeRow

LEMMA NoticeStart == Notices!Init => NoticeInv
<1> SUFFICES ASSUME Notices!Init PROVE NoticeInv
  OBVIOUS
<1> USE DEF Notices!Init
<1>1. \A n \in Notice : notice[n] = Notices!NoNotice /\ ~ Notices!Posted(n)
  BY NoNoticeRow DEF Notices!Posted
<1>2. \A r \in Request : desk[r] = Notices!Free
  OBVIOUS
<1>3. NoticeTypes
  BY <1>1, FreeCall, NoNoticeRow, NoticeConstants DEF NoticeTypes
<1>4. SavesFit
  BY <1>1, <1>2, FreeCall, NoNoticeRow DEF SavesFit
<1>5. AllKnown /\ FilesOwned
  BY <1>1, <1>2, FreeCall, NoNoticeRow DEF AllKnown, FilesOwned, OwnFile
<1>6. TextsFit
  BY <1>1 DEF TextsFit
<1> QED BY <1>3, <1>4, <1>5, <1>6 DEF NoticeInv

\* A step of a request.
LEMMA GoesOn ==
    ASSUME NoticeTypes, NEW r \in Request, NEW next \in DeskCall, Notices!Goes(r, next)
    PROVE  /\ desk' \in [Request -> DeskCall] /\ desk'[r] = next
           /\ \A s \in Request \ {r} : desk'[s] = desk[s]
BY DEF NoticeTypes, Notices!Goes

\* A step of a request that saves no text.
LEMMA TextsKept ==
    ASSUME NoticeInv, NEW r \in Request, NEW next \in DeskCall, Notices!Goes(r, next),
           desk[r].at \notin {"after", "store"}, next.at \notin {"after", "store"},
           UNCHANGED <<notice, korean, torn>>
    PROVE  TextsFit'
<1>1. \A s \in Request, n \in Notice :
        /\ Saving(desk'[s], n) <=> Saving(desk[s], n)
        /\ Storing(desk'[s], n) <=> Storing(desk[s], n)
        /\ Saving(desk[s], n) => desk'[s] = desk[s]
  BY GoesOn DEF NoticeInv, Saving, Storing
<1>2. ASSUME NEW n \in Notice \ torn, Notices!Posted(n)
      PROVE  TextOf(n)'
  <2>1. TextOf(n)
    BY <1>2 DEF NoticeInv, TextsFit
  <2>2. \A s \in Request : Storing(desk[s], n) => desk'[s] = desk[s]
    BY <1>1 DEF Storing, Saving
  <2> QED BY <1>1, <2>1, <2>2 DEF TextOf
<1> QED BY <1>2 DEF TextsFit, Notices!Posted

-----------------------------------------------------------------------------
(* Uploads. *)

LEMMA UploadNotice ==
    ASSUME NoticeInv, NEW f \in File, Notices!Upload(f) PROVE NoticeInv'
<1> USE DEF Notices!Upload
<1>1. NoticeTypes'
  BY DEF NoticeInv, NoticeTypes
<1>2. SavesFit' /\ AllKnown'
  BY DEF NoticeInv, SavesFit, AllKnown, Notices!Posted
<1>3. FilesOwned'
  BY DEF NoticeInv, FilesOwned, OwnFile
<1>4. TextsFit'
  BY DEF NoticeInv, TextsFit, TextOf, Notices!Posted
<1> QED BY <1>1, <1>2, <1>3, <1>4 DEF NoticeInv

\* The requests of FilesAt.
LEMMA FilesAtPoints ==
    ASSUME NEW points, NEW r \in Request, desk[r].at \in points
    PROVE  desk[r].files \subseteq Notices!FilesAt(points)
BY DEF Notices!FilesAt

LEMMA CheckCleanupNotice ==
    ASSUME NoticeInv, NEW r \in Request, NEW f \in File, Notices!CheckCleanup(r, f)
    PROVE  NoticeInv'
<1> DEFINE next == [at |-> "sweep", files |-> {f}]
<1>1. /\ desk[r] = Notices!Free /\ Notices!Unreferenced(f) /\ Notices!Goes(r, next)
      /\ shared' = shared \cup ({f} \cap Notices!FilesAt({"create", "update"}))
      /\ UNCHANGED <<notice, layout, stored, korean, torn, known>>
  BY DEF Notices!CheckCleanup
<1>2. /\ next \in DeskCall /\ next.at = "sweep" /\ SweptBy(next) = {f}
      /\ NamedBy(next) = {} /\ DroppedBy(next) = {}
  BY DEF DeskCall, SweptBy, NamedBy, DroppedBy, Naming, Dropping
<1> HIDE DEF next
<1>3. /\ desk' \in [Request -> DeskCall] /\ desk'[r] = next
      /\ \A s \in Request \ {r} : desk'[s] = desk[s]
  BY <1>1, <1>2, GoesOn DEF NoticeInv
<1>4. NoticeTypes'
  BY <1>1, <1>3 DEF NoticeInv, NoticeTypes
<1>5. SavesFit'
  BY <1>1, <1>2, <1>3 DEF NoticeInv, SavesFit, Notices!Posted
<1>6. AllKnown'
  BY <1>1, <1>2, <1>3 DEF NoticeInv, AllKnown
<1>7. ASSUME NEW g \in File \ shared' PROVE OwnFile(g)'
  <2>1. OwnFile(g)
    BY <1>1, <1>7 DEF NoticeInv, FilesOwned
  <2>2. ASSUME g = f, NEW s \in Request PROVE g \notin NamedBy(desk[s])
    BY <1>1, <1>7, <2>2, FilesAtPoints DEF NamedBy, Naming
  <2>3. \A s \in Request : /\ NamedBy(desk'[s]) \subseteq NamedBy(desk[s])
                           /\ g \in SweptBy(desk'[s]) => g \in SweptBy(desk[s]) \/ g = f
                           /\ g \in DroppedBy(desk'[s]) => desk'[s] = desk[s]
    BY <1>2, <1>3
  <2>4. g = f => \A n \in Notice : g \notin notice[n].files
    BY <1>1 DEF Notices!Unreferenced
  <2> QED BY <1>1, <2>1, <2>2, <2>3, <2>4 DEF OwnFile
<1>8. TextsFit'
  BY <1>1, <1>2, FreeCall, TextsKept
<1> QED BY <1>4, <1>5, <1>6, <1>7, <1>8 DEF NoticeInv, FilesOwned

LEMMA CleanupNotice ==
    ASSUME NoticeInv, NEW r \in Request, Notices!Cleanup(r)
    PROVE  NoticeInv'
<1>1. /\ desk[r].at = "sweep" /\ stored' = stored \ desk[r].files
      /\ Notices!Goes(r, Notices!Free)
      /\ UNCHANGED <<notice, layout, korean, torn, known, shared>>
  BY DEF Notices!Cleanup
<1>2. /\ desk' \in [Request -> DeskCall] /\ desk'[r] = Notices!Free
      /\ \A s \in Request \ {r} : desk'[s] = desk[s]
  BY <1>1, FreeCall, GoesOn DEF NoticeInv
<1>3. NoticeTypes'
  BY <1>1, <1>2 DEF NoticeInv, NoticeTypes
<1>4. SavesFit'
  BY <1>1, <1>2, FreeCall DEF NoticeInv, SavesFit, Notices!Posted
<1>5. AllKnown'
  BY <1>1, <1>2, FreeCall DEF NoticeInv, AllKnown
<1>6. ASSUME NEW g \in File \ shared' PROVE OwnFile(g)'
  <2>1. OwnFile(g)
    BY <1>1, <1>6 DEF NoticeInv, FilesOwned
  <2>2. \A s \in Request : \/ desk'[s] = desk[s]
                           \/ /\ g \notin NamedBy(desk'[s]) /\ g \notin SweptBy(desk'[s])
                              /\ g \notin DroppedBy(desk'[s])
    BY <1>2, FreeCall
  <2>3. \/ g \in stored <=> g \in stored'
        \/ /\ \A n \in Notice : g \notin notice[n].files
           /\ \A s \in Request : g \notin NamedBy(desk[s])
    BY <1>1, <2>1 DEF OwnFile, SweptBy
  <2> QED BY <1>1, <2>1, <2>2, <2>3 DEF OwnFile
<1>7. TextsFit'
  BY <1>1, FreeCall, TextsKept
<1> QED BY <1>3, <1>4, <1>5, <1>6, <1>7 DEF NoticeInv, FilesOwned

-----------------------------------------------------------------------------
(* The requests that look at a notice. *)

\* A request that leaves for its first point names files and is to drop others.
LEMMA ChecksNotice ==
    ASSUME NoticeInv, NEW r \in Request, NEW next \in DeskCall, Notices!Goes(r, next),
           desk[r] = Notices!Free, next.at \in {"create", "update", "remove"},
           NamedBy(next) \subseteq stored,
           DroppedBy(next) \subseteq IF next.at = "create" THEN {} ELSE notice[next.n].files,
           NamedBy(next) \cap DroppedBy(next) = {},
           known' = known \cup NamedBy(next),
           \A f \in NamedBy(next) : f \in known \cup Notices!FilesAt({"sweep"}) => f \in shared',
           shared \subseteq shared', shared' \subseteq File,
           UNCHANGED <<notice, layout, stored, korean, torn>>
    PROVE  NoticeInv'
<1>1. /\ desk' \in [Request -> DeskCall] /\ desk'[r] = next
      /\ \A s \in Request \ {r} : desk'[s] = desk[s]
  BY GoesOn DEF NoticeInv
<1>2. /\ NamedBy(next) \subseteq File /\ SweptBy(next) = {} /\ NamedBy(desk[r]) = {}
      /\ SweptBy(desk[r]) = {} /\ DroppedBy(desk[r]) = {}
  BY DeskFields, FreeCall DEF SweptBy
<1>3. NoticeTypes'
  BY <1>1, <1>2 DEF NoticeInv, NoticeTypes
<1>4. SavesFit'
  BY <1>1 DEF NoticeInv, SavesFit, Notices!Posted
<1>5. AllKnown'
  <2>1. next.at # "create" => next.n \in Notice
    BY DeskFields
  <2>2. DroppedBy(next) \subseteq known
    BY <2>1 DEF NoticeInv, AllKnown
  <2> QED BY <1>1, <2>2 DEF NoticeInv, AllKnown
<1>6. ASSUME NEW g \in File \ shared' PROVE OwnFile(g)'
  <2>1. OwnFile(g)
    BY <1>6 DEF NoticeInv, FilesOwned
  <2>2. ASSUME g \in NamedBy(next)
        PROVE  /\ \A n \in Notice : g \notin notice[n].files
               /\ \A s \in Request : /\ g \notin NamedBy(desk[s])
                                     /\ g \notin SweptBy(desk[s])
                                     /\ g \notin DroppedBy(desk[s])
    <3>1. g \notin known /\ g \notin Notices!FilesAt({"sweep"})
      BY <1>6, <2>2
    <3>2. \A s \in Request : g \notin SweptBy(desk[s])
      BY <3>1, FilesAtPoints DEF SweptBy
    <3> QED BY <3>1, <3>2 DEF NoticeInv, AllKnown
  <2>3. ASSUME g \in DroppedBy(next)
        PROVE  /\ next.n \in Notice /\ g \in notice[next.n].files
               /\ next.at \in {"update", "remove"} /\ g \notin NamedBy(next)
    BY <2>3, DeskFields
  <2>4. ASSUME NEW n \in Notice, g \in notice[n].files
        PROVE  /\ g \in stored /\ \A m \in Notice : g \in notice[m].files => m = n
               /\ g \notin NamedBy(next) /\ \A s \in Request : g \notin NamedBy(desk[s])
    BY <2>1, <2>2, <2>4 DEF OwnFile
  <2>5. ASSUME NEW s \in Request, g \in NamedBy(desk'[s])
        PROVE  /\ g \in stored' /\ \A n \in Notice : g \notin notice'[n].files
               /\ \A t \in Request : g \in NamedBy(desk'[t]) => t = s
    <3>1. CASE s = r
      BY <1>1, <2>2, <2>5, <3>1
    <3>2. CASE s # r
      BY <1>1, <2>1, <2>2, <2>5, <3>2 DEF OwnFile
    <3> QED BY <3>1, <3>2
  <2>6. ASSUME NEW s \in Request, g \in SweptBy(desk'[s])
        PROVE  /\ \A n \in Notice : g \notin notice'[n].files
               /\ \A t \in Request : g \notin NamedBy(desk'[t])
    BY <1>1, <1>2, <2>1, <2>2, <2>6 DEF OwnFile
  <2>7. ASSUME NEW s \in Request, g \in DroppedBy(desk'[s])
        PROVE  /\ \A t \in Request : g \notin NamedBy(desk'[t])
               /\ \A n \in Notice : g \in notice'[n].files =>
                    n = desk'[s].n /\ desk'[s].at \in {"update", "remove"}
    <3>1. CASE s = r
      BY <1>1, <2>3, <2>4, <2>7, <3>1
    <3>2. CASE s # r
      BY <1>1, <2>1, <2>2, <2>7, <3>2 DEF OwnFile
    <3> QED BY <3>1, <3>2
  <2> QED BY <2>4, <2>5, <2>6, <2>7 DEF OwnFile
<1>7. TextsFit'
  BY FreeCall, TextsKept
<1> QED BY <1>3, <1>4, <1>5, <1>6, <1>7 DEF NoticeInv, FilesOwned

LEMMA NamesFiles ==
    ASSUME NoticeInv, NEW files \in SUBSET File, Notices!Naming(files)
    PROVE  /\ known' = known \cup files /\ shared \subseteq shared' /\ shared' \subseteq File
           /\ \A f \in files : f \in known \cup Notices!FilesAt({"sweep"}) => f \in shared'
BY DEF Notices!Naming, NoticeInv, NoticeTypes

LEMMA CheckCreateNotice ==
    ASSUME NoticeInv, NEW r \in Request, NEW n \in Notice, NEW a \in Account,
           NEW o \in Notices!Target, NEW t \in NoticeTemplate \cup {NoOrg},
           NEW files \in SUBSET stored, Notices!CheckCreate(r, n, a, o, t, files)
    PROVE  NoticeInv'
<1> DEFINE next == [at |-> "create", n |-> n, a |-> a, org |-> o, template |-> t,
                    files |-> files]
<1>1. /\ desk[r] = Notices!Free /\ Notices!Naming(files) /\ Notices!Goes(r, next)
      /\ UNCHANGED <<notice, layout, stored, korean, torn>>
  BY DEF Notices!CheckCreate
<1>2. files \in SUBSET File
  BY DEF NoticeInv, NoticeTypes
<1>3. /\ next \in DeskCall /\ next.at = "create" /\ NamedBy(next) = files
      /\ DroppedBy(next) = {}
  BY <1>2, NoticeConstants DEF DeskCall, NamedBy, DroppedBy, Naming, Dropping
<1> HIDE DEF next
<1> QED BY <1>1, <1>2, <1>3, NamesFiles, ChecksNotice

LEMMA CheckUpdateNotice ==
    ASSUME NoticeInv, NEW r \in Request, NEW n \in Notice, NEW a \in Account,
           NEW o \in Notices!Target, NEW t \in NoticeTemplate \cup {NoOrg},
           NEW files \in SUBSET stored, NEW named \in BOOLEAN,
           NEW keep \in SUBSET notice[n].files,
           Notices!CheckUpdate(r, n, a, o, named, t, keep, files)
    PROVE  NoticeInv'
<1> DEFINE gone == notice[n].files \ keep
           next == [at |-> "update", n |-> n, a |-> a, org |-> o, template |-> t,
                    files |-> files, gone |-> gone]
<1>1. /\ desk[r] = Notices!Free /\ Notices!Naming(files) /\ Notices!Goes(r, next)
      /\ files \cap notice[n].files = {}
      /\ UNCHANGED <<notice, layout, stored, korean, torn>>
  BY DEF Notices!CheckUpdate, Notices!Attachments
<1>2. files \in SUBSET File /\ gone \in SUBSET File /\ gone \subseteq notice[n].files
  BY DEF NoticeInv, NoticeTypes, NoticeRow
<1> HIDE DEF gone
<1>3. /\ next \in DeskCall /\ next.at = "update" /\ next.n = n /\ NamedBy(next) = files
      /\ DroppedBy(next) = gone
  BY <1>2, NoticeConstants DEF DeskCall, NamedBy, DroppedBy, Naming, Dropping
<1> HIDE DEF next
<1> QED BY <1>1, <1>2, <1>3, NamesFiles, ChecksNotice

LEMMA CheckRemoveNotice ==
    ASSUME NoticeInv, NEW r \in Request, NEW n \in Notice, NEW a \in Account,
           Notices!CheckRemove(r, n, a)
    PROVE  NoticeInv'
<1> DEFINE next == [at |-> "remove", n |-> n, gone |-> notice[n].files]
<1>1. /\ desk[r] = Notices!Free /\ Notices!Goes(r, next)
      /\ UNCHANGED <<notice, layout, stored, korean, torn, known, shared>>
  BY DEF Notices!CheckRemove
<1>2. /\ next \in DeskCall /\ next.at = "remove" /\ next.n = n /\ NamedBy(next) = {}
      /\ DroppedBy(next) = notice[n].files /\ shared \subseteq File
  BY DEF NoticeInv, NoticeTypes, NoticeRow, DeskCall, NamedBy, DroppedBy, Naming, Dropping
<1> HIDE DEF next
<1> QED BY <1>1, <1>2, ChecksNotice

\* A request that is refused.
LEMMA RefuseNotice ==
    ASSUME NoticeInv, NEW r \in Request, Notices!Refuse(r)
    PROVE  NoticeInv'
<1>1. /\ desk[r].at \in {"create", "update", "remove"} /\ Notices!Goes(r, Notices!Free)
      /\ UNCHANGED <<notice, layout, stored, korean, torn, known, shared>>
  BY DEF Notices!Refuse
<1>2. /\ desk' \in [Request -> DeskCall] /\ desk'[r] = Notices!Free
      /\ \A s \in Request \ {r} : desk'[s] = desk[s]
  BY <1>1, FreeCall, GoesOn DEF NoticeInv
<1>3. NoticeTypes'
  BY <1>1, <1>2 DEF NoticeInv, NoticeTypes
<1>4. SavesFit'
  BY <1>1, <1>2, FreeCall DEF NoticeInv, SavesFit, Notices!Posted
<1>5. AllKnown'
  BY <1>1, <1>2, FreeCall DEF NoticeInv, AllKnown
<1>6. ASSUME NEW g \in File \ shared' PROVE OwnFile(g)'
  <2>1. OwnFile(g)
    BY <1>1, <1>6 DEF NoticeInv, FilesOwned
  <2>2. \A s \in Request : \/ desk'[s] = desk[s]
                           \/ /\ g \notin NamedBy(desk'[s]) /\ g \notin SweptBy(desk'[s])
                              /\ g \notin DroppedBy(desk'[s])
    BY <1>2, FreeCall
  <2> QED BY <1>1, <2>1, <2>2 DEF OwnFile
<1>7. TextsFit'
  BY <1>1, FreeCall, TextsKept
<1> QED BY <1>3, <1>4, <1>5, <1>6, <1>7 DEF NoticeInv, FilesOwned

-----------------------------------------------------------------------------
(* The transactions. *)

\* A notice is saved: the files that are dropped leave the row, those that were
\* named come to it, and the request goes on to store the text.
SavesNotice(r, row) ==
    LET q == desk[r]
        next == [at |-> "after", n |-> q.n, content |-> row.content, gone |-> DroppedBy(q)]
    IN  /\ Naming(q)
        /\ row \in NoticeRow /\ row.org # NoOrg
        /\ row.template # NoOrg => layout[row.template] # NoOrg
        /\ row.content = notice[q.n].content + 1
        /\ row.files = (notice[q.n].files \ DroppedBy(q)) \cup NamedBy(q)
        /\ notice' = [notice EXCEPT ![q.n] = row]
        /\ Notices!Goes(r, next)
        /\ UNCHANGED <<layout, stored, korean, torn, known, shared>>

LEMMA NoticeSaved ==
    ASSUME NoticeInv, NEW r \in Request, NEW row, SavesNotice(r, row),
           Notices!Posted(desk[r].n) \/ Notices!New(desk[r].n)
    PROVE  NoticeInv'
<1> DEFINE q == desk[r]
           next == [at |-> "after", n |-> q.n, content |-> row.content, gone |-> DroppedBy(q)]
<1>1. /\ Naming(q) /\ row \in NoticeRow /\ row.org # NoOrg
      /\ row.template # NoOrg => layout[row.template] # NoOrg
      /\ row.content = notice[q.n].content + 1
      /\ row.files = (notice[q.n].files \ DroppedBy(q)) \cup NamedBy(q)
      /\ notice' = [notice EXCEPT ![q.n] = row]
      /\ Notices!Goes(r, next)
      /\ UNCHANGED <<layout, stored, korean, torn, known, shared>>
  BY DEF SavesNotice
<1>2. q \in DeskCall
  BY DEF NoticeInv, NoticeTypes
<1>3. /\ q.n \in Notice /\ DroppedBy(q) \subseteq File /\ NamedBy(q) \subseteq File
      /\ row.content \in 0..MaxContent /\ row.files \subseteq File
  BY <1>1, <1>2, DeskFields DEF NoticeRow, Naming
<1>4. /\ next \in DeskCall /\ next.at = "after" /\ next.n = q.n
      /\ next.content = row.content /\ NamedBy(next) = {} /\ SweptBy(next) = {}
      /\ DroppedBy(next) = DroppedBy(q)
  BY <1>3 DEF DeskCall, NamedBy, SweptBy, DroppedBy, Naming, Dropping
<1> HIDE DEF next
<1>5. /\ desk' \in [Request -> DeskCall] /\ desk'[r] = next
      /\ \A s \in Request \ {r} : desk'[s] = desk[s]
  BY <1>1, <1>4, GoesOn DEF NoticeInv
<1>6. /\ notice' \in [Notice -> NoticeRow] /\ notice'[q.n] = row
      /\ \A m \in Notice \ {q.n} : notice'[m] = notice[m]
  BY <1>1, <1>3 DEF NoticeInv, NoticeTypes
<1> HIDE DEF q
<1>7. NoticeTypes'
  BY <1>1, <1>5, <1>6 DEF NoticeInv, NoticeTypes
<1>8. /\ notice[q.n].content \in Int /\ notice[q.n].content >= 0 /\ row.content \in Int
      /\ \A m \in Notice : korean[m] \in Int /\ notice[m].content \in Int
      /\ \A s \in Request : desk[s].at \in {"after", "store"} =>
            desk[s].n \in Notice /\ desk[s].content \in Int /\ desk[s].content >= 0
  BY <1>3, NoticeConstants, DeskFields DEF NoticeInv, NoticeTypes, NoticeRow
<1>9. SavesFit'
  <2>1. \A m \in Notice : /\ ~ Notices!Posted(m)' => notice'[m].files = {}
                          /\ Notices!Posted(m)' => notice'[m].content # 0
                          /\ korean'[m] <= notice'[m].content
    BY <1>1, <1>6, <1>8 DEF NoticeInv, SavesFit, Notices!Posted
  <2>2. ASSUME NEW s \in Request, desk'[s].at = "unbundle"
        PROVE  notice'[desk'[s].n].org = NoOrg /\ notice'[desk'[s].n].content # 0
    <3>1. desk'[s] = desk[s] /\ s # r
      BY <1>4, <1>5, <2>2
    <3>2. ~ Notices!Posted(desk[s].n) /\ notice[desk[s].n].content # 0 /\ desk[s].n \in Notice
      BY <2>2, <3>1, DeskFields DEF NoticeInv, SavesFit, NoticeTypes
    <3>3. desk[s].n # q.n
      BY <3>2 DEF Notices!New, q
    <3> QED BY <1>6, <3>1, <3>2, <3>3 DEF Notices!Posted
  <2>3. ASSUME NEW s \in Request, desk'[s].at \in {"after", "store"}
        PROVE  desk'[s].content # 0 /\ desk'[s].content <= notice'[desk'[s].n].content
    <3>1. CASE s = r
      BY <1>1, <1>4, <1>5, <1>6, <1>8, <3>1
    <3>2. CASE s # r
      <4>1. desk'[s] = desk[s]
        BY <1>5, <3>2
      <4>2. /\ desk[s].content # 0 /\ desk[s].content <= notice[desk[s].n].content
            /\ desk[s].n \in Notice /\ desk[s].content \in Int
        BY <1>8, <2>3, <4>1 DEF NoticeInv, SavesFit
      <4> QED BY <1>1, <1>6, <1>8, <4>1, <4>2
    <3> QED BY <3>1, <3>2
  <2> QED BY <2>1, <2>2, <2>3 DEF SavesFit, Notices!Posted
<1>10. AllKnown'
  BY <1>1, <1>4, <1>5, <1>6, <1>3 DEF NoticeInv, AllKnown, q
<1>11. ASSUME NEW g \in File \ shared' PROVE OwnFile(g)'
  <2>1. OwnFile(g)
    BY <1>1, <1>11 DEF NoticeInv, FilesOwned
  <2>2. g \in NamedBy(q) => /\ g \in stored
                            /\ \A n \in Notice : g \notin notice[n].files
                            /\ \A s \in Request : g \in NamedBy(desk[s]) => s = r
                            /\ \A s \in Request : g \notin SweptBy(desk[s])
                            /\ \A s \in Request : g \notin DroppedBy(desk[s])
    BY <2>1 DEF OwnFile, q
  <2>3. \A n \in Notice : g \in notice'[n].files =>
            \/ g \in notice[n].files /\ (n = q.n => g \notin DroppedBy(q))
            \/ n = q.n /\ g \in NamedBy(q)
    BY <1>1, <1>6
  <2>4. ASSUME NEW n \in Notice, g \in notice'[n].files
        PROVE  g \in stored' /\ \A m \in Notice : g \in notice'[m].files => m = n
    BY <1>1, <2>1, <2>2, <2>3, <2>4 DEF OwnFile
  <2>5. \A s \in Request : g \in NamedBy(desk'[s]) =>
            s # r /\ g \in NamedBy(desk[s]) /\ g \notin NamedBy(q)
    BY <1>4, <1>5, <2>2
  <2>6. ASSUME NEW s \in Request, g \in NamedBy(desk'[s])
        PROVE  /\ g \in stored' /\ \A n \in Notice : g \notin notice'[n].files
               /\ \A t \in Request : g \in NamedBy(desk'[t]) => t = s
    BY <1>1, <2>1, <2>3, <2>5, <2>6 DEF OwnFile
  <2>7. ASSUME NEW s \in Request, g \in SweptBy(desk'[s])
        PROVE  /\ \A n \in Notice : g \notin notice'[n].files
               /\ \A t \in Request : g \notin NamedBy(desk'[t])
    <3>1. g \in SweptBy(desk[s])
      BY <1>4, <1>5, <2>7
    <3> QED BY <2>1, <2>2, <2>3, <2>5, <3>1 DEF OwnFile
  <2>8. ASSUME NEW s \in Request, g \in DroppedBy(desk'[s])
        PROVE  /\ \A t \in Request : g \notin NamedBy(desk'[t])
               /\ \A n \in Notice : g \in notice'[n].files =>
                    n = desk'[s].n /\ desk'[s].at \in {"update", "remove"}
    <3>1. g \in DroppedBy(desk[s]) /\ g \notin NamedBy(q)
      BY <1>4, <1>5, <2>2, <2>8 DEF q
    <3>2. \A t \in Request : g \notin NamedBy(desk'[t])
      BY <2>1, <2>5, <3>1 DEF OwnFile
    <3>3. ASSUME NEW n \in Notice, g \in notice'[n].files
          PROVE  n = desk'[s].n /\ desk'[s].at \in {"update", "remove"}
      <4>1. g \in notice[n].files /\ (n = q.n => g \notin DroppedBy(q))
        BY <2>3, <3>1, <3>3
      <4>2. n = desk[s].n /\ desk[s].at \in {"update", "remove"}
        BY <2>1, <3>1, <4>1 DEF OwnFile
      <4>3. s # r
        BY <3>1, <4>1, <4>2 DEF q
      <4> QED BY <1>5, <4>2, <4>3
    <3> QED BY <3>2, <3>3
  <2> QED BY <2>4, <2>6, <2>7, <2>8 DEF OwnFile
<1>12. ASSUME NEW n \in Notice \ torn, Notices!Posted(n)'
       PROVE  TextOf(n)'
  <2>1. CASE n = q.n
    <3>1. Saving(desk'[r], n) /\ desk'[r].content = notice'[n].content
      BY <1>1, <1>4, <1>5, <1>6, <2>1 DEF Saving
    <3>2. \A s \in Request : Storing(desk'[s], n) => Storing(desk[s], n) /\ desk'[s] = desk[s]
      BY <1>4, <1>5 DEF Storing
    <3>3. CASE Notices!Posted(n)
      BY <1>1, <1>12, <3>1, <3>2, <3>3 DEF NoticeInv, TextsFit, TextOf
    <3>4. CASE ~ Notices!Posted(n)
      <4>1. notice[n].content = 0
        BY <2>1, <3>4 DEF Notices!New, q
      <4>2. ASSUME NEW s \in Request PROVE ~ Storing(desk[s], n)
        BY <1>8, <4>1 DEF NoticeInv, SavesFit, Storing
      <4> QED BY <3>1, <3>2, <4>2 DEF TextOf
    <3> QED BY <3>3, <3>4
  <2>2. CASE n # q.n
    <3>1. Notices!Posted(n) /\ notice'[n] = notice[n]
      BY <1>6, <1>12, <2>2 DEF Notices!Posted
    <3>2. TextOf(n)
      BY <1>12, <3>1 DEF NoticeInv, TextsFit
    <3>3. \A s \in Request : /\ Storing(desk'[s], n) <=> Storing(desk[s], n)
                             /\ Saving(desk'[s], n) <=> Saving(desk[s], n)
                             /\ Saving(desk[s], n) => desk'[s] = desk[s]
      BY <1>1, <1>4, <1>5, <2>2 DEF Storing, Saving, Naming, q
    <3>4. \A s \in Request : Storing(desk[s], n) => Saving(desk[s], n)
      BY DEF Storing, Saving
    <3> QED BY <1>1, <3>1, <3>2, <3>3, <3>4 DEF TextOf
  <2> QED BY <2>1, <2>2
<1>13. TextsFit'
  BY <1>1, <1>12 DEF TextsFit
<1> QED BY <1>7, <1>9, <1>10, <1>11, <1>13 DEF NoticeInv, FilesOwned

LEMMA CreateNotice ==
    ASSUME NoticeInv, NEW r \in Request, Notices!Create(r)
    PROVE  NoticeInv'
<1> DEFINE q == desk[r]
           row == [org |-> q.org, by |-> q.a, template |-> q.template, content |-> 1,
                   files |-> q.files]
<1>1. /\ q.at = "create" /\ Notices!New(q.n)
      /\ q.template # NoOrg => layout[q.template] # NoOrg
      /\ notice' = [notice EXCEPT ![q.n] = row]
      /\ Notices!Goes(r, [at |-> "after", n |-> q.n, content |-> 1, gone |-> {}])
      /\ UNCHANGED <<layout, stored, korean, torn, known, shared>>
  BY DEF Notices!Create, Notices!Then
<1>2. /\ q \in DeskCall /\ q.n \in Notice /\ q.files \in SUBSET File /\ q.org \in Org
      /\ q.a \in Account /\ q.template \in NoticeTemplate \cup {NoOrg}
  BY <1>1, DeskFields DEF NoticeInv, NoticeTypes
<1>3. Naming(q) /\ NamedBy(q) = q.files /\ DroppedBy(q) = {}
  BY <1>1 DEF Naming, Dropping, NamedBy, DroppedBy
<1>4. notice[q.n].content = 0 /\ notice[q.n].files = {}
  BY <1>1, <1>2 DEF NoticeInv, SavesFit, Notices!New
<1>5. row \in NoticeRow
  BY <1>2, NoticeConstants DEF NoticeRow
<1>6. SavesNotice(r, row)
  BY <1>1, <1>2, <1>3, <1>4, <1>5, NoticeConstants DEF SavesNotice
<1> QED BY <1>1, <1>6, NoticeSaved

LEMMA UpdateNotice ==
    ASSUME NoticeInv, NEW r \in Request, Notices!Update(r)
    PROVE  NoticeInv'
<1> DEFINE q == desk[r]
           now == notice[q.n]
           row == [org |-> q.org, by |-> now.by, template |-> q.template,
                   content |-> now.content + 1, files |-> (now.files \ q.gone) \cup q.files]
<1>1. /\ q.at = "update" /\ Notices!Posted(q.n) /\ now.content < MaxContent
      /\ q.template # NoOrg => layout[q.template] # NoOrg
      /\ notice' = [notice EXCEPT ![q.n] = row]
      /\ Notices!Goes(r, [at |-> "after", n |-> q.n, content |-> now.content + 1,
                          gone |-> q.gone])
      /\ UNCHANGED <<layout, stored, korean, torn, known, shared>>
  BY DEF Notices!Update, Notices!Then, Notices!DroppedByUpdate
<1>2. /\ q \in DeskCall /\ q.n \in Notice /\ q.files \in SUBSET File /\ q.org \in Org
      /\ q.template \in NoticeTemplate \cup {NoOrg} /\ q.gone \in SUBSET File
  BY <1>1, DeskFields DEF NoticeInv, NoticeTypes, Dropping
<1>3. Naming(q) /\ NamedBy(q) = q.files /\ DroppedBy(q) = q.gone
  BY <1>1 DEF Naming, Dropping, NamedBy, DroppedBy
<1>4. now \in NoticeRow
  BY <1>2 DEF NoticeInv, NoticeTypes
<1>5. now.content + 1 \in 0..MaxContent
  BY <1>1, <1>4, NoticeConstants DEF NoticeRow
<1>6. row \in NoticeRow
  BY <1>2, <1>4, <1>5 DEF NoticeRow
<1>7. SavesNotice(r, row)
  BY <1>1, <1>2, <1>3, <1>6, NoticeConstants DEF SavesNotice
<1> QED BY <1>1, <1>7, NoticeSaved

LEMMA RemoveNotice ==
    ASSUME NoticeInv, NEW r \in Request, Notices!Remove(r)
    PROVE  NoticeInv'
<1> DEFINE q == desk[r]
           row == [Notices!NoNotice EXCEPT !.content = notice[q.n].content]
           next == [at |-> "unbundle", n |-> q.n, gone |-> q.gone]
<1>1. /\ q.at = "remove" /\ Notices!Posted(q.n)
      /\ notice' = [notice EXCEPT ![q.n] = row]
      /\ Notices!Goes(r, next)
      /\ UNCHANGED <<layout, stored, korean, torn, known, shared>>
  BY DEF Notices!Remove
<1>2. q \in DeskCall /\ q.n \in Notice /\ q.gone \in SUBSET File
  BY <1>1, DeskFields DEF NoticeInv, NoticeTypes, Dropping
<1>3. DroppedBy(q) = q.gone /\ NamedBy(q) = {} /\ SweptBy(q) = {}
  BY <1>1 DEF Naming, Dropping, NamedBy, DroppedBy, SweptBy
<1>4. notice[q.n] \in NoticeRow /\ notice[q.n].content # 0
  BY <1>1, <1>2 DEF NoticeInv, NoticeTypes, SavesFit
<1>5. /\ row \in NoticeRow /\ row.org = NoOrg /\ row.files = {} /\ row.template = NoOrg
      /\ row.content = notice[q.n].content
  BY <1>4, NoNoticeRow DEF NoticeRow
<1>6. /\ next \in DeskCall /\ next.at = "unbundle" /\ next.n = q.n
      /\ NamedBy(next) = {} /\ SweptBy(next) = {} /\ DroppedBy(next) = DroppedBy(q)
  BY <1>2, <1>3 DEF DeskCall, NamedBy, SweptBy, DroppedBy, Naming, Dropping
<1> HIDE DEF next, row
<1>7. /\ desk' \in [Request -> DeskCall] /\ desk'[r] = next
      /\ \A s \in Request \ {r} : desk'[s] = desk[s]
  BY <1>1, <1>6, GoesOn DEF NoticeInv
<1>8. /\ notice' \in [Notice -> NoticeRow] /\ notice'[q.n] = row
      /\ \A m \in Notice \ {q.n} : notice'[m] = notice[m]
  BY <1>1, <1>2, <1>5 DEF NoticeInv, NoticeTypes
<1> HIDE DEF q
<1>9. NoticeTypes'
  BY <1>1, <1>5, <1>7, <1>8 DEF NoticeInv, NoticeTypes
<1>10. SavesFit'
  <2>1. \A m \in Notice : /\ ~ Notices!Posted(m)' => notice'[m].files = {}
                          /\ Notices!Posted(m)' => notice'[m].content # 0
                          /\ korean'[m] <= notice'[m].content
                          /\ notice'[m].content = notice[m].content
                          /\ Notices!Posted(m)' => Notices!Posted(m)
    BY <1>1, <1>2, <1>5, <1>8 DEF NoticeInv, SavesFit, Notices!Posted
  <2>2. ASSUME NEW s \in Request, desk'[s].at = "unbundle"
        PROVE  notice'[desk'[s].n].org = NoOrg /\ notice'[desk'[s].n].content # 0
    <3>1. CASE s = r
      BY <1>4, <1>5, <1>6, <1>7, <1>8, <3>1 DEF Notices!Posted
    <3>2. CASE s # r
      <4>1. desk'[s] = desk[s]
        BY <1>7, <3>2
      <4>2. /\ desk[s].n \in Notice /\ ~ Notices!Posted(desk[s].n)
            /\ notice[desk[s].n].content # 0
        BY <2>2, <4>1, DeskFields DEF NoticeInv, SavesFit, NoticeTypes
      <4>3. notice'[desk[s].n].org = NoOrg
        BY <1>5, <1>8, <4>2 DEF Notices!Posted
      <4> QED BY <2>1, <4>1, <4>2, <4>3
    <3> QED BY <3>1, <3>2
  <2>3. ASSUME NEW s \in Request, desk'[s].at \in {"after", "store"}
        PROVE  desk'[s].content # 0 /\ desk'[s].content <= notice'[desk'[s].n].content
    <3>1. desk'[s] = desk[s]
      BY <1>6, <1>7, <2>3
    <3>2. desk[s].n \in Notice
      BY <2>3, <3>1, DeskFields DEF NoticeInv, NoticeTypes
    <3> QED BY <2>1, <2>3, <3>1, <3>2 DEF NoticeInv, SavesFit
  <2> QED BY <2>1, <2>2, <2>3 DEF SavesFit, Notices!Posted
<1>11. AllKnown'
  BY <1>1, <1>5, <1>6, <1>7, <1>8 DEF NoticeInv, AllKnown, q
<1>12. ASSUME NEW g \in File \ shared' PROVE OwnFile(g)'
  <2>1. OwnFile(g)
    BY <1>1, <1>12 DEF NoticeInv, FilesOwned
  <2>2. \A n \in Notice : g \in notice'[n].files => n # q.n /\ g \in notice[n].files
    BY <1>5, <1>8
  <2>3. \A s \in Request : /\ NamedBy(desk'[s]) \subseteq NamedBy(desk[s])
                           /\ SweptBy(desk'[s]) \subseteq SweptBy(desk[s])
                           /\ DroppedBy(desk'[s]) = DroppedBy(desk[s])
                           /\ s = r \/ desk'[s] = desk[s]
    BY <1>3, <1>6, <1>7 DEF q
  <2>4. ASSUME NEW s \in Request, g \in DroppedBy(desk'[s])
        PROVE  /\ \A t \in Request : g \notin NamedBy(desk'[t])
               /\ \A n \in Notice : g \in notice'[n].files =>
                    n = desk'[s].n /\ desk'[s].at \in {"update", "remove"}
    BY <2>1, <2>2, <2>3, <2>4 DEF OwnFile, q
  <2>5. /\ \A n \in Notice : g \in notice'[n].files =>
             g \in stored' /\ \A m \in Notice : g \in notice'[m].files => m = n
        /\ \A s \in Request : g \in NamedBy(desk'[s]) =>
             /\ g \in stored' /\ \A n \in Notice : g \notin notice'[n].files
             /\ \A t \in Request : g \in NamedBy(desk'[t]) => t = s
        /\ \A s \in Request : g \in SweptBy(desk'[s]) =>
             /\ \A n \in Notice : g \notin notice'[n].files
             /\ \A t \in Request : g \notin NamedBy(desk'[t])
    BY <1>1, <2>1, <2>2, <2>3 DEF OwnFile
  <2> QED BY <2>4, <2>5 DEF OwnFile
<1>13. ASSUME NEW n \in Notice \ torn, Notices!Posted(n)'
       PROVE  TextOf(n)'
  <2>1. n # q.n /\ Notices!Posted(n) /\ notice'[n] = notice[n]
    BY <1>5, <1>8, <1>13 DEF Notices!Posted
  <2>2. TextOf(n)
    BY <1>13, <2>1 DEF NoticeInv, TextsFit
  <2>3. \A s \in Request : /\ Storing(desk'[s], n) <=> Storing(desk[s], n)
                           /\ Saving(desk'[s], n) <=> Saving(desk[s], n)
                           /\ Saving(desk[s], n) => desk'[s] = desk[s]
    BY <1>1, <1>6, <1>7, <2>1 DEF Storing, Saving, q
  <2>4. \A s \in Request : Storing(desk[s], n) => Saving(desk[s], n)
    BY DEF Storing, Saving
  <2> QED BY <1>1, <2>1, <2>2, <2>3, <2>4 DEF TextOf
<1>14. TextsFit'
  BY <1>1, <1>13 DEF TextsFit
<1> QED BY <1>9, <1>10, <1>11, <1>12, <1>14 DEF NoticeInv, FilesOwned

-----------------------------------------------------------------------------
(* What follows a transaction. *)

\* A request that drops its files and goes on, or is done.
LEMMA FilesDropped ==
    ASSUME NoticeInv, NEW r \in Request, NEW next \in DeskCall, Notices!Goes(r, next),
           desk[r].at \in {"unbundle", "after", "store"}, next.at \in {"free", "store"},
           stored \ DroppedBy(desk[r]) \subseteq stored',
           UNCHANGED <<notice, known, shared>>
    PROVE  AllKnown' /\ FilesOwned'
<1>1. /\ desk' \in [Request -> DeskCall] /\ desk'[r] = next
      /\ \A s \in Request \ {r} : desk'[s] = desk[s]
  BY GoesOn DEF NoticeInv
<1>2. NamedBy(next) = {} /\ SweptBy(next) = {} /\ DroppedBy(next) = {}
  BY DEF NamedBy, SweptBy, DroppedBy, Naming, Dropping
<1>3. AllKnown'
  BY <1>1, <1>2 DEF NoticeInv, AllKnown
<1>4. ASSUME NEW g \in File \ shared' PROVE OwnFile(g)'
  <2>1. OwnFile(g)
    BY <1>4 DEF NoticeInv, FilesOwned
  <2>2. \A s \in Request : \/ desk'[s] = desk[s]
                           \/ /\ g \notin NamedBy(desk'[s]) /\ g \notin SweptBy(desk'[s])
                              /\ g \notin DroppedBy(desk'[s])
    BY <1>1, <1>2
  <2>3. \/ g \in stored => g \in stored'
        \/ /\ \A n \in Notice : g \notin notice[n].files
           /\ \A s \in Request : g \notin NamedBy(desk[s])
    BY <2>1 DEF OwnFile
  <2> QED BY <2>1, <2>2, <2>3 DEF OwnFile
<1> QED BY <1>3, <1>4 DEF FilesOwned

LEMMA BundleNotice ==
    ASSUME NoticeInv, NEW r \in Request, Notices!RemoveBundle(r)
    PROVE  NoticeInv'
<1> DEFINE q == desk[r]
<1>1. /\ q.at = "unbundle" /\ korean' = [korean EXCEPT ![q.n] = 0]
      /\ stored' = stored \ q.gone /\ Notices!Goes(r, Notices!Free)
      /\ UNCHANGED <<notice, layout, torn, known, shared>>
  BY DEF Notices!RemoveBundle
<1>2. q.n \in Notice /\ ~ Notices!Posted(q.n) /\ DroppedBy(q) = q.gone
  BY <1>1, DeskFields DEF NoticeInv, NoticeTypes, SavesFit, DroppedBy, Dropping
<1>3. /\ desk' \in [Request -> DeskCall] /\ desk'[r] = Notices!Free
      /\ \A s \in Request \ {r} : desk'[s] = desk[s]
  BY <1>1, FreeCall, GoesOn DEF NoticeInv
<1>4. /\ korean' \in [Notice -> 0..MaxContent] /\ korean'[q.n] = 0
      /\ \A n \in Notice \ {q.n} : korean'[n] = korean[n]
  BY <1>1, <1>2, NoticeConstants DEF NoticeInv, NoticeTypes
<1>5. AllKnown' /\ FilesOwned'
  BY <1>1, <1>2, FreeCall, FilesDropped
<1> HIDE DEF q
<1>6. NoticeTypes'
  BY <1>1, <1>3, <1>4 DEF NoticeInv, NoticeTypes
<1>7. \A n \in Notice : notice[n].content \in Int /\ notice[n].content >= 0
  BY NoticeConstants DEF NoticeInv, NoticeTypes, NoticeRow
<1>8. SavesFit'
  BY <1>1, <1>3, <1>4, <1>7, FreeCall DEF NoticeInv, SavesFit, Notices!Posted
<1>9. ASSUME NEW n \in Notice \ torn, Notices!Posted(n)
      PROVE  TextOf(n)'
  <2>1. n # q.n /\ TextOf(n)
    BY <1>2, <1>9 DEF NoticeInv, TextsFit
  <2>2. \A s \in Request : /\ Storing(desk'[s], n) <=> Storing(desk[s], n)
                           /\ Saving(desk'[s], n) <=> Saving(desk[s], n)
                           /\ Saving(desk[s], n) => desk'[s] = desk[s]
    BY <1>1, <1>3, FreeCall, <2>1 DEF Storing, Saving, q
  <2>3. \A s \in Request : Storing(desk[s], n) => Saving(desk[s], n)
    BY DEF Storing, Saving
  <2> QED BY <1>1, <1>4, <2>1, <2>2, <2>3 DEF TextOf
<1>10. TextsFit'
  BY <1>1, <1>9 DEF TextsFit, Notices!Posted
<1> QED BY <1>5, <1>6, <1>8, <1>10 DEF NoticeInv

LEMMA AfterNotice ==
    ASSUME NoticeInv, NEW r \in Request, Notices!After(r)
    PROVE  NoticeInv'
<1> DEFINE q == desk[r]
           next == [at |-> "store", n |-> q.n, content |-> q.content, found |-> korean[q.n]]
<1>1. /\ q.at = "after" /\ stored' = stored \ q.gone /\ Notices!Goes(r, next)
      /\ torn' = IF \E s \in Request : desk[s].at = "store" /\ desk[s].n = q.n
                 THEN torn \cup {q.n} ELSE torn
      /\ UNCHANGED <<notice, layout, korean, known, shared>>
  BY DEF Notices!After
<1>2. /\ q.n \in Notice /\ q.content \in 0..MaxContent /\ DroppedBy(q) = q.gone
      /\ q.content # 0 /\ q.content <= notice[q.n].content
  BY <1>1, DeskFields DEF NoticeInv, NoticeTypes, SavesFit, DroppedBy, Dropping
<1>3. /\ next \in DeskCall /\ next.at = "store" /\ next.n = q.n /\ next.content = q.content
      /\ next.found = korean[q.n]
  <2>1. korean[q.n] \in 0..MaxContent
    BY <1>2 DEF NoticeInv, NoticeTypes
  <2> QED BY <1>2, <2>1 DEF DeskCall
<1> HIDE DEF next
<1>4. /\ desk' \in [Request -> DeskCall] /\ desk'[r] = next
      /\ \A s \in Request \ {r} : desk'[s] = desk[s]
  BY <1>1, <1>3, GoesOn DEF NoticeInv
<1>5. AllKnown' /\ FilesOwned'
  BY <1>1, <1>2, <1>3, FilesDropped
<1> HIDE DEF q
<1>6. NoticeTypes'
  BY <1>1, <1>4 DEF NoticeInv, NoticeTypes
<1>7. SavesFit'
  BY <1>1, <1>2, <1>3, <1>4 DEF NoticeInv, SavesFit, Notices!Posted
<1>8. ASSUME NEW n \in Notice \ torn', Notices!Posted(n)
      PROVE  TextOf(n)'
  <2>1. n \notin torn /\ TextOf(n)
    BY <1>1, <1>8 DEF NoticeInv, TextsFit
  <2>2. CASE n = q.n
    <3>1. \A s \in Request : ~ Storing(desk[s], n)
      BY <1>1, <1>8, <2>2 DEF Storing
    <3>2. \A s \in Request : Storing(desk'[s], n) => s = r
      BY <1>4, <3>1
    <3>3. \A s \in Request : Saving(desk[s], n) =>
              Saving(desk'[s], n) /\ desk'[s].content = desk[s].content
      BY <1>3, <1>4 DEF Saving, q
    <3> QED BY <1>1, <1>3, <1>4, <2>1, <2>2, <3>2, <3>3 DEF TextOf
  <2>3. CASE n # q.n
    <3>1. \A s \in Request : /\ Storing(desk'[s], n) <=> Storing(desk[s], n)
                             /\ Saving(desk'[s], n) <=> Saving(desk[s], n)
                             /\ Saving(desk[s], n) => desk'[s] = desk[s]
      BY <1>3, <1>4, <2>3 DEF Storing, Saving, q
    <3>2. \A s \in Request : Storing(desk[s], n) => Saving(desk[s], n)
      BY DEF Storing, Saving
    <3> QED BY <1>1, <2>1, <3>1, <3>2 DEF TextOf
  <2> QED BY <2>2, <2>3
<1>9. TextsFit'
  BY <1>1, <1>8 DEF TextsFit, Notices!Posted
<1> QED BY <1>5, <1>6, <1>7, <1>9 DEF NoticeInv

LEMMA StoreNotice ==
    ASSUME NoticeInv, NEW r \in Request, Notices!StoreKorean(r)
    PROVE  NoticeInv'
<1> DEFINE q == desk[r]
<1>1. /\ q.at = "store" /\ Notices!Goes(r, Notices!Free)
      /\ korean' = IF q.found <= q.content THEN [korean EXCEPT ![q.n] = q.content] ELSE korean
      /\ UNCHANGED <<notice, layout, stored, torn, known, shared>>
  BY DEF Notices!StoreKorean, Notices!NewerThanFound
<1>2. /\ q.n \in Notice /\ q.content \in 0..MaxContent /\ q.found \in 0..MaxContent
      /\ q.content <= notice[q.n].content
  BY <1>1, DeskFields DEF NoticeInv, NoticeTypes, SavesFit
<1>3. /\ desk' \in [Request -> DeskCall] /\ desk'[r] = Notices!Free
      /\ \A s \in Request \ {r} : desk'[s] = desk[s]
  BY <1>1, FreeCall, GoesOn DEF NoticeInv
<1>4. /\ korean' \in [Notice -> 0..MaxContent]
      /\ korean'[q.n] = IF q.found <= q.content THEN q.content ELSE korean[q.n]
      /\ \A n \in Notice \ {q.n} : korean'[n] = korean[n]
  BY <1>1, <1>2 DEF NoticeInv, NoticeTypes
<1>5. AllKnown' /\ FilesOwned'
  BY <1>1, FreeCall, FilesDropped
<1>6. \A n \in Notice : notice[n].content \in Int /\ korean[n] \in Int
  BY NoticeConstants DEF NoticeInv, NoticeTypes, NoticeRow
<1>7. NoticeTypes'
  BY <1>1, <1>3, <1>4 DEF NoticeInv, NoticeTypes
<1>8. SavesFit'
  <2>1. \A n \in Notice : korean'[n] <= notice[n].content
    BY <1>2, <1>4, <1>6 DEF NoticeInv, SavesFit
  <2> QED BY <1>1, <1>3, <2>1, FreeCall DEF NoticeInv, SavesFit, Notices!Posted
<1>9. ASSUME NEW n \in Notice \ torn, Notices!Posted(n)
      PROVE  TextOf(n)'
  <2>1. TextOf(n)
    BY <1>9 DEF NoticeInv, TextsFit
  <2>2. CASE n = q.n
    <3>1. Storing(desk[r], n) /\ Saving(desk[r], n)
      BY <1>1, <2>2 DEF Storing, Saving
    <3>2. q.found = korean[n] /\ \A s \in Request : Storing(desk[s], n) => s = r
      BY <2>1, <3>1 DEF TextOf
    <3>3. \A s \in Request : ~ Storing(desk'[s], n)
      BY <1>3, <3>2, FreeCall
    <3>4. \A s \in Request : Saving(desk[s], n) => s = r \/ desk'[s] = desk[s]
      BY <1>3
    <3>5. CASE korean[n] = notice[n].content \/ q.content = notice[n].content
      <4>1. korean'[n] = notice[n].content
        BY <1>2, <1>4, <1>6, <2>2, <3>2, <3>5 DEF NoticeInv, SavesFit
      <4> QED BY <1>1, <3>3, <4>1 DEF TextOf
    <3>6. CASE korean[n] # notice[n].content /\ q.content # notice[n].content
      <4>1. PICK s \in Request : Saving(desk[s], n) /\ desk[s].content = notice[n].content
        BY <2>1, <3>6 DEF TextOf
      <4>2. desk'[s] = desk[s]
        BY <3>4, <3>6, <4>1
      <4> QED BY <1>1, <3>3, <4>1, <4>2 DEF TextOf
    <3> QED BY <3>5, <3>6
  <2>3. CASE n # q.n
    <3>1. \A s \in Request : /\ Storing(desk'[s], n) <=> Storing(desk[s], n)
                             /\ Saving(desk'[s], n) <=> Saving(desk[s], n)
                             /\ Saving(desk[s], n) => desk'[s] = desk[s]
      BY <1>1, <1>3, FreeCall, <2>3 DEF Storing, Saving
    <3>2. \A s \in Request : Storing(desk[s], n) => Saving(desk[s], n)
      BY DEF Storing, Saving
    <3> HIDE DEF q
    <3> QED BY <1>1, <1>4, <1>9, <2>1, <2>3, <3>1, <3>2 DEF TextOf
  <2> QED BY <2>2, <2>3
<1>10. TextsFit'
  BY <1>1, <1>9 DEF TextsFit, Notices!Posted
<1> QED BY <1>5, <1>7, <1>8, <1>10 DEF NoticeInv

-----------------------------------------------------------------------------
(* Templates. *)

\* A write of a template leaves everything of a notice but its template.
LEMMA LayoutKeeps ==
    ASSUME NoticeInv, layout' \in [NoticeTemplate -> Org \cup {NoOrg}],
           notice' \in [Notice -> NoticeRow],
           \A n \in Notice : /\ notice'[n].org = notice[n].org
                             /\ notice'[n].files = notice[n].files
                             /\ notice'[n].content = notice[n].content
                             /\ notice'[n].template # NoOrg =>
                                   layout'[notice'[n].template] # NoOrg,
           UNCHANGED <<stored, korean, desk, torn, known, shared>>
    PROVE  NoticeInv'
<1>1. NoticeTypes'
  BY DEF NoticeInv, NoticeTypes
<1>2. \A r \in Request : desk[r].at \notin {"free", "sweep"} => desk[r].n \in Notice
  BY DeskFields DEF NoticeInv, NoticeTypes
<1>3. SavesFit'
  BY <1>2 DEF NoticeInv, SavesFit, Notices!Posted
<1>4. AllKnown' /\ FilesOwned'
  BY DEF NoticeInv, AllKnown, FilesOwned, OwnFile
<1>5. TextsFit'
  BY DEF NoticeInv, TextsFit, TextOf, Notices!Posted
<1> QED BY <1>1, <1>3, <1>4, <1>5 DEF NoticeInv

LEMMA WriteTemplate ==
    ASSUME NoticeInv, NEW t \in NoticeTemplate, NEW a \in Account, NEW o \in Org,
           Notices!CreateTemplate(t, a, o) \/ Notices!UpdateTemplate(t, a, o)
    PROVE  NoticeInv'
<1>1. /\ layout' = [layout EXCEPT ![t] = o]
      /\ UNCHANGED <<notice, stored, korean, desk, torn, known, shared>>
  BY DEF Notices!CreateTemplate, Notices!UpdateTemplate
<1>2. layout' \in [NoticeTemplate -> Org \cup {NoOrg}] /\ notice \in [Notice -> NoticeRow]
  BY <1>1 DEF NoticeInv, NoticeTypes
<1>3. \A n \in Notice : notice[n].template # NoOrg => layout'[notice[n].template] # NoOrg
  BY <1>1, NoticeConstants DEF NoticeInv, NoticeTypes, NoticeRow
<1> QED BY <1>1, <1>2, <1>3, LayoutKeeps

LEMMA DropTemplate ==
    ASSUME NoticeInv, NEW t \in NoticeTemplate, NEW a \in Account,
           Notices!RemoveTemplate(t, a)
    PROVE  NoticeInv'
<1>1. /\ layout' = [layout EXCEPT ![t] = NoOrg]
      /\ notice' = [n \in Notice |-> IF notice[n].template = t
                                     THEN [notice[n] EXCEPT !.template = NoOrg]
                                     ELSE notice[n]]
      /\ UNCHANGED <<stored, korean, desk, torn, known, shared>>
  BY DEF Notices!RemoveTemplate
<1>2. layout' \in [NoticeTemplate -> Org \cup {NoOrg}]
  BY <1>1 DEF NoticeInv, NoticeTypes
<1>3. ASSUME NEW n \in Notice
      PROVE  /\ notice'[n] \in NoticeRow /\ notice'[n].org = notice[n].org
             /\ notice'[n].files = notice[n].files /\ notice'[n].content = notice[n].content
             /\ notice'[n].template # NoOrg => layout'[notice'[n].template] # NoOrg
  <2>1. notice[n] \in NoticeRow
    BY DEF NoticeInv, NoticeTypes
  <2>2. CASE notice[n].template = t
    <3>1. notice'[n] = [notice[n] EXCEPT !.template = NoOrg]
      BY <1>1, <2>2
    <3> QED BY <2>1, <3>1 DEF NoticeRow
  <2>3. CASE notice[n].template # t
    <3>1. notice'[n] = notice[n]
      BY <1>1, <2>3
    <3> QED BY <1>1, <2>1, <2>3, <3>1 DEF NoticeInv, NoticeTypes, NoticeRow
  <2> QED BY <2>2, <2>3
<1>4. notice' \in [Notice -> NoticeRow]
  BY <1>1, <1>3
<1> QED BY <1>1, <1>2, <1>3, <1>4, LayoutKeeps

LEMMA NoticeStays == NoticeInv /\ UNCHANGED Notices!noticeVars => NoticeInv'
<1> SUFFICES ASSUME NoticeInv, UNCHANGED Notices!noticeVars PROVE NoticeInv'
  OBVIOUS
<1> USE DEF Notices!noticeVars
<1>1. NoticeTypes' /\ SavesFit' /\ AllKnown'
  BY DEF NoticeInv, NoticeTypes, SavesFit, AllKnown, Notices!Posted
<1>2. FilesOwned' /\ TextsFit'
  BY DEF NoticeInv, FilesOwned, OwnFile, TextsFit, TextOf, Notices!Posted
<1> QED BY <1>1, <1>2 DEF NoticeInv

LEMMA NoticeStep == NoticeInv /\ [Notices!Next]_(Notices!noticeVars) => NoticeInv'
<1> SUFFICES ASSUME NoticeInv, [Notices!Next]_(Notices!noticeVars) PROVE NoticeInv'
  OBVIOUS
<1>1. CASE UNCHANGED Notices!noticeVars
  BY <1>1, NoticeStays
<1>2. CASE Notices!Next
  <2>1. CASE \E f \in File : Notices!Upload(f)
    BY <2>1, UploadNotice
  <2>2. CASE \E r \in Request, f \in File : Notices!CheckCleanup(r, f)
    BY <2>2, CheckCleanupNotice
  <2>3. CASE \E r \in Request, n \in Notice, a \in Account : Notices!CheckRemove(r, n, a)
    BY <2>3, CheckRemoveNotice
  <2>4. CASE \E r \in Request, n \in Notice, a \in Account, o \in Notices!Target,
                t \in NoticeTemplate \cup {NoOrg}, files \in SUBSET stored :
                    Notices!CheckCreate(r, n, a, o, t, files)
    BY <2>4, CheckCreateNotice
  <2>5. CASE \E r \in Request, n \in Notice, a \in Account, o \in Notices!Target,
                t \in NoticeTemplate \cup {NoOrg}, files \in SUBSET stored,
                named \in BOOLEAN : \E keep \in SUBSET notice[n].files :
                    Notices!CheckUpdate(r, n, a, o, named, t, keep, files)
    BY <2>5, CheckUpdateNotice
  <2>6. CASE \E r \in Request :
                \/ Notices!Cleanup(r) \/ Notices!Create(r) \/ Notices!Update(r)
                \/ Notices!Remove(r) \/ Notices!RemoveBundle(r) \/ Notices!After(r)
                \/ Notices!StoreKorean(r) \/ Notices!Refuse(r)
    BY <2>6, CleanupNotice, CreateNotice, UpdateNotice, RemoveNotice, BundleNotice,
       AfterNotice, StoreNotice, RefuseNotice
  <2>7. CASE \E t \in NoticeTemplate, a \in Account :
                \/ \E o \in Org : \/ Notices!CreateTemplate(t, a, o)
                                  \/ Notices!UpdateTemplate(t, a, o)
                \/ Notices!RemoveTemplate(t, a)
    BY <2>7, WriteTemplate, DropTemplate
  <2> QED BY <1>2, <2>1, <2>2, <2>3, <2>4, <2>5, <2>6, <2>7 DEF Notices!Next
<1> QED BY <1>1, <1>2

LEMMA NoticeAlways == Notices!Spec => []NoticeInv
BY NoticeStart, NoticeStep, PTL DEF Notices!Spec

\* modules/notices/: no request leaves a notice that names a template that was
\* removed, and the texts that are stored are texts that were saved.
THEOREM NoticesTyped == Notices!Spec => []Notices!TypeOK
<1>1. NoticeInv => Notices!TypeOK
  BY DEF NoticeInv, NoticeTypes, NoticeRow, Notices!TypeOK
<1> QED BY <1>1, NoticeAlways, PTL

\* uploads, updates, removals and the clean-up of uploads: a file that a notice
\* names is on disk unless two requests named it.
THEOREM NoticeFilesExist == Notices!Spec => []Notices!NamedFilesExist
<1>1. NoticeInv => Notices!NamedFilesExist
  BY DEF NoticeInv, NoticeTypes, NoticeRow, FilesOwned, OwnFile, Notices!NamedFilesExist
<1> QED BY <1>1, NoticeAlways, PTL

\* storeEntityTranslations: the text of the last save is the one that is translated
\* once the requests have ended.
THEOREM NoticesTranslated == Notices!Spec => []Notices!LastSaveIsTranslated
<1>1. NoticeInv => Notices!LastSaveIsTranslated
  BY DEF NoticeInv, TextsFit, TextOf, Saving, Notices!LastSaveIsTranslated
<1> QED BY <1>1, NoticeAlways, PTL

-----------------------------------------------------------------------------
(* What an account reads: the walks up and down the organizations.  *)

LEMMA LeastNumber ==
  ASSUME NEW S \in SUBSET Nat, S # {}
  PROVE  \E m \in S : \A n \in S : m <= n
<1> DEFINE R == OpToRel(<, Nat)
<1>1. IsWellFoundedOn(R, Nat)
    BY NatLessThanWellFounded
<1>2. \A x, y \in Nat : y < x => <<y, x>> \in R
    BY DEF OpToRel
<1> HIDE DEF R
<1>3. PICK m \in S : \A y \in S : <<y, m>> \notin R
    BY <1>1, WFMin
<1>4. \A n \in S : ~ (n < m)
    BY <1>2, <1>3
<1> QED BY <1>4

\* A way of j steps along E from x to y, among the organizations.
Way(E, x, y, j) ==
    \E p \in [0..j -> Org] :
        p[0] = x /\ p[j] = y /\ \A k \in 0..j-1 : <<p[k], p[k+1]>> \in E

\* Where a way of at most i steps gets from S, and one step more.
Far(E, S, i) == {y \in Org : \E x \in S, j \in 0..i : Way(E, x, y, j)}
Beside(E, T) == {y \in Org : \E x \in T : <<x, y>> \in E}

LEMMA NoWay == ASSUME NEW E, NEW x \in Org, NEW y PROVE Way(E, x, y, 0) <=> x = y
<1>1. ASSUME x = y PROVE Way(E, x, y, 0)
  <2> DEFINE p == [k \in 0..0 |-> x]
  <2>1. p \in [0..0 -> Org] /\ p[0] = x /\ \A k \in 0..0-1 : FALSE
    OBVIOUS
  <2> HIDE DEF p
  <2> QED BY <1>1, <2>1 DEF Way
<1> QED BY <1>1 DEF Way

\* One more step.
LEMMA WayOn ==
  ASSUME NEW E, NEW x, NEW y \in Org, NEW z \in Org, NEW j \in Nat,
         Way(E, x, z, j), <<z, y>> \in E
  PROVE  Way(E, x, y, j+1)
<1>1. PICK p \in [0..j -> Org] :
        p[0] = x /\ p[j] = z /\ \A k \in 0..j-1 : <<p[k], p[k+1]>> \in E
  BY DEF Way
<1> DEFINE q == [k \in 0..j+1 |-> IF k = j+1 THEN y ELSE p[k]]
<1>2. q \in [0..j+1 -> Org] /\ q[0] = x /\ q[j+1] = y
  BY <1>1
<1>3. ASSUME NEW k \in 0..j+1-1 PROVE <<q[k], q[k+1]>> \in E
  <2>1. CASE k = j
    BY <1>1, <2>1
  <2>2. CASE k # j
    <3>1. k \in 0..j-1 /\ q[k] = p[k] /\ q[k+1] = p[k+1]
      BY <2>2
    <3> QED BY <1>1, <3>1
  <2> QED BY <2>1, <2>2
<1> HIDE DEF q
<1> QED BY <1>2, <1>3 DEF Way

LEMMA WayBefore ==
  ASSUME NEW E, NEW x, NEW y, NEW j \in Nat, Way(E, x, y, j+1)
  PROVE  \E z \in Org : Way(E, x, z, j) /\ <<z, y>> \in E
<1>1. PICK p \in [0..j+1 -> Org] :
        p[0] = x /\ p[j+1] = y /\ \A k \in 0..j+1-1 : <<p[k], p[k+1]>> \in E
  BY DEF Way
<1> DEFINE q == [k \in 0..j |-> p[k]]
<1>2. q \in [0..j -> Org] /\ q[0] = x /\ q[j] = p[j] /\ p[j] \in Org
  BY <1>1
<1>3. \A k \in 0..j-1 : <<q[k], q[k+1]>> \in E
  BY <1>1
<1>4. <<p[j], y>> \in E
  BY <1>1
<1> HIDE DEF q
<1> QED BY <1>2, <1>3, <1>4 DEF Way

LEMMA WayBack ==
  ASSUME NEW E, NEW F, NEW x, NEW y, NEW j \in Nat, Way(E, x, y, j),
         \A u, v \in Org : <<u, v>> \in E => <<v, u>> \in F
  PROVE  Way(F, y, x, j)
<1>1. PICK p \in [0..j -> Org] :
        p[0] = x /\ p[j] = y /\ \A k \in 0..j-1 : <<p[k], p[k+1]>> \in E
  BY DEF Way
<1> DEFINE q == [k \in 0..j |-> p[j-k]]
<1>2. q \in [0..j -> Org] /\ q[0] = y /\ q[j] = x
  BY <1>1
<1>3. ASSUME NEW k \in 0..j-1 PROVE <<q[k], q[k+1]>> \in F
  <2>1. j-k-1 \in 0..j-1 /\ (j-k-1)+1 = j-k /\ q[k] = p[j-k] /\ q[k+1] = p[j-k-1]
    OBVIOUS
  <2>2. <<p[j-k-1], p[j-k]>> \in E
    BY <1>1, <2>1
  <2>3. p[j-k-1] \in Org /\ p[j-k] \in Org
    OBVIOUS
  <2> QED BY <2>1, <2>2, <2>3
<1> HIDE DEF q
<1> QED BY <1>2, <1>3 DEF Way

LEMMA FarSteps ==
  ASSUME NEW E, NEW S \in SUBSET Org
  PROVE  /\ Far(E, S, 0) = S
         /\ \A i \in Nat : Far(E, S, i+1) = Far(E, S, i) \cup Beside(E, Far(E, S, i))
<1>1. Far(E, S, 0) = S
  <2>1. 0..0 = {0}
    OBVIOUS
  <2> QED BY <2>1, NoWay DEF Far
<1>2. ASSUME NEW i \in Nat
      PROVE  Far(E, S, i+1) = Far(E, S, i) \cup Beside(E, Far(E, S, i))
  <2>1. ASSUME NEW y \in Far(E, S, i+1)
        PROVE  y \in Far(E, S, i) \/ \E z \in Far(E, S, i) : <<z, y>> \in E
    <3>1. PICK x \in S, j \in 0..i+1 : Way(E, x, y, j)
      BY DEF Far
    <3>2. CASE j = 0
      <4>1. 0 \in 0..i /\ y \in Org
        BY DEF Far
      <4> QED BY <3>1, <3>2, <4>1 DEF Far
    <3>3. CASE j # 0
      <4> DEFINE m == j-1
      <4>1. m \in 0..i /\ m \in Nat /\ m+1 = j
        BY <3>3
      <4> HIDE DEF m
      <4>2. Way(E, x, y, m+1)
        BY <3>1, <4>1
      <4>3. PICK z \in Org : Way(E, x, z, m) /\ <<z, y>> \in E
        BY <4>1, <4>2, WayBefore
      <4> QED BY <4>1, <4>3 DEF Far
    <3> QED BY <3>2, <3>3
  <2>2. ASSUME NEW y \in Org, NEW z \in Far(E, S, i), <<z, y>> \in E
        PROVE  y \in Far(E, S, i+1)
    <3>1. PICK x \in S, j \in 0..i : Way(E, x, z, j)
      BY DEF Far
    <3>2. Way(E, x, y, j+1)
      BY <2>2, <3>1, WayOn DEF Far
    <3>3. j+1 \in 0..i+1
      OBVIOUS
    <3> QED BY <3>2, <3>3 DEF Far
  <2>3. 0..i \subseteq 0..i+1
    OBVIOUS
  <2>4. Far(E, S, i) \subseteq Far(E, S, i+1) /\ Far(E, S, i+1) \subseteq Org
    BY <2>3 DEF Far
  <2> QED BY <2>1, <2>2, <2>4 DEF Beside
<1> QED BY <1>1, <1>2

\* A walk that goes on one step at a time gets everywhere there is a way to, and
\* nowhere else.
LEMMA WalkIsFar ==
  ASSUME NEW E, NEW S \in SUBSET Org, NEW h, h[0] = S,
         \A i \in 1..Cardinality(Org) : h[i-1] \subseteq Org
            => h[i] = h[i-1] \cup Beside(E, h[i-1])
  PROVE  h[Cardinality(Org)] = Far(E, S, Cardinality(Org))
<1> DEFINE N == Cardinality(Org)
<1>1. N \in Nat
  BY ScopeAssumption, FS_CardinalityType
<1>2. \A i \in 1..N : h[i-1] \subseteq Org => h[i] = h[i-1] \cup Beside(E, h[i-1])
  OBVIOUS
<1> HIDE DEF N
<1> DEFINE Different == {i \in 0..N : h[i] # Far(E, S, i)}
<1>3. ASSUME Different # {} PROVE FALSE
  <2>1. Different \in SUBSET Nat
    BY <1>1
  <2>2. PICK m \in Different : \A n \in Different : m <= n
    BY <1>3, <2>1, LeastNumber
  <2>3. m # 0
    BY FarSteps, <2>2
  <2> DEFINE k == m-1
  <2>4. k \in Nat /\ k \in 0..N /\ k+1 = m /\ m \in 1..N /\ ~ (m <= k)
    BY <1>1, <2>2, <2>3
  <2>5. h[k] = Far(E, S, k)
    BY <2>2, <2>4
  <2>6. h[m] = h[k] \cup Beside(E, h[k])
    BY <1>2, <2>4, <2>5 DEF Far
  <2> HIDE DEF k
  <2>7. \A i \in Nat : Far(E, S, i+1) = Far(E, S, i) \cup Beside(E, Far(E, S, i))
    BY FarSteps
  <2> QED BY <2>2, <2>4, <2>5, <2>6, <2>7
<1> QED BY <1>1, <1>3 DEF N

Upward == {e \in Org \X Org : e[2] = Parent[e[1]]}
Below(A) == {e \in Org \X Org : e[2] \in A /\ Parent[e[2]] = e[1]}

LEMMA Steps ==
  ASSUME NEW T \in SUBSET Org
  PROVE  /\ {Parent[o] : o \in T} \ {NoOrg} = Beside(Upward, T)
         /\ \A A \in SUBSET Org : {c \in A : Parent[c] \in T} = Beside(Below(A), T)
<1>1. \A o \in T : Parent[o] \in Org \cup {NoOrg}
  BY ScopeAssumption
<1>2. ASSUME NEW y \in {Parent[o] : o \in T} \ {NoOrg} PROVE y \in Beside(Upward, T)
  BY <1>1 DEF Beside, Upward
<1>3. ASSUME NEW y \in Beside(Upward, T) PROVE y \in {Parent[o] : o \in T} \ {NoOrg}
  BY ScopeAssumption DEF Beside, Upward
<1>4. ASSUME NEW A \in SUBSET Org PROVE {c \in A : Parent[c] \in T} = Beside(Below(A), T)
  <2>1. ASSUME NEW y \in A, Parent[y] \in T PROVE y \in Beside(Below(A), T)
    BY <2>1 DEF Beside, Below
  <2>2. ASSUME NEW y \in Beside(Below(A), T) PROVE y \in A /\ Parent[y] \in T
    BY DEF Beside, Below
  <2> QED BY <2>1, <2>2
<1> QED BY <1>2, <1>3, <1>4

\* What the three walks of OrganizationScope compute.
LEMMA AncestorsFar ==
  ASSUME NEW S \in SUBSET Org PROVE Ancestors(S) = Far(Upward, S, Cardinality(Org))
<1> DEFINE N == Cardinality(Org)
           Ups(h) == h = [i \in 0..N |->
                            IF i = 0 THEN S
                            ELSE h[i-1] \cup ({Parent[o] : o \in h[i-1]} \ {NoOrg})]
           g == [i \in 0..N |-> Far(Upward, S, i)]
           up == CHOOSE h : Ups(h)
<1>1. Ancestors(S) = up[N]
  BY DEF Ancestors
<1>2. N \in Nat
  BY ScopeAssumption, FS_CardinalityType
<1>3. Ups(g)
  <2>1. ASSUME NEW i \in 0..N
        PROVE  g[i] = IF i = 0 THEN S
                      ELSE g[i-1] \cup ({Parent[o] : o \in g[i-1]} \ {NoOrg})
    <3>1. CASE i = 0
      BY <1>2, <3>1, FarSteps
    <3>2. CASE i # 0
      <4> DEFINE m == i-1
      <4>1. m \in Nat /\ m \in 0..N /\ m+1 = i
        BY <1>2, <3>2
      <4>2. g[m] = Far(Upward, S, m) /\ g[i] = Far(Upward, S, i)
        BY <4>1
      <4>3. g[m] \in SUBSET Org
        BY <4>2 DEF Far
      <4> HIDE DEF g, m
      <4>4. Far(Upward, S, m+1) = Far(Upward, S, m) \cup Beside(Upward, Far(Upward, S, m))
        BY <4>1, FarSteps
      <4>5. g[i] = g[m] \cup ({Parent[o] : o \in g[m]} \ {NoOrg})
        BY <4>1, <4>2, <4>3, <4>4, Steps
      <4> QED BY <3>2, <4>5 DEF m
    <3> QED BY <3>1, <3>2
  <2> QED BY <2>1
<1>4. Ups(up)
  BY <1>3
<1> HIDE DEF up, g
<1>5. up[0] = S
  BY <1>2, <1>4
<1>6. ASSUME NEW i \in 1..N, up[i-1] \subseteq Org
      PROVE  up[i] = up[i-1] \cup Beside(Upward, up[i-1])
  <2>1. i \in 0..N /\ i # 0
    BY <1>2
  <2>2. up[i] = up[i-1] \cup ({Parent[o] : o \in up[i-1]} \ {NoOrg})
    BY <1>4, <2>1
  <2> QED BY <1>6, <2>2, Steps
<1> QED BY <1>1, <1>5, <1>6, WalkIsFar

DownFrom(A, o) ==
    LET down[i \in 0..Cardinality(Org)] ==
            IF i = 0 THEN {o}
            ELSE LET S == down[i-1] IN S \cup {c \in A : Parent[c] \in S}
    IN  down[Cardinality(Org)]

LEMMA DownFar ==
  ASSUME NEW A \in SUBSET Org, NEW o \in Org
  PROVE  DownFrom(A, o) = Far(Below(A), {o}, Cardinality(Org))
<1> DEFINE N == Cardinality(Org)
           E == Below(A)
           Downs(h) == h = [i \in 0..N |->
                              IF i = 0 THEN {o}
                              ELSE h[i-1] \cup {c \in A : Parent[c] \in h[i-1]}]
           g == [i \in 0..N |-> Far(E, {o}, i)]
           down == CHOOSE h : Downs(h)
<1>1. DownFrom(A, o) = down[N]
  BY DEF DownFrom
<1>2. N \in Nat
  BY ScopeAssumption, FS_CardinalityType
<1>3. Downs(g)
  <2>1. ASSUME NEW i \in 0..N
        PROVE  g[i] = IF i = 0 THEN {o} ELSE g[i-1] \cup {c \in A : Parent[c] \in g[i-1]}
    <3>1. CASE i = 0
      BY <1>2, <3>1, FarSteps
    <3>2. CASE i # 0
      <4> DEFINE m == i-1
      <4>1. m \in Nat /\ m \in 0..N /\ m+1 = i
        BY <1>2, <3>2
      <4>2. g[m] = Far(E, {o}, m) /\ g[i] = Far(E, {o}, i)
        BY <4>1
      <4>3. g[m] \in SUBSET Org
        BY <4>2 DEF Far
      <4> HIDE DEF g, m
      <4>4. \A k \in Nat : Far(E, {o}, k+1) = Far(E, {o}, k) \cup Beside(E, Far(E, {o}, k))
        BY FarSteps
      <4>5. g[i] = g[m] \cup {c \in A : Parent[c] \in g[m]}
        BY <4>1, <4>2, <4>3, <4>4, Steps
      <4> QED BY <3>2, <4>5 DEF m
    <3> QED BY <3>1, <3>2
  <2> QED BY <2>1
<1>4. Downs(down)
  BY <1>3
<1> HIDE DEF down, g
<1>5. down[0] = {o}
  BY <1>2, <1>4
<1>6. ASSUME NEW i \in 1..N, down[i-1] \subseteq Org
      PROVE  down[i] = down[i-1] \cup Beside(E, down[i-1])
  <2>1. i \in 0..N /\ i # 0
    BY <1>2
  <2>2. down[i] = down[i-1] \cup {c \in A : Parent[c] \in down[i-1]}
    BY <1>4, <2>1
  <2> QED BY <1>6, <2>2, Steps
<1> QED BY <1>1, <1>5, <1>6, WalkIsFar

LEMMA DescendantsFar ==
  ASSUME NEW o \in Org PROVE Descendants[o] = Far(Below(Org), {o}, Cardinality(Org))
<1>1. Descendants[o] = DownFrom(Org, o)
  BY DEF Descendants, DownFrom
<1> QED BY <1>1, DownFar

LEMMA GuardFar ==
  ASSUME NEW a \in Account \ Super
  PROVE  GuardScope[a] = Far(Below(Active), {Of[a]}, Cardinality(Org))
<1>1. GuardScope[a] = DownFrom(Active, Of[a])
  BY DEF GuardScope, DownFrom
<1>2. Of[a] \in Org /\ Active \in SUBSET Org
  BY ScopeAssumption
<1> QED BY <1>1, <1>2, DownFar

\* An organization is above those below it.
LEMMA AboveBelow ==
  ASSUME NEW o \in Org, NEW x \in Org, x \in Descendants[o] PROVE o \in Ancestors({x})
<1> DEFINE N == Cardinality(Org)
<1>1. PICK j \in 0..N : Way(Below(Org), o, x, j)
  BY DescendantsFar DEF Far
<1>2. \A u, v \in Org : <<u, v>> \in Below(Org) => <<v, u>> \in Upward
  BY DEF Below, Upward
<1>3. N \in Nat
  BY ScopeAssumption, FS_CardinalityType
<1>4. j \in Nat
  BY <1>3
<1>5. Way(Upward, x, o, j)
  BY <1>1, <1>2, <1>4, WayBack
<1>6. o \in Far(Upward, {x}, N)
  BY <1>5 DEF Far
<1> QED BY <1>6, AncestorsFar

\* Above a company there is no organization.
LEMMA CompanyOnTop ==
  ASSUME NEW o \in Org, Kind[o] = "COMPANY" PROVE Ancestors({o}) = {o}
<1> DEFINE N == Cardinality(Org)
<1>1. N \in Nat
  BY ScopeAssumption, FS_CardinalityType
<1>2. ASSUME NEW x \in Org, NEW j \in 0..N, Way(Upward, o, x, j) PROVE x = o
  <2>1. PICK p \in [0..j -> Org] :
          p[0] = o /\ p[j] = x /\ \A k \in 0..j-1 : <<p[k], p[k+1]>> \in Upward
    BY <1>2 DEF Way
  <2>2. j = 0
    <3>1. ASSUME j # 0 PROVE FALSE
      <4>1. 0 \in 0..j-1 /\ <<p[0], p[0+1]>> \in Upward
        BY <1>1, <2>1, <3>1
      <4>2. Parent[o] \in Org
        BY <2>1, <4>1 DEF Upward
      <4> QED BY <4>2, ScopeAssumption
    <3> QED BY <3>1
  <2> QED BY <2>1, <2>2
<1>3. o \in Far(Upward, {o}, N)
  BY <1>1, NoWay DEF Far
<1>4. Far(Upward, {o}, N) = {o}
  BY <1>2, <1>3 DEF Far
<1> QED BY <1>4, AncestorsFar

\* What is below an account's organization and has nothing inactive above it is in the
\* account's scope.
LEMMA InForceGuarded ==
  ASSUME NEW a \in Account \ Super, NEW x \in Descendants[Of[a]], Notices!InForce(x)
  PROVE  x \in GuardScope[a]
<1> DEFINE N == Cardinality(Org)
           o == Of[a]
<1>1. N \in Nat /\ o \in Org /\ Active \in SUBSET Org
  BY ScopeAssumption, FS_CardinalityType
<1>2. PICK j \in 0..N : Way(Below(Org), o, x, j)
  BY <1>1, DescendantsFar DEF Far
<1>3. PICK p \in [0..j -> Org] :
        p[0] = o /\ p[j] = x /\ \A k \in 0..j-1 : <<p[k], p[k+1]>> \in Below(Org)
  BY <1>2 DEF Way
<1>4. ASSUME NEW k \in 0..j PROVE p[k] \in Active
  <2> DEFINE q == [i \in 0..j-k |-> p[k+i]]
  <2>1. j-k \in 0..N /\ k \in Int /\ j \in Int
    BY <1>1
  <2>2. q \in [0..j-k -> Org] /\ q[0] = p[k] /\ q[j-k] = x
    BY <1>3, <2>1
  <2>3. ASSUME NEW i \in 0..j-k-1 PROVE <<q[i], q[i+1]>> \in Below(Org)
    <3>1. k+i \in 0..j-1 /\ q[i] = p[k+i] /\ q[i+1] = p[(k+i)+1]
      BY <2>1
    <3> QED BY <1>3, <3>1
  <2> HIDE DEF q
  <2>4. Way(Below(Org), p[k], x, j-k)
    BY <2>2, <2>3 DEF Way
  <2>5. p[k] \in Org /\ x \in Org
    BY <1>3, <1>1
  <2>6. x \in Far(Below(Org), {p[k]}, N)
    BY <2>1, <2>4, <2>5 DEF Far
  <2>7. x \in Descendants[p[k]]
    BY <2>5, <2>6, DescendantsFar
  <2> QED BY <2>5, <2>7 DEF Notices!InForce
<1>5. \A k \in 0..j-1 : <<p[k], p[k+1]>> \in Below(Active)
  <2> SUFFICES ASSUME NEW k \in 0..j-1 PROVE <<p[k], p[k+1]>> \in Below(Active)
    OBVIOUS
  <2>1. k+1 \in 0..j
    BY <1>1
  <2> QED BY <1>3, <1>4, <2>1 DEF Below
<1>6. Way(Below(Active), o, x, j)
  BY <1>3, <1>5 DEF Way
<1>7. x \in Org
  BY <1>1, <1>3
<1>8. x \in Far(Below(Active), {o}, N)
  BY <1>6, <1>7 DEF Far
<1> QED BY <1>8, GuardFar

\* Who may see an organization may see it as one of those above.
LEMMA OwnAncestor == ASSUME NEW S \in SUBSET Org PROVE S \subseteq Ancestors(S)
<1>1. Cardinality(Org) \in Nat
  BY ScopeAssumption, FS_CardinalityType
<1>2. 0 \in 0..Cardinality(Org)
  BY <1>1
<1>3. \A x \in S : Way(Upward, x, x, 0)
  BY NoWay
<1>4. S \subseteq Far(Upward, S, Cardinality(Org))
  BY <1>2, <1>3 DEF Far
<1> QED BY <1>4, AncestorsFar

\* findAll, findOne, toResponseDto, dispatchNoticeCreatedPush: an account opens what it
\* is listed and is listed what it may edit, unless the organization of the notice or one
\* above it is inactive; who manages the place of a device that is told can read it.
THEOREM NoticeReadersAgree == Notices!Spec => []Notices!ReadersAgree
<1>1. NoticeInv => Notices!ReadersAgree
  <2> SUFFICES ASSUME NoticeInv, NEW n \in Notice, NEW a \in Account
               PROVE  /\ n \in Notices!FindAll(a, NoOrg) <=> Notices!MayOpen(n, a)
                      /\ Notices!Posted(n) /\ Notices!IsEditableByMe(n, a)
                         /\ Notices!InForce(notice[n].org) => n \in Notices!FindAll(a, NoOrg)
                      /\ Notices!Posted(n) /\ Of[a] \in Notices!PushedTo(n)
                         => Notices!MayOpen(n, a)
                      /\ Notices!IsEditableByMe(n, a) /\ ~ Notices!EditsScoped(a)
                         => notice[n].by = a
    BY DEF Notices!ReadersAgree
  <2> DEFINE o == notice[n].org
  <2>1. n \in Notices!FindAll(a, NoOrg) <=> Notices!MayOpen(n, a)
    BY DEF Notices!FindAll, Notices!MayOpen
  <2>2. Notices!IsEditableByMe(n, a) /\ ~ Notices!EditsScoped(a) => notice[n].by = a
    BY DEF Notices!IsEditableByMe, Notices!CanEdit, Notices!EditsScoped
  <2>3. Notices!Posted(n) => o \in Org
    BY DEF Notices!Posted, NoticeInv, NoticeTypes, NoticeRow
  <2>4. /\ Of[a] \in Org
        /\ Readable[a] = IF a \in Super THEN Org
                         ELSE Ancestors({Of[a]}) \cup Ancestors(GuardScope[a])
    BY ScopeAssumption DEF Readable
  <2>5. ASSUME Notices!Posted(n), Of[a] \in Notices!PushedTo(n) PROVE o \in Readable[a]
    BY <2>3, <2>4, <2>5, AboveBelow DEF Notices!PushedTo
  <2>6. ASSUME Notices!Posted(n), Notices!IsEditableByMe(n, a), Notices!InForce(o)
        PROVE  Notices!CanAccess(notice[n], a, Readable[a])
    <3>1. CASE a \in Super
      BY <2>3, <2>4, <2>6, <3>1 DEF Notices!CanAccess, Notices!CanRead
    <3>2. CASE notice[n].by = a
      BY <3>2 DEF Notices!CanAccess
    <3>3. CASE a \notin Super /\ notice[n].by # a
      <4>1. Kind[Of[a]] = "COMPANY" /\ o \in Manageable[a]
        BY <2>6, <3>3 DEF Notices!IsEditableByMe, Notices!CanEdit, Notices!EditsScoped, Notices!CanRead
      <4>2. Ancestors({Of[a]}) = {Of[a]}
        BY <2>4, <4>1, CompanyOnTop
      <4>3. Manageable[a] = UNION {Descendants[c] : c \in AncestorOf("COMPANY", Of[a])}
        BY <3>3, <4>1 DEF Manageable
      <4>4. o \in Descendants[Of[a]]
        BY <4>1, <4>2, <4>3 DEF AncestorOf
      <4>5. o \in GuardScope[a]
        BY <2>6, <3>3, <4>4, InForceGuarded
      <4>6. GuardScope[a] \in SUBSET Org
        BY <3>3, GuardFar DEF Far
      <4>7. o \in Ancestors(GuardScope[a])
        BY <4>5, <4>6, OwnAncestor
      <4> QED BY <2>4, <3>3, <4>7 DEF Notices!CanAccess, Notices!CanRead
    <3> QED BY <3>1, <3>2, <3>3
  <2>7. Notices!CanAccess(notice[n], a, Readable[a]) /\ Notices!Posted(n)
        => Notices!MayOpen(n, a)
    BY DEF Notices!MayOpen
  <2>8. o \in Readable[a] => Notices!CanAccess(notice[n], a, Readable[a])
    BY DEF Notices!CanAccess, Notices!CanRead
  <2> HIDE DEF o
  <2> QED BY <2>1, <2>2, <2>5, <2>6, <2>7, <2>8 DEF o
<1> QED BY <1>1, NoticeAlways, PTL

-----------------------------------------------------------------------------
(* The services together. *)

\* Every behaviour is one of each service: the others stand still.
LEMMA DeploymentsPart == Spec => Deployments!Spec
<1>1. Init => Deployments!Init
  BY DEF Init
<1>2. [Next]_vars => [Deployments!Next]_(Deployments!vars)
  BY DEF Next, vars, Deployments!vars, Deployments!work, deploymentVars
<1> QED BY <1>1, <1>2, PTL DEF Spec, Deployments!Spec

LEMMA VersionsPart == Spec => Versions!Spec
<1>1. Init => Versions!Init
  BY DEF Init
<1>2. [Next]_vars => [Versions!Next]_(Versions!rowVars)
  BY DEF Next, vars, Versions!rowVars, versionVars
<1> QED BY <1>1, <1>2, PTL DEF Spec, Versions!Spec

LEMMA TbmsPart == Spec => Tbms!Spec
<1>1. Init => Tbms!Init
  BY DEF Init
<1>2. [Next]_vars => [Tbms!Next]_(Tbms!tbmVars)
  BY DEF Next, vars, Tbms!tbmVars, sessionVars
<1> QED BY <1>1, <1>2, PTL DEF Spec, Tbms!Spec

LEMMA NoticesPart == Spec => Notices!Spec
<1>1. Init => Notices!Init
  BY DEF Init
<1>2. [Next]_vars => [Notices!Next]_(Notices!noticeVars)
  BY DEF Next, vars, Notices!noticeVars, noticeVars
<1> QED BY <1>1, <1>2, PTL DEF Spec, Notices!Spec

LEMMA ReportsPart == Spec => Reports!Spec
<1>1. Init => Reports!Init
  BY DEF Init
<1>2. [Next]_vars => [Reports!Next]_(Reports!reportVars)
  BY DEF Next, vars, Reports!reportVars, reportVars
<1> QED BY <1>1, <1>2, PTL DEF Spec, Reports!Spec

LEMMA IssuesPart == Spec => Issues!Spec
<1>1. Init => Issues!Init
  BY DEF Init
<1>2. [Next]_vars => [Issues!Next]_(Issues!issueVars)
  BY DEF Next, vars, Issues!issueVars, issueVars
<1> QED BY <1>1, <1>2, PTL DEF Spec, Issues!Spec

\* The rows of every service are of their types: no reference dangles, nothing is
\* confirmed that was not asked, a current version exists.
THEOREM DocumentsTyped == Spec => []TypeOK
<1>1. /\ Deployments!TypeOK /\ Versions!TypeOK /\ Tbms!TypeOK
      /\ Notices!TypeOK /\ Reports!TypeOK /\ Issues!TypeOK
      => TypeOK
  BY DEF TypeOK
<1> QED BY <1>1, DeploymentsPart, DeploymentsTyped, VersionsPart, VersionsTyped, TbmsPart,
           TbmsTyped, NoticesPart, NoticesTyped, ReportsPart, ReportsTyped, IssuesPart,
           IssueTypes, PTL

\* createDeploymentAndAssignments: a worker is asked once a day unless two deployments
\* were made at the same time, and whoever a deployment is made for is asked.
THEOREM AskedOnceADay == Spec => []AskedOncePerDay
<1>1. Deployments!AskedOnce /\ Deployments!EveryDayCovered => AskedOncePerDay
  BY DEF AskedOncePerDay
<1> QED BY <1>1, DeploymentsPart, WorkersAskedOnce, LatestReachesAll, PTL

\* Lists, details, counts, filters and rights of the same rows agree: of checklists,
\* TBM records and notices.
THEOREM ListsAndCountsAgree == Spec => []ReportsAgree
<1>1. Deployments!ReportsAgree /\ Tbms!ListsAgree /\ Notices!ReadersAgree => ReportsAgree
  BY DEF ReportsAgree
<1> QED BY <1>1, DeploymentsPart, DeploymentReportsAgree, TbmsPart, TbmListsAgree,
           NoticesPart, NoticeReadersAgree, PTL

\* The updates, removals and clean-ups of TBM records and notices remove no file that a
\* row names, and those of TBM records leave none behind.
THEOREM FilesAreThere == Spec => []NamedFilesExist
<1>1. Tbms!NamedFilesExist /\ Tbms!NoFileLeft /\ Notices!NamedFilesExist => NamedFilesExist
  BY DEF NamedFilesExist
<1> QED BY <1>1, TbmsPart, TbmFilesExist, NoticesPart, NoticeFilesExist, PTL

\* ChecklistsService.update: an old version of a checklist comes back only through
\* overlapping updates.
THEOREM VersionsOnlyGrow == Spec => CurrentOnlyGrows
BY VersionsPart, VersionsGrow DEF CurrentOnlyGrows

\* The text that is queued or stored for translation is the text that was saved last, in
\* each of the three services that have texts translated.
THEOREM TextsTranslated == Spec => []SourceIsTranslated
<1>1. /\ Tbms!LanguagesQueued /\ Notices!LastSaveIsTranslated
      /\ Reports!ResolutionIsTranslated
      => SourceIsTranslated
  BY DEF SourceIsTranslated
<1> QED BY <1>1, TbmsPart, AttendeesTranslated, NoticesPart, NoticesTranslated,
           ReportsPart, ResolutionTranslated, PTL

\* The times of a TBM record, and the assignee, the resolution and the history of an
\* incident report, fit its status.
THEOREM StatusesFit == Spec => []StatusFits
<1>1. Tbms!TimesFit /\ Reports!StatusFits => StatusFits
  BY DEF StatusFits
<1> QED BY <1>1, TbmsPart, TbmTimesFit, ReportsPart, ReportStatusFits, PTL

\* assertItemTemplateNameAvailable gives a name twice only to requests that overlap, and
\* the numbers of the documents of a day have no gap and no repetition.
THEOREM NumbersAndNames == Spec => []NumbersAndNamesUnique
<1>1. Versions!NamesUnlessConcurrent /\ Issues!NumbersUnbroken => NumbersAndNamesUnique
  BY DEF NumbersAndNamesUnique
<1> QED BY <1>1, VersionsPart, NamesLookedUp, IssuesPart, NumbersWithoutGap, PTL
================================================================================
