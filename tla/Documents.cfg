CONSTANTS
    r1 = r1
    r2 = r2
    f1 = f1
    f2 = f2
    p1 = p1
    p2 = p2
    company = company
    other = other
    group = group
    unit = unit
    admin = admin
    manager = manager
    Request = {r1, r2}
    File = {f1, f2}
    NoFile = NoFile
    Checklist = {doc1}
    Employee = {p1}
    MaxDay = 2
    MaxDeployments = 2
    MaxSubmissions = 1
    ItemTemplate = {doc1, doc2}
    Name = {"daily"}
    MaxVersion = 3
    MaxWrites = 2
    Tbm = {doc1}
    Person = {p1, p2}
    Company = {company, other}
    Unit = {unit}
    At <- EmployeeAt
    Speaks <- EmployeeSpeaks
    Korean = "ko"
    MaxFiles = 1
    MaxTbmCalls = 4
    Notice = {doc1}
    NoticeTemplate = {doc2}
    MaxNoticeCalls = 3
    MaxContent = 2
    Report = {doc1}
    Admin = {admin}
    NoAdmin = NoAdmin
    MaxHistory = 3
    MaxText = 2
    MaxDate = 2
    MaxIssues = 2
    NoOrg = NoOrg
    Org = {company, group, unit}
    Parent <- ParentOf
    Kind <- KindOf
    Active = {company, group, unit}
    Super = {}
    Account = {admin, manager}
    Of <- AccountOf
SPECIFICATION Spec
SYMMETRY Symmetry
INVARIANTS TypeOK AskedOncePerDay  
INVARIANTS  StatusFits NumbersAndNamesUnique
PROPERTY CurrentOnlyGrows
CHECK_DEADLOCK FALSE
