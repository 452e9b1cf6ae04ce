CONSTANTS
    NoDate = NoDate
    MaxItems = 2
    k1 = k1
    k2 = k2
    e1 = e1
    o1 = o1
    o2 = o2
    c1 = c1
    c2 = c2
    g1 = g1
    g2 = g2
    role = role
    account = account
    master = master
    site = site
    u1 = u1
    u2 = u2
    p1 = p1
    p2 = p2
    app1 = app1
    a1 = a1
    a2 = a2
    Client = {k1, k2}
    Content <- Boards
    Normal <- Stored
    Empty <- EmptyBoard
    MaxSaves = 3
    Employee = {e1}
    Org = {o1, o2}
    NoOrg = NoOrg
    Hour = {9}
    Act = {"app"}
    MaxDay = 2
    MaxEvents = 2
    Setting <- Settings
    SiteCounts <- Counts
    MaxSettings = 2
    Company = {c1, c2}
    Group = {g1, g2}
    CompanyOf <- HomeCompany
    Code = {"ORG_WRITE", "ACCOUNT_WRITE"}
    NonDelegable = {"ACCOUNT_WRITE"}
    Role = {role}
    Administrator = {account}
    Nobody = Nobody
    MaxEdits = 5
    Account = {account, master}
    Master = master
    AccessLife = 1
    RefreshLife = 4
    Inactivity = 2
    Absolute = 3
    MaxTime = 7
    MaxLogins = 2
    Site = site
    Unit = {u1, u2}
    Policy = {p1, p2}
    OwnerOf <- PolicyOwner
    Behaves = {p2}
    PhoneApp = {app1}
    NoPolicy = NoPolicy
    Keep = Keep
    Wants <- PolicyUpdates
    Unset = {u2}
    MaxRequests = 2
    App = {a1, a2}
    Preset = {site}
    Package = {"Chat", "chat", "map"}
    Folded <- Folding
    NoPackage = "none"
    Icon = {"icon"}
    NoIcon = "none"
    Worker = {k1, k2}
    MaxCalls = 2
SPECIFICATION Spec
SYMMETRY Symmetry
INVARIANTS TypeOK NightSettles   
PROPERTY ImplementsRegister
CHECK_DEADLOCK FALSE
