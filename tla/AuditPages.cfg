SPECIFICATION LibrarySpec
CONSTANTS
    Parts = {"lists"}
    Incidents = {"a", "b"}
    Savers = {save1, save2}
    Texts = {"text"}
    LogNumbers = {"26-001"}
    RecordsStatuses = {"in_progress", "archived"}
    MaxRevision = 4
    Unset = Unset
    Sessions = {s1, s2}
    OwnerOf <- BothAnna
    Tokens = {t1, t2}
    Handoffs = {"h1"}
    Labs = {"l1"}
    ConfirmKeys = {"k1"}
    CommandKeys = {c1, c2}
    Requests = {q1, q2}
    InUse <- TwoCommands
    None = None
    Forms = {"weapon form", "chain of custody", "statement"}
    Conditions <- AskedFor
    Physical = {"chain of custody"}
    NeedsReport = {"statement"}
    OfficerForms = {"statement", "chain of custody"}
    PacketCalls = {p1, p2}
    MaxRevisions = 2
    NoForm = NoForm
    Passages <- ThreePassages
    Unreadable = Unreadable
    MaxResults = 2
    MaxMarks = 2
    MaxPassages = 2
    MaxPerSource = 1
    MaxChars = 3
    Summaries = TRUE
    Officers = {"o1", "o2"}
    Inmates = {"i1", "i2", "i3"}
    Surname <- Surnames
    Slots = {"first", "second"}
    Rules <- TwoRules
    Always = Always
    charge = charge
    Charges = {charge}
    Nobody = Nobody
    NotesSeen <- FourNotes
    Drafts <- ThreeDrafts
    MaxPasses = 2
    Instances = {"one", "two"}
    ServesReads = {"one"}
    Edits = {"e1", "e2"}
    Wanted <- EditPairs
    Seed <- BobOnly
    MaxAttempts = 2
    NoCopy = NoCopy
    Bootstraps = {"b1", "b2"}
    Imports = {"i1", "i2"}
    StaffIds = {"s1", "s2", "s3"}
    Numbers = {1, 2, 3}
    Names = {"ann", "bob"}
    Posts = {"x"}
    Plans <- FiveSources
    StartStaff <- OnStaff
    MaxPageEdits = 1
    NoStaff = NoStaff
    ExportReports = {"r1", "r2"}
    ExportRequests = {"x1", "x2"}
    Keys = {"k1", "k2"}
    Asked <- TwoAsked
    MaxDocuments = 2
    MaxSaves = 2
    MaxExpiries = 1
    NoExport = NoExport
    Entries = {1, 2, 3, 4}
    Readers = {"ann", "bob"}
    Lists = {"incidents", "audit v1"}
    Passes = {"walk"}
    PageSize = 1
    Times = {1, 2}
    MaxEdits = 2
    StartRows <- RowsAtFirst
    NoList = NoList
INVARIANTS PagesGoOn
CHECK_DEADLOCK FALSE
