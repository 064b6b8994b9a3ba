SPECIFICATION Spec
CONSTANTS
    MediaClients = {mc1, mc2}
    MediaWorkers = {c1, c2}
    MediaMaxAttempts = 2
    MaxMediaJobs = 2
    MaxMediaFaults = 1
    Reviewers = {c1, c2}
    Authors = {au1, au2}
    MaxProposals = 2
    MaxItemVersion = 2
    MaxDraftVersion = 2
    Researchers = {c1, c2}
    MaxResearchSources = 2
    MaxIdentified = 3
    Producers = {c1, c2}
    TaskReviewers = {tr1}
    MaxTasks = 2
    Identities = {i1, i2}
    Importers = {im1}
    Assessors = {c1, c2}
    MarketSchedules = {sm1}
    PlainSchedules = {sp1}
    Tickers = {c1, c2}
    Interval = 2
    RunsPerTick = 2
    MaxTime = 4
    Logins = {c1, c2}
    Users = {us1}
    MaxSessions = 3
    MaxStates = 1
    MaxRevocations = 1
    Handlers = {c1, c2}
    Amounts = {am1, am2}
    MaxTerms = 1
    MaxOfferFaults = 1
    Responders = {c1, c2}
    Bodies = {b1, b2}
    Facts = {f1, f2}
    MaxMessageFaults = 1
    Writers = {c1, c2}
    MaxPrice = 2
    MaxStarted = 4
    MaxListingFaults = 1
    Shippers = {c1, c2}
    MaxTaskVersion = 3
    MaxShippingFaults = 1
    Offered = {30, 31, 32, 33, 34, 35, 36, 37, 38, 39, 40, 41, 42, 43, 44, 45, 46, 47, 48, 49, 95, 97, 99, 101, 103, 105, 107, 109, 111, 113, 115, 117, 119, 121, 123, 125, 127, 129, 131, 133, 135, 137, 139, 141, 143, 145, 147, 149, 151, 153, 155, 157, 159, 1368, 1369, 1370, 1371, 1372, 1373, 1374, 1375, 1376, 1377, 1378, 1379, 1380, 1381, 1382, 1383, 1384, 1385, 1386, 1387, 1388, 1389, 2000}
    Costs = {0, 7, 100}
    Profits = {0, 20, 1200}
    Prices = {99, 250, 2000}
    Percents = {0, 20, 36}
    Days = {0, 14, 59, 90}
    MarkdownStep = 100
    Clients = {c1, c2}
    ListPrices = {1, 2}
    MaxRetries = 1
    MaxRemoteOffers = 2
    MaxLostAnswers = 2
    MaxOperations = 4
    Callers = {c1, c2}
    JobBodies = {jb1, jb2}
    ItemBodies = {ib1}
    MaxMade = 3
    MaxExpiries = 1
    MaxRequestFaults = 1
SYMMETRY Symmetry
INVARIANTS
    TypeOK
    MediaAccounted
    DecisionsHold
    IdentifiedOnce
    ReviewedOnce
    InvalidatedNeverPriced
    DueRunOnce
    RevokedForGood
    AnswerTold
    OneReply
    ListingsAgree
    LabelsAccounted
    PoliciesSound
    ReportsHold
    IdempotentOnce
CHECK_DEADLOCK FALSE
