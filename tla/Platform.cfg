SPECIFICATION PlatformSpec
CONSTANTS
  WfSteps = {s1, s2, s3}
  Unknown = unknown
  WfConditions = {"success()", "failure()", "unsupported"}
  BuildSteps = {s1, s2}
  Retried = {s1}
  Tolerant = {s2}
  Vms = {d1, d2}
  VmNames = {n1}
  NameOf <- SameName
  GuestIps = {i1}
  NoIp = NoIp
  NoVm = NoVm
  OrgUsers = {u1, u2}
  Founder = u1
  CustomRoles = {c1}
  Teams = {t1}
  Projects = {p1}
  MaxPending = 2
  Envs = {prod, e1}
  Production <- ProductionOf
  NoEnv = NoEnv
  Apps = {a1}
  Variables = {v1}
  RemoteAgents = {a1, a2}
  LocalAgents = {l1}
  Tokens = {t1}
  MaxRegistrations = 3
  GameRevisions = {r1, r2}
  OwnRevision = r1
  GameRows = {w1, w2}
  GameCalls = {c1, c2}
  Players = {u1, u2}
  Crews = {k1}
  CrewOf <- SecondPlayer
  GrantIds = {g1, g2}
  MaxGrantCalls = 2
  Mails = {m1, m2}
  Installers = {c1, c2}
  NoMail = NoMail
  Values = {v1, v2}
  Ports = {q1, q2}
  MaxClicks = 2
  Worlds = {w1, w2}
  NoWorld = NoWorld
  Paths = {p1}
  NoPath = NoPath
  NoText = NoText
  FileOps = {o1, o2}
  MaxGrants = 2
  LimitKeys = {k1, k2}
  Chains <- ShortChains
  Hits = {h1, h2}
  MaxHits = 1
  MaxClock = 3
  Buckets = {b1}
  HealthBucket = hb
  BlobCalls = {c1, c2, c3}
  Nobody = Nobody
  Pairs = {p1, p2}
  Tabs = {t1, t2}
  NoPair = NoPair
  SiteIds = {d1, d2}
  SiteHosts = {h1, h2}
  SiteTargets = {g1}
  Blank = Blank
  NewSite = NewSite
  SiteCalls = {c1, c2}
  MaxSaves = 2
INVARIANTS
  PlatformTypeOK
  AccessSound
  
  RunsSound
  StoresSound
  DashboardSound
PROPERTIES
  AdministrationRules
CONSTRAINT Explored
CHECK_DEADLOCK FALSE
