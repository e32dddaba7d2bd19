CONSTANTS
  None = None
  c1 = c1  c2 = c2  i1 = i1  i2 = i2  i3 = i3  m = m  n = n  p = p  q = q  r1 = r1  r2 = r2
  Proposals <- MCProposals
  PatchSources <- MCSources
  Home <- MCHome
  SizeOf <- MCSizeOf
  FrameOf <- MCFrameOf
  FirstRevision = 0
  MaxCommits = 3
  Documents <- MCDocuments
  Scopes = {"A", "B"}
  Sessions = {"x", "y"}
  Ttl = 2
  Grace = 1
  MaxTime = 4
  Imports <- MCImports
  Contents <- MCContents
  ContentOf <- MCContentOf
  KindOf <- MCKindOf
  Sandboxed <- MCSandboxed
  Permitted <- MCPermitted
  Items <- MCItems
  Users = {"s"}
  Areas = {"A"}
  Capacity = 2
  MinTrust = 1
  MemoryTime = 1
  MaxWrites = 2
  NoteIds <- MCNoteIds
  Texts <- MCTexts
  Claimed <- MCClaimed
  MaxEdits = 2
  Lists <- MCLists
  Arrivals <- MCArrivals
  Kept = 2
  Above <- MCAbove
  Reviewers <- MCReviewers
  Carded = {"a", "b"}
  CardKind <- MCCardKind
  Fitting = {"a"}
  Titles = {"t"}
  Times = {0, 30000, 100000}
  MaxCalls = 3
  MaxFound = 2
SPECIFICATION Spec
INVARIANTS OneLine ClaimsBacked WithdrawnStaysOut SessionsAgree StoredIsWhole MemoryHolds DisputedStaysOut TopicsHold ReviewsHold
CHECK_DEADLOCK FALSE
