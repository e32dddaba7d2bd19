------------------------------- MODULE Knowledge -------------------------------
(***************************************************************************)
(* The services around the wiki, the index and memory: WikiPatch, Search,  *)
(* SessionSearch, SourceIngest, Memory, Notes, Topics and Review.  They    *)
(* share no state, so their steps commute and a behaviour is one of a      *)
(* single service: scene says which, the variables of the others stay None.*)
(***************************************************************************)
EXTENDS Naturals, Sequences, FiniteSets

CONSTANT None

VARIABLE scene

------------------------------------------------------------------------------
(* WikiPatch *)

CONSTANTS Proposals, PatchSources, Home, SizeOf, FrameOf, FirstRevision, MaxCommits

VARIABLES revision, pages, claims, citations, registry, trail, wal, index,
          visibility, markers, base, approvals

WP == INSTANCE WikiPatch WITH Sources <- PatchSources, First <- FirstRevision

patchVars ==
  <<revision, pages, claims, citations, registry, trail, wal, index, visibility, markers, base, approvals>>
PatchIdle ==
  /\ revision = None /\ pages = None /\ claims = None /\ citations = None
  /\ registry = None /\ trail = None /\ wal = None /\ index = None
  /\ visibility = None /\ markers = None /\ base = None /\ approvals = None

------------------------------------------------------------------------------
(* Search *)

CONSTANTS Documents, Scopes

VARIABLES indexed, generation, withdrawn

IX == INSTANCE Search

indexVars == <<indexed, generation, withdrawn>>
IndexIdle == indexed = None /\ generation = None /\ withdrawn = None

------------------------------------------------------------------------------
(* SessionSearch *)

CONSTANTS Sessions, Ttl, Grace, MaxTime

VARIABLES entries, found, hour

SX == INSTANCE SessionSearch WITH now <- hour

sessionVars == <<entries, found, hour>>
SessionsIdle == entries = None /\ found = None /\ hour = None

------------------------------------------------------------------------------
(* SourceIngest *)

CONSTANTS Imports, Contents, ContentOf, KindOf, Sandboxed, Permitted

VARIABLES blob, at, outcome, records, stages

SI == INSTANCE SourceIngest WITH audit <- records

ingestVars == <<blob, at, outcome, records, stages>>
IngestIdle == blob = None /\ at = None /\ outcome = None /\ records = None /\ stages = None

------------------------------------------------------------------------------
(* Memory *)

CONSTANTS Items, Users, Areas, Capacity, MinTrust, MemoryTime, MaxWrites

VARIABLES stored, status, snapshot, writes, audit, now, path, evicted, lost

MS == INSTANCE Memory WITH Sessions <- Users, Scopes <- Areas, MaxTime <- MemoryTime

memoryVars == <<stored, status, snapshot, writes, audit, now, path, evicted, lost>>
MemoryIdle ==
  /\ stored = None /\ status = None /\ snapshot = None /\ writes = None /\ audit = None
  /\ now = None /\ path = None /\ evicted = None /\ lost = None

------------------------------------------------------------------------------
(* Notes *)

CONSTANTS NoteIds, Texts, Claimed, MaxEdits

VARIABLES notes, noteIndex, used, edits, disputed

NS == INSTANCE Notes WITH indexed <- noteIndex

noteVars == <<notes, noteIndex, used, edits, disputed>>
NotesIdle ==
  notes = None /\ noteIndex = None /\ used = None /\ edits = None /\ disputed = None

------------------------------------------------------------------------------
(* Topics *)

CONSTANTS Lists, Arrivals, Kept, Above

VARIABLES items, topics, arrived, given

TC == INSTANCE Topics

topicVars == <<items, topics, arrived, given>>
TopicsIdle == items = None /\ topics = None /\ arrived = None /\ given = None

------------------------------------------------------------------------------
(* Review *)

CONSTANTS Reviewers, Carded, CardKind, Fitting, Titles, Times, MaxCalls, MaxFound

VARIABLES queue, clock, held, requests, put, taken

RV == INSTANCE Review WITH Items <- Carded, KindOf <- CardKind

reviewVars == <<queue, clock, held, requests, put, taken>>
ReviewIdle ==
  queue = None /\ clock = None /\ held = None /\ requests = None /\ put = None /\ taken = None

------------------------------------------------------------------------------

\* What the proofs take the constants to be.
ASSUME KnowledgeAssumption ==
  /\ WP!PatchAssumption
  /\ SX!SessionAssumption
  /\ SI!IngestAssumption
  /\ MS!MemoryAssumption
  /\ NS!NotesAssumption
  /\ TC!TopicsAssumption
  /\ RV!ReviewAssumption

Init ==
  \/ /\ scene = "patches" /\ WP!Init /\ IndexIdle /\ SessionsIdle /\ IngestIdle
     /\ MemoryIdle /\ NotesIdle /\ TopicsIdle /\ ReviewIdle
  \/ /\ scene = "index" /\ PatchIdle /\ IX!Init /\ SessionsIdle /\ IngestIdle
     /\ MemoryIdle /\ NotesIdle /\ TopicsIdle /\ ReviewIdle
  \/ /\ scene = "sessions" /\ PatchIdle /\ IndexIdle /\ SX!Init /\ IngestIdle
     /\ MemoryIdle /\ NotesIdle /\ TopicsIdle /\ ReviewIdle
  \/ /\ scene = "ingest" /\ PatchIdle /\ IndexIdle /\ SessionsIdle /\ SI!Init
     /\ MemoryIdle /\ NotesIdle /\ TopicsIdle /\ ReviewIdle
  \/ /\ scene = "memory" /\ PatchIdle /\ IndexIdle /\ SessionsIdle /\ IngestIdle
     /\ MS!MemoryInit /\ NotesIdle /\ TopicsIdle /\ ReviewIdle
  \/ /\ scene = "notes" /\ PatchIdle /\ IndexIdle /\ SessionsIdle /\ IngestIdle
     /\ MemoryIdle /\ NS!NotesInit /\ TopicsIdle /\ ReviewIdle
  \/ /\ scene = "topics" /\ PatchIdle /\ IndexIdle /\ SessionsIdle /\ IngestIdle
     /\ MemoryIdle /\ NotesIdle /\ TC!TopicsInit /\ ReviewIdle
  \/ /\ scene = "review" /\ PatchIdle /\ IndexIdle /\ SessionsIdle /\ IngestIdle
     /\ MemoryIdle /\ NotesIdle /\ TopicsIdle /\ RV!ReviewInit

Patches == /\ scene = "patches" /\ WP!Next
           /\ UNCHANGED <<scene, indexVars, sessionVars, ingestVars, memoryVars, noteVars, topicVars, reviewVars>>
Index == /\ scene = "index" /\ IX!Next
         /\ UNCHANGED <<scene, patchVars, sessionVars, ingestVars, memoryVars, noteVars, topicVars, reviewVars>>
Expiring == /\ scene = "sessions" /\ SX!Next
            /\ UNCHANGED <<scene, patchVars, indexVars, ingestVars, memoryVars, noteVars, topicVars, reviewVars>>
Ingest == /\ scene = "ingest" /\ SI!Next
          /\ UNCHANGED <<scene, patchVars, indexVars, sessionVars, memoryVars, noteVars, topicVars, reviewVars>>
Memories == /\ scene = "memory" /\ MS!MemoryNext
            /\ UNCHANGED <<scene, patchVars, indexVars, sessionVars, ingestVars, noteVars, topicVars, reviewVars>>
ProjectNotes == /\ scene = "notes" /\ NS!NotesNext
                /\ UNCHANGED <<scene, patchVars, indexVars, sessionVars, ingestVars, memoryVars, topicVars, reviewVars>>
Clusters == /\ scene = "topics" /\ TC!TopicsNext
            /\ UNCHANGED <<scene, patchVars, indexVars, sessionVars, ingestVars, memoryVars, noteVars, reviewVars>>
Reviews == /\ scene = "review" /\ RV!ReviewNext
           /\ UNCHANGED <<scene, patchVars, indexVars, sessionVars, ingestVars, memoryVars, noteVars, topicVars>>

Next ==
  \/ Patches
  \/ Index
  \/ Expiring
  \/ Ingest
  \/ Memories
  \/ ProjectNotes
  \/ Clusters
  \/ Reviews

vars == <<scene, patchVars, indexVars, sessionVars, ingestVars, memoryVars, noteVars,
          topicVars, reviewVars>>

Spec == Init /\ [][Next]_vars

------------------------------------------------------------------------------
(* What is asked of them, of each where it is the one *)

\* WikiPatch: commits form one line, each against the revision its author has seen.
OneLine == scene = "patches" => WP!OneLine

\* WikiPatch: every citation a claim declares is in the store, inside its source.
ClaimsBacked == scene = "patches" => WP!ClaimsBacked

\* Search: a withdrawn source stays out of answers and citations until a rebuild.
WithdrawnStaysOut == scene = "index" => IX!WithdrawnStaysOut

\* SessionSearch: a session can be found exactly while its entry is active.
SessionsAgree == scene = "sessions" => SX!SessionsAgree

\* SourceIngest: what an import reports as stored is there, all of it.
StoredIsWhole == scene = "ingest" => SI!StoredIsWhole

\* Memory: within one stay in the store, what was rejected, given up or expired never
\* becomes Active again and what was proposed unchecked is not Active before its source was
\* checked; a full store gives up an Active item never, an Approved one last.
MemoryHolds == scene = "memory" => MS!DeadStayDead /\ MS!EveryStayChecked /\ MS!SparesTheActive

\* Memory: what is Active was approved, and what a session wrote is kept when it ends.
\* Neither holds: see MCKnowledgeMemory.cfg.
ApprovedFirst == scene = "memory" => MS!ApprovedFirst
WritesAreKept == scene = "memory" => MS!WritesAreKept

\* Notes: a disputed note never becomes Active, a deleted one is never shown.
DisputedStaysOut == scene = "notes" => NS!DisputedStaysOut

\* Topics: every item is in one topic, no two topics begin alike, and a later item
\* joins the topic that is closest to it.
TopicsHold == scene = "topics" => TC!TopicsPartition /\ TC!JoinsTheClosest

\* Review: no review brings a removed card back, and the longest overdue comes first.
ReviewsHold == scene = "review" => RV!CardsCounted /\ RV!EarliestFirst

=============================================================================
