------------------------------- MODULE WikiPatch -------------------------------
(***************************************************************************)
(* WikiPatchStore (crates/seaki-wiki/src/patch.rs): patches prepared       *)
(* against a base revision, approved, and committed behind a log that the  *)
(* caller appends to.  Sources may be withdrawn and approvals decided while *)
(* a patch waits.  A patch keeps its id when it is prepared again.         *)
(***************************************************************************)
EXTENDS Naturals, Sequences, FiniteSets

CONSTANTS
  Proposals,   \* [patch, page, claims, citations, home, actor]: claims are records
               \* [id, page, cites], citations [id, claim, source, from, to, framed]
  Sources,     \* the sources whose permission scope is that of source.ingest
  Home,        \* workspace of each source
  SizeOf,      \* size of each source
  FrameOf,     \* [from, to]: the frame of each source that a citation with a frame names
  First,       \* the revision the store starts with
  MaxCommits   \* bound on the log

\* A patch brings finitely many claims and citations.
PatchAssumption ==
  /\ First \in Nat
  /\ \A p \in Proposals : IsFiniteSet(p.claims) /\ IsFiniteSet(p.citations)

VARIABLES
  revision,    \* current_revision
  pages,       \* page ids in the store
  claims,      \* claim id -> its record
  citations,   \* citation id -> its record
  registry,    \* citation id -> the claim and source it is registered for
  trail,       \* audit_records: [patch, base, revision]
  wal,         \* what the caller's log holds
  index,       \* index_status
  visibility,  \* of each source: "visible", "restricted", "tombstoned"
  markers,     \* rollback_markers: patch -> the revision before it
  base,        \* proposal -> the revision it was prepared against
  approvals    \* the approvals that were granted: [patch, home, actor]

store == <<revision, pages, claims, citations, registry, trail, markers, index>>
vars == <<store, wal, visibility, base, approvals>>

Empty == [x \in {} |-> 0]

Init ==
  /\ revision = First /\ pages = {} /\ claims = Empty /\ citations = Empty
  /\ registry = Empty /\ trail = <<>> /\ wal = <<>> /\ index = "Fresh"
  /\ visibility = [s \in Sources |-> "visible"]
  /\ base = [p \in Proposals |-> First]
  /\ markers = Empty /\ approvals = {}

------------------------------------------------------------------------------
(* Validation *)

Ids(S) == {x.id : x \in S}

\* Mutant: the citations that a claim declares need not come with the patch.
WellShapedAlone(p) ==
  /\ Cardinality(Ids(p.claims)) = Cardinality(p.claims)
  /\ Cardinality(Ids(p.citations)) = Cardinality(p.citations)

\* validate_proposal_shape: ids are unique, each claim is about the page and
\* declares citations of its own, each citation is declared by its claim.
WellShaped(p) ==
  /\ Cardinality(Ids(p.claims)) = Cardinality(p.claims)
  /\ Cardinality(Ids(p.citations)) = Cardinality(p.citations)
  /\ \A c \in p.claims :
       /\ c.page = p.page /\ c.cites # {}
       /\ \A x \in c.cites : \E t \in p.citations : t.id = x /\ t.claim = c.id
  /\ \A t \in p.citations : \E c \in p.claims : c.id = t.claim /\ t.id \in c.cites

\* validate_citation.  A source without the scope is refused as one that is not there.
Citable(t, p) ==
  /\ t.from < t.to
  /\ t.source \in Sources
  /\ Home[t.source] = p.home
  /\ visibility[t.source] = "visible"
  /\ t.to <= SizeOf[t.source]
  /\ t.framed => FrameOf[t.source].from <= t.from /\ t.to <= FrameOf[t.source].to

\* validate_base_revision
Current(p) == base[p] = revision

\* validate_approval: for this patch, workspace and actor, decided, and granted.
\* It names the patch by its id: not what the patch says, nor its revision.
Approval(p) == [patch |-> p.patch, home |-> p.home, actor |-> p.actor]
Granted(p) == Approval(p) \in approvals

Valid(p) ==
  /\ Current(p)
  /\ WellShaped(p)
  /\ Granted(p)
  /\ \A t \in p.citations : Citable(t, p)

------------------------------------------------------------------------------
(* The store *)

Entry(p) == [patch |-> p.patch, base |-> base[p], revision |-> revision + 1]

\* f with the records of S under their ids.
Overlaid(f, S) ==
  [x \in DOMAIN f \cup Ids(S) |->
     IF x \in Ids(S) THEN CHOOSE r \in S : r.id = x ELSE f[x]]

\* Everything the patch brings goes into the store, over what had the same id.
Apply(p) ==
  /\ revision' = revision + 1
  /\ pages' = pages \cup {p.page}
  /\ claims' = Overlaid(claims, p.claims)
  /\ citations' = Overlaid(citations, p.citations)
  /\ registry' = Overlaid(registry,
       {[id |-> t.id, claim |-> t.claim, source |-> t.source] : t \in p.citations})
  /\ trail' = Append(trail, Entry(p))
  /\ markers' = [x \in DOMAIN markers \cup {p.patch} |->
                   IF x = p.patch THEN base[p] ELSE markers[x]]
  /\ index' = "Stale"

\* Mutant: the answer of the log is not looked at.
CommitUnlogged(p) ==
  /\ Valid(p) /\ Len(wal) < MaxCommits
  /\ \/ wal' = Append(wal, Entry(p))
     \/ UNCHANGED wal
  /\ Apply(p)
  /\ UNCHANGED <<visibility, base, approvals>>

\* commit_patch_with_wal: log first, then the store.
Commit(p) ==
  /\ Valid(p) /\ Len(wal) < MaxCommits
  /\ wal' = Append(wal, Entry(p))
  /\ Apply(p)
  /\ UNCHANGED <<visibility, base, approvals>>

\* append_wal answers with an error, after the record was written or not: the
\* store is left as it was.
LogFails(p) ==
  /\ Valid(p) /\ Len(wal) < MaxCommits
  /\ wal' \in {wal, Append(wal, Entry(p))}
  /\ UNCHANGED <<store, visibility, base, approvals>>

------------------------------------------------------------------------------
(* Around the store *)

\* The patch is prepared, or prepared again, against what the store is at.
Prepare(p) ==
  /\ base[p] # revision
  /\ base' = [base EXCEPT ![p] = revision]
  /\ UNCHANGED <<store, wal, visibility, approvals>>

Approve(p) ==
  /\ approvals' = approvals \cup {Approval(p)}
  /\ UNCHANGED <<store, wal, visibility, base>>

Withdraw(s) ==
  /\ visibility[s] = "visible"
  /\ \E v \in {"restricted", "tombstoned"} : visibility' = [visibility EXCEPT ![s] = v]
  /\ UNCHANGED <<store, wal, base, approvals>>

Next ==
  \/ \E p \in Proposals :
       Commit(p) \/ LogFails(p) \/ Prepare(p) \/ Approve(p)
  \/ \E s \in Sources : Withdraw(s)

Spec == Init /\ [][Next]_vars

------------------------------------------------------------------------------
(* What is asked of the store *)

\* Commits form one line: each was prepared against the revision before it, so
\* no patch overwrites what its author has not seen, whoever else commits in the
\* meantime; the log holds every one of them, in order, before the store shows it
\* (patch.rs:323-328), and the marker of a patch names the revision before it.
OneLine ==
  /\ revision = First + Len(trail)
  /\ \A k \in DOMAIN trail :
       /\ trail[k].revision = First + k /\ trail[k].base = First + k - 1
       /\ \E n \in DOMAIN wal : wal[n] = trail[k]
       /\ trail[k].patch \in DOMAIN markers /\ markers[trail[k].patch] >= trail[k].base

\* Whatever patches were committed in whatever order, with ids used again: every
\* citation that a claim in the store declares is there, within a source, and the
\* registry says the same of it as the citation does.
ClaimsBacked ==
  \A c \in DOMAIN claims : \A x \in claims[c].cites :
    /\ x \in DOMAIN citations \cap DOMAIN registry
    /\ registry[x].claim = citations[x].claim /\ registry[x].source = citations[x].source
    /\ citations[x].source \in Sources
    /\ citations[x].to <= SizeOf[citations[x].source]

=============================================================================
