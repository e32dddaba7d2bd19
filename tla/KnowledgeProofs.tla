--------------------------- MODULE KnowledgeProofs ---------------------------
(***************************************************************************)
(* Proofs about the services around the wiki, the index and memory, for    *)
(* every value of their constants.  A theorem on the behaviours of each    *)
(* service alone comes first, what it says of their composition in         *)
(* Knowledge last.                                                         *)
(***************************************************************************)
EXTENDS Knowledge, FiniteSetTheorems, FunctionTheorems, WellFoundedInduction, Functions, TLAPS

------------------------------------------------------------------------------
(* WikiPatch *)

\* What WikiPatch counts with is what the theorems on finite sets are about.
LEMMA CountedAlike == \A S : WP!Cardinality(S) = Cardinality(S) /\ WP!IsFiniteSet(S) = IsFiniteSet(S)
<1>1. \A S : WP!Cardinality(S) = Cardinality(S)
  BY DEF WP!Cardinality, Cardinality
<1>2. \A S : WP!IsFiniteSet(S) = IsFiniteSet(S)
  BY DEF WP!IsFiniteSet, IsFiniteSet
<1>3. QED
  BY <1>1, <1>2

\* The ids that patches have.
PatchIds == {p.patch : p \in Proposals}
\* A record of a commit, in the audit trail and in the log.
TrailEntry == [patch : PatchIds, base : Nat, revision : Nat]

\* The types that the line of commits depends on.
StoreTyped ==
  /\ revision \in Nat
  /\ base \in [Proposals -> Nat]
  /\ trail \in Seq(TrailEntry)
  /\ wal \in Seq(TrailEntry)
  /\ markers \in [DOMAIN markers -> Nat]

\* The line of commits is inductive with its types: what commit_patch checks is
\* enough, however often patches are prepared again, approved and withdrawn.
LineInv == StoreTyped /\ WP!OneLine

\* A commit prolongs the line by one: its base is the revision it follows.
LEMMA CommitExtends ==
  ASSUME WP!PatchAssumption, LineInv, NEW p \in Proposals, WP!Commit(p)
  PROVE  LineInv'
<1> DEFINE e == WP!Entry(p)
<1>1. /\ revision \in Nat /\ base[p] = revision /\ e \in TrailEntry /\ FirstRevision \in Nat
      /\ e.patch = p.patch /\ e.base = base[p] /\ e.revision = revision + 1
      /\ revision = FirstRevision + Len(trail) /\ trail \in Seq(TrailEntry) /\ wal \in Seq(TrailEntry)
  BY DEF WP!Commit, WP!Valid, WP!Current, WP!Entry, TrailEntry, PatchIds, LineInv, StoreTyped, WP!OneLine, WP!PatchAssumption
<1>2. /\ revision' = revision + 1 /\ trail' = Append(trail, e) /\ wal' = Append(wal, e) /\ base' = base
      /\ markers' = [x \in DOMAIN markers \cup {p.patch} |-> IF x = p.patch THEN base[p] ELSE markers[x]]
  BY DEF WP!Commit, WP!Apply
<1> HIDE DEF e
<1>3. /\ trail' \in Seq(TrailEntry) /\ Len(trail') = Len(trail) + 1 /\ DOMAIN trail' = 1 .. (Len(trail) + 1)
      /\ trail'[Len(trail) + 1] = e /\ \A k \in 1 .. Len(trail) : trail'[k] = trail[k]
      /\ DOMAIN trail = 1 .. Len(trail) /\ Len(trail) \in Nat
  BY <1>1, <1>2
<1>4. /\ wal' \in Seq(TrailEntry) /\ Len(wal) \in Nat
      /\ Len(wal) + 1 \in DOMAIN wal' /\ wal'[Len(wal) + 1] = e
      /\ \A k \in DOMAIN wal : k \in DOMAIN wal' /\ wal'[k] = wal[k]
  BY <1>1, <1>2
<1>5. StoreTyped'
  BY <1>1, <1>2, <1>3, <1>4 DEF LineInv, StoreTyped
<1>6. ASSUME NEW k \in DOMAIN trail'
      PROVE  /\ trail'[k].revision = FirstRevision + k /\ trail'[k].base = FirstRevision + k - 1
             /\ \E n \in DOMAIN wal' : wal'[n] = trail'[k]
             /\ trail'[k].patch \in DOMAIN markers' /\ markers'[trail'[k].patch] >= trail'[k].base
  <2>1. CASE k = Len(trail) + 1
    BY <1>1, <1>2, <1>3, <1>4, <2>1
  <2>2. CASE k # Len(trail) + 1
    <3>1. k \in DOMAIN trail /\ trail'[k] = trail[k] /\ k <= Len(trail) /\ k \in Nat
      BY <1>3, <2>2
    <3>2. /\ trail[k].revision = FirstRevision + k /\ trail[k].base = FirstRevision + k - 1
          /\ \E n \in DOMAIN wal : wal[n] = trail[k]
          /\ trail[k].patch \in DOMAIN markers /\ markers[trail[k].patch] >= trail[k].base
      BY <3>1 DEF LineInv, WP!OneLine
    <3>3. \E n \in DOMAIN wal' : wal'[n] = trail[k]
      BY <1>4, <3>2
    <3>4. trail[k].patch \in DOMAIN markers' /\ markers'[trail[k].patch] >= trail[k].base
      BY <1>1, <1>2, <3>1, <3>2
    <3>5. QED
      BY <3>1, <3>2, <3>3, <3>4
  <2>3. QED
    BY <2>1, <2>2
<1>7. revision' = FirstRevision + Len(trail')
  BY <1>1, <1>2, <1>3
<1>8. WP!OneLine'
  BY ONLY <1>6, <1>7 DEF WP!OneLine
<1>9. QED
  BY <1>5, <1>8 DEF LineInv

\* Every revision of a wiki was committed against the one before it, is in the log
\* and can be rolled back, for any patches, sources and number of commits.
THEOREM CommitsFormOneLine == ASSUME WP!PatchAssumption PROVE WP!Spec => []WP!OneLine
<1>1. WP!Init => LineInv
  BY DEF WP!Init, LineInv, StoreTyped, WP!OneLine, WP!PatchAssumption, WP!Empty
<1>2. LineInv /\ [WP!Next]_WP!vars => LineInv'
  <2> SUFFICES ASSUME LineInv, [WP!Next]_WP!vars PROVE LineInv'
    OBVIOUS
  <2>1. CASE UNCHANGED WP!vars
    BY <2>1 DEF WP!vars, WP!store, LineInv, StoreTyped, WP!OneLine
  <2>2. ASSUME NEW p \in Proposals, WP!Commit(p) PROVE LineInv'
    BY <2>2, CommitExtends
  <2>3. ASSUME NEW p \in Proposals, WP!LogFails(p) PROVE LineInv'
    <3>1. UNCHANGED <<revision, trail, markers, base>> /\ wal' \in {wal, Append(wal, WP!Entry(p))}
      BY <2>3 DEF WP!LogFails, WP!store
    <3>2. WP!Entry(p) \in TrailEntry /\ wal \in Seq(TrailEntry)
      BY DEF WP!Entry, TrailEntry, PatchIds, LineInv, StoreTyped
    <3>3. wal' \in Seq(TrailEntry) /\ \A n \in DOMAIN wal : n \in DOMAIN wal' /\ wal'[n] = wal[n]
      BY <3>1, <3>2
    <3>4. QED
      BY <3>1, <3>3 DEF LineInv, StoreTyped, WP!OneLine
  <2>4. ASSUME NEW p \in Proposals, WP!Prepare(p) \/ WP!Approve(p) PROVE LineInv'
    BY <2>4 DEF WP!Prepare, WP!Approve, WP!store, LineInv, StoreTyped, WP!OneLine
  <2>5. ASSUME NEW s \in PatchSources, WP!Withdraw(s) PROVE LineInv'
    BY <2>5 DEF WP!Withdraw, WP!store, LineInv, StoreTyped, WP!OneLine
  <2>6. QED
    BY <2>1, <2>2, <2>3, <2>4, <2>5 DEF WP!Next
<1>3. LineInv => WP!OneLine
  BY DEF LineInv
<1>4. QED
  BY <1>1, <1>2, <1>3, PTL DEF WP!Spec

\* What validate_proposal_shape counts: as many ids as records, so no two share one.
LEMMA IdsDiffer ==
  ASSUME NEW S, IsFiniteSet(S), Cardinality(WP!Ids(S)) = Cardinality(S),
         NEW a \in S, NEW b \in S, a.id = b.id
  PROVE  a = b
<1> DEFINE f == [x \in S |-> x.id]
<1>1. f \in Surjection(S, WP!Ids(S))
  BY DEF Surjection, WP!Ids
<1>2. IsFiniteSet(WP!Ids(S))
  BY <1>1, FS_Surjection
<1>3. f \in Injection(S, WP!Ids(S))
  BY <1>1, FS_SurjSameCardinalityImpliesInj
<1>4. QED
  BY <1>3 DEF Injection, IsInjective

\* Citations and the registry agree, and claims cite what is there.
Backed ==
  /\ DOMAIN registry = DOMAIN citations
  /\ \A x \in DOMAIN citations :
       /\ registry[x].claim = citations[x].claim /\ registry[x].source = citations[x].source
       /\ citations[x].source \in PatchSources
       /\ citations[x].to <= SizeOf[citations[x].source]
  /\ \A c \in DOMAIN claims : claims[c].cites \subseteq DOMAIN citations

\* Every citation that a stored claim declares is stored, lies within a source and
\* is registered for the same claim and source, for any patches that use any ids.
THEOREM StoredClaimsBacked == ASSUME WP!PatchAssumption PROVE WP!Spec => []WP!ClaimsBacked
<1>1. WP!Init => Backed
  BY DEF WP!Init, Backed, WP!Empty
<1>2. Backed /\ [WP!Next]_WP!vars => Backed'
  <2> SUFFICES ASSUME Backed, [WP!Next]_WP!vars PROVE Backed'
    OBVIOUS
  <2>1. CASE UNCHANGED WP!store
    BY <2>1 DEF WP!store, Backed
  <2>2. ASSUME NEW p \in Proposals, WP!Commit(p) PROVE Backed'
    <3> DEFINE regs == {[id |-> t.id, claim |-> t.claim, source |-> t.source] : t \in p.citations}
    <3>1. /\ claims' = WP!Overlaid(claims, p.claims) /\ citations' = WP!Overlaid(citations, p.citations)
          /\ registry' = WP!Overlaid(registry, regs)
      BY <2>2 DEF WP!Commit, WP!Apply
    <3>2. WP!WellShaped(p) /\ \A t \in p.citations : WP!Citable(t, p)
      BY <2>2 DEF WP!Commit, WP!Valid
    <3>3. WP!Ids(regs) = WP!Ids(p.citations)
      <4>1. \A r \in regs : r.id \in WP!Ids(p.citations)
        BY DEF WP!Ids
      <4>2. ASSUME NEW t \in p.citations PROVE t.id \in WP!Ids(regs)
        <5>1. [id |-> t.id, claim |-> t.claim, source |-> t.source].id = t.id
          OBVIOUS
        <5>2. [id |-> t.id, claim |-> t.claim, source |-> t.source] \in regs
          OBVIOUS
        <5> HIDE DEF regs
        <5>3. QED
          BY <5>1, <5>2, Zenon DEF WP!Ids
      <4>3. QED
        BY <4>1, <4>2 DEF WP!Ids
    <3>4. /\ DOMAIN citations' = DOMAIN citations \cup WP!Ids(p.citations)
          /\ DOMAIN registry' = DOMAIN registry \cup WP!Ids(p.citations)
          /\ DOMAIN claims' = DOMAIN claims \cup WP!Ids(p.claims)
      BY <3>1, <3>3 DEF WP!Overlaid
    <3>5. ASSUME NEW x \in DOMAIN citations'
          PROVE  /\ registry'[x].claim = citations'[x].claim /\ registry'[x].source = citations'[x].source
                 /\ citations'[x].source \in PatchSources
                 /\ citations'[x].to <= SizeOf[citations'[x].source]
      <4>1. CASE x \in WP!Ids(p.citations)
        <5>1. citations'[x] \in p.citations /\ citations'[x].id = x
          <6>1. citations'[x] = CHOOSE r \in p.citations : r.id = x
            BY <3>1, <3>4, <4>1 DEF WP!Overlaid
          <6>2. QED
            BY <4>1, <6>1 DEF WP!Ids
        <5>2. registry'[x] \in regs /\ registry'[x].id = x
          <6>1. registry'[x] = CHOOSE r \in regs : r.id = x
            BY <3>1, <3>3, <3>4, <4>1 DEF WP!Overlaid
          <6>2. \E r \in regs : r.id = x
            BY <3>3, <4>1 DEF WP!Ids
          <6>3. QED
            BY <6>1, <6>2
        <5>3. PICK t \in p.citations : registry'[x] = [id |-> t.id, claim |-> t.claim, source |-> t.source]
          BY <5>2
        <5>4. t = citations'[x]
          <6>1. t.id = x
            BY <5>2, <5>3
          <6>2. QED
            BY <3>2, <5>1, <6>1, IdsDiffer, CountedAlike DEF WP!WellShaped, WP!PatchAssumption
        <5>5. QED
          BY <3>2, <5>1, <5>3, <5>4 DEF WP!Citable
      <4>2. CASE x \notin WP!Ids(p.citations)
        <5>1. x \in DOMAIN citations /\ citations'[x] = citations[x] /\ registry'[x] = registry[x]
          BY <3>1, <3>3, <3>4, <4>2 DEF WP!Overlaid, Backed
        <5>2. QED
          BY <5>1 DEF Backed
      <4>3. QED
        BY <4>1, <4>2
    <3>6. ASSUME NEW c \in DOMAIN claims' PROVE claims'[c].cites \subseteq DOMAIN citations'
      <4>1. CASE c \in WP!Ids(p.claims)
        <5>1. claims'[c] = CHOOSE r \in p.claims : r.id = c
          BY <3>1, <3>4, <4>1 DEF WP!Overlaid
        <5>2. claims'[c] \in p.claims
          BY <4>1, <5>1 DEF WP!Ids
        <5>3. \A x \in claims'[c].cites : x \in WP!Ids(p.citations)
          BY <3>2, <5>2 DEF WP!WellShaped, WP!Ids
        <5>4. QED
          BY <3>4, <5>3
      <4>2. CASE c \notin WP!Ids(p.claims)
        <5>1. c \in DOMAIN claims /\ claims'[c] = claims[c]
          BY <3>1, <3>4, <4>2 DEF WP!Overlaid
        <5>2. QED
          BY <3>4, <5>1 DEF Backed
      <4>3. QED
        BY <4>1, <4>2
    <3>7. QED
      BY <3>4, <3>5, <3>6 DEF Backed
  <2>3. QED
    BY <2>1, <2>2 DEF WP!Next, WP!LogFails, WP!Prepare, WP!Approve, WP!Withdraw, WP!vars, WP!store
<1>3. Backed => WP!ClaimsBacked
  BY DEF Backed, WP!ClaimsBacked
<1>4. QED
  BY <1>1, <1>2, <1>3, PTL DEF WP!Spec

------------------------------------------------------------------------------
(* Search *)

\* The types that the answers depend on.
IndexTyped ==
  /\ \A d \in DOMAIN indexed : DOMAIN indexed[d] = {"visibility", "source"}
  /\ DOMAIN generation = Scopes
  /\ withdrawn \subseteq Scopes \X IX!Sources

\* What the index holds of a withdrawn source stays tombstoned in that scope, and the
\* scope does not count as fresh, until the scope is rebuilt.
Tombstoned ==
  \A w \in withdrawn :
    /\ \A d \in DOMAIN indexed : d.scope = w[1] /\ d.source = w[2] => indexed[d].source = "tombstoned"
    /\ generation[w[1]] # "fresh"

\* The inductive invariant of the index.
IndexInv == IndexTyped /\ Tombstoned

\* Nothing of a withdrawn source is answered on or resolved before the scope is
\* rebuilt, for any documents, citations and scopes.
THEOREM IndexForgetsWithdrawn == IX!Spec => []IX!WithdrawnStaysOut
<1>1. IX!Init => IndexInv
  BY DEF IX!Init, IndexInv, IndexTyped, Tombstoned
<1>2. IndexInv /\ [IX!Next]_(IX!vars) => IndexInv'
  <2> SUFFICES ASSUME IndexInv, [IX!Next]_(IX!vars) PROVE IndexInv'
    OBVIOUS
  <2> USE DEF IndexInv, IndexTyped, Tombstoned
  <2>1. CASE UNCHANGED IX!vars
    BY <2>1 DEF IX!vars
  <2>2. ASSUME NEW s \in Scopes, IX!ReplaceScope(s) PROVE IndexInv'
    <3>1. PICK D \in SUBSET {d \in Documents : d.scope = s} :
            indexed' = [d \in (DOMAIN indexed \ IX!In(s)) \cup D |->
                          IF d \in D THEN [visibility |-> "visible", source |-> "active"] ELSE indexed[d]]
      BY <2>2 DEF IX!ReplaceScope
    <3>2. generation' = [generation EXCEPT ![s] = "fresh"] /\ withdrawn' = {w \in withdrawn : w[1] # s}
      BY <2>2 DEF IX!ReplaceScope
    <3>3. IndexTyped'
      BY <3>1, <3>2
    <3>4. ASSUME NEW w \in withdrawn'
          PROVE  /\ \A d \in DOMAIN indexed' : d.scope = w[1] /\ d.source = w[2] => indexed'[d].source = "tombstoned"
                 /\ generation'[w[1]] # "fresh"
      <4>1. w \in withdrawn /\ w[1] # s /\ w[1] \in Scopes
        BY <3>2
      <4>2. ASSUME NEW d \in DOMAIN indexed', d.scope = w[1] PROVE d \in DOMAIN indexed /\ indexed'[d] = indexed[d]
        BY <3>1, <4>1, <4>2
      <4>3. QED
        BY <3>2, <4>1, <4>2
    <3>5. QED
      BY <3>3, <3>4
  <2>3. ASSUME NEW s \in Scopes, IX!MarkVisibility(s) PROVE IndexInv'
    <3>1. PICK d \in Documents, v \in {"visible", "restricted", "tombstoned"} :
            /\ indexed' = IF d \in DOMAIN indexed THEN [indexed EXCEPT ![d].visibility = v] ELSE indexed
            /\ generation' = [generation EXCEPT ![s] = IF v = "tombstoned" THEN "cleanup" ELSE "stale"]
      BY <2>3 DEF IX!MarkVisibility, IX!MarkStatus
    <3>2. withdrawn' = withdrawn
      BY <2>3 DEF IX!MarkVisibility
    <3>3. DOMAIN indexed' = DOMAIN indexed
      BY <3>1
    <3>4. ASSUME NEW e \in DOMAIN indexed
          PROVE  DOMAIN indexed'[e] = {"visibility", "source"} /\ indexed'[e].source = indexed[e].source
      <4>1. CASE e = d
        BY <3>1, <4>1
      <4>2. CASE e # d
        BY <3>1, <4>2
      <4>3. QED
        BY <4>1, <4>2
    <3>5. QED
      BY <3>1, <3>2, <3>3, <3>4
  <2>4. ASSUME NEW s \in Scopes, IX!TombstoneSource(s) PROVE IndexInv'
    <3>1. PICK x \in IX!Sources :
            /\ indexed' = [d \in DOMAIN indexed |->
                 IF d.scope = s /\ d.source = x
                   THEN [visibility |-> "tombstoned", source |-> "tombstoned"] ELSE indexed[d]]
            /\ withdrawn' = withdrawn \cup {<<s, x>>}
      BY <2>4 DEF IX!TombstoneSource
    <3>2. generation' = [generation EXCEPT ![s] = "cleanup"]
      BY <2>4 DEF IX!TombstoneSource, IX!MarkStatus
    <3>3. IndexTyped'
      BY <3>1, <3>2
    <3>4. \A w \in withdrawn' : generation'[w[1]] # "fresh"
      BY <3>1, <3>2
    <3>5. ASSUME NEW w \in withdrawn', NEW d \in DOMAIN indexed', d.scope = w[1], d.source = w[2]
          PROVE  indexed'[d].source = "tombstoned"
      <4>1. CASE d.scope = s /\ d.source = x
        BY <3>1, <4>1
      <4>2. CASE ~(d.scope = s /\ d.source = x)
        <5>1. w \in withdrawn /\ indexed'[d] = indexed[d] /\ d \in DOMAIN indexed
          BY <3>1, <3>5, <4>2
        <5>2. QED
          BY <3>5, <5>1
      <4>3. QED
        BY <4>1, <4>2
    <3>6. QED
      BY <3>3, <3>4, <3>5
  <2>5. ASSUME NEW s \in Scopes, IX!MarkBad(s) PROVE IndexInv'
    BY <2>5 DEF IX!MarkBad, IX!MarkStatus
  <2>6. QED
    BY <2>1, <2>2, <2>3, <2>4, <2>5 DEF IX!Next
<1>3. IndexInv => IX!WithdrawnStaysOut
  <2> SUFFICES ASSUME IndexInv, NEW w \in withdrawn
               PROVE  /\ \A d \in IX!Answer(w[1], {}).text : d.source # w[2]
                      /\ \A d \in IX!In(w[1]) : \A r \in IX!Resolved(w[1], d.citation) : r.source # w[2]
                      /\ IX!Answer(w[1], {}).status # "composed"
    BY DEF IX!WithdrawnStaysOut
  <2>1. ASSUME NEW d \in IX!Candidates(w[1]) PROVE d.source # w[2]
    BY <2>1 DEF IX!Candidates, IX!Shown, IX!In, IndexInv, Tombstoned
  <2>2. IX!Answer(w[1], {}).text \subseteq IX!Candidates(w[1])
    BY DEF IX!Answer, IX!Authorized, IX!Candidates, IX!Shown
  <2>3. IX!Answer(w[1], {}).status # "composed"
    BY DEF IX!Answer, IndexInv, Tombstoned
  <2>4. \A c : IX!Resolved(w[1], c) \subseteq IX!Candidates(w[1])
    BY DEF IX!Resolved
  <2>5. QED
    BY <2>1, <2>2, <2>3, <2>4
<1>4. QED
  BY <1>1, <1>2, <1>3, PTL DEF IX!Spec

------------------------------------------------------------------------------
(* SessionSearch *)

\* The agreement is inductive with its types: it does not depend on the clock.
SessionInv ==
  /\ entries \in [Sessions -> SX!Entry \cup {None}]
  /\ found \in [Scopes -> SUBSET Sessions]
  /\ hour \in Nat
  /\ SX!SessionsAgree

\* cleanup_expired_sessions never moves an entry to another scope.
LEMMA AgedTyped ==
  ASSUME SX!SessionAssumption, SessionInv, NEW x \in Sessions
  PROVE  /\ SX!Aged(x) \in SX!Entry \cup {None}
         /\ SX!Aged(x) # None => entries[x] # None /\ SX!Aged(x).scope = entries[x].scope
<1> DEFINE e == entries[x]
           marked == IF SX!Due(x) THEN [e EXCEPT !.status = "expired", !.expired = hour] ELSE e
<1>1. e \in SX!Entry \cup {None} /\ hour \in Nat
  BY DEF SessionInv
<1>2. marked \in SX!Entry \cup {None} /\ (marked # None => e # None /\ marked.scope = e.scope)
  <2>1. CASE SX!Due(x)
    <3>1. e \in SX!Entry
      BY <1>1, <2>1 DEF SX!Due
    <3>2. marked = [e EXCEPT !.status = "expired", !.expired = hour]
      BY <2>1
    <3>3. marked \in SX!Entry /\ marked.scope = e.scope
      BY <1>1, <3>1, <3>2 DEF SX!Entry
    <3>4. QED
      BY <3>1, <3>3 DEF SX!SessionAssumption
  <2>2. CASE ~SX!Due(x)
    BY <1>1, <2>2
  <2>3. QED
    BY <2>1, <2>2
<1>3. SX!Aged(x) = marked \/ SX!Aged(x) = None
  BY DEF SX!Aged
<1>4. QED
  BY <1>2, <1>3

\* A session is found in its scope exactly while its entry is active, for any
\* sessions, scopes and times to keep them.
THEOREM SessionStoresAgree == ASSUME SX!SessionAssumption PROVE SX!Spec => []SX!SessionsAgree
<1>1. SX!Init => SessionInv
  BY DEF SX!Init, SessionInv, SX!SessionsAgree
<1>2. SessionInv /\ [SX!Next]_(SX!vars) => SessionInv'
  <2> SUFFICES ASSUME SessionInv, [SX!Next]_(SX!vars) PROVE SessionInv'
    OBVIOUS
  <2>1. CASE UNCHANGED SX!vars
    BY <2>1 DEF SX!vars, SessionInv, SX!SessionsAgree
  <2>2. ASSUME NEW x \in Sessions, NEW s \in Scopes, SX!RedactSession(x, s) PROVE SessionInv'
    <3> DEFINE e == [scope |-> s, status |-> "active", due |-> hour + Ttl, expired |-> None]
    <3>1. /\ entries' = [entries EXCEPT ![x] = e] /\ found' = [found EXCEPT ![s] = SX!Rebuilt(s, entries')]
          /\ hour' = hour /\ entries \in [Sessions -> SX!Entry \cup {None}] /\ found \in [Scopes -> SUBSET Sessions]
      BY <2>2 DEF SX!RedactSession, SessionInv
    <3>2. e \in SX!Entry /\ e # None /\ e.scope = s /\ e.status = "active"
      BY DEF SX!Entry, SX!SessionAssumption, SessionInv
    <3> HIDE DEF e
    <3>3. entries' \in [Sessions -> SX!Entry \cup {None}]
      BY <3>1, <3>2
    <3>4. found' \in [Scopes -> SUBSET Sessions]
      BY <3>1 DEF SX!Rebuilt
    <3>5. ASSUME NEW y \in Sessions, entries'[y] # None
          PROVE  y \in found'[entries'[y].scope] <=> entries'[y].status = "active"
      <4>1. entries'[y].scope \in Scopes
        BY <3>3, <3>5 DEF SX!Entry
      <4>2. CASE entries'[y].scope = s
        <5>1. found'[s] = SX!Rebuilt(s, entries')
          BY <3>1
        <5>2. QED
          BY <3>5, <4>2, <5>1 DEF SX!Rebuilt
      <4>3. CASE entries'[y].scope # s
        <5>1. y # x /\ entries'[y] = entries[y] /\ found'[entries'[y].scope] = found[entries[y].scope]
          BY <3>1, <3>2, <4>1, <4>3
        <5>2. QED
          BY <3>5, <5>1 DEF SessionInv, SX!SessionsAgree
      <4>4. QED
        BY <4>2, <4>3
    <3>6. QED
      BY <3>1, <3>3, <3>4, <3>5 DEF SessionInv, SX!SessionsAgree
  <2>3. CASE SX!CleanupSessions
    <3>1. /\ entries' = [x \in Sessions |-> SX!Aged(x)]
          /\ found' = [s \in Scopes |-> IF s \in SX!Touched THEN SX!Rebuilt(s, entries') ELSE found[s]]
          /\ hour' = hour
      BY <2>3 DEF SX!CleanupSessions
    <3>2. entries' \in [Sessions -> SX!Entry \cup {None}]
      BY <3>1, AgedTyped
    <3>3. found' \in [Scopes -> SUBSET Sessions]
      BY <3>1 DEF SX!Rebuilt, SessionInv
    <3>4. ASSUME NEW x \in Sessions, entries'[x] # None
          PROVE  x \in found'[entries'[x].scope] <=> entries'[x].status = "active"
      <4>1. entries'[x].scope \in Scopes /\ entries'[x] = SX!Aged(x)
        BY <3>1, <3>2, <3>4 DEF SX!Entry
      <4>2. entries[x] # None /\ entries'[x].scope = entries[x].scope
        BY <3>4, <4>1, AgedTyped
      <4>3. CASE entries'[x].scope \in SX!Touched
        <5>1. found'[entries'[x].scope] = SX!Rebuilt(entries'[x].scope, entries')
          BY <3>1, <4>1, <4>3
        <5>2. QED
          BY <3>4, <5>1 DEF SX!Rebuilt
      <4>4. CASE entries'[x].scope \notin SX!Touched
        <5>1. entries'[x] = entries[x]
          BY <4>1, <4>2, <4>4 DEF SX!Touched, SX!Changed
        <5>2. found'[entries'[x].scope] = found[entries[x].scope]
          BY <3>1, <4>1, <4>2, <4>4
        <5>3. QED
          BY <4>2, <5>1, <5>2 DEF SessionInv, SX!SessionsAgree
      <4>5. QED
        BY <4>3, <4>4
    <3>5. QED
      BY <3>1, <3>2, <3>3, <3>4 DEF SessionInv, SX!SessionsAgree
  <2>4. CASE SX!Tick
    BY <2>4 DEF SX!Tick, SessionInv, SX!SessionsAgree
  <2>5. QED
    BY <2>1, <2>2, <2>3, <2>4 DEF SX!Next
<1>3. SessionInv => SX!SessionsAgree
  BY DEF SessionInv
<1>4. QED
  BY <1>1, <1>2, <1>3, PTL DEF SX!Spec

------------------------------------------------------------------------------
(* SourceIngest *)

\* A blob that is written is partial, and one import writes it.
OneWriter ==
  /\ \A i \in Imports : at[i] = "write" => blob[ContentOf[i]] = "partial"
  /\ \A i, j \in Imports : at[i] = "write" /\ at[j] = "write" /\ ContentOf[i] = ContentOf[j] => i = j

\* The inductive invariant: StoredIsWhole alone does not exclude that a second import
\* is about to write what a first one wrote.
IngestInv ==
  /\ DOMAIN at = Imports /\ DOMAIN outcome = Imports /\ DOMAIN blob = Contents
  /\ OneWriter
  /\ SI!StoredIsWhole

\* What an import reports as stored is stored whole and was written by one import
\* only, for any imports of any contents that race and die at any step.
THEOREM IngestStoresWhole == ASSUME SI!IngestAssumption PROVE SI!Spec => []SI!StoredIsWhole
<1>1. SI!Init => IngestInv
  BY DEF SI!Init, IngestInv, OneWriter, SI!StoredIsWhole, SI!IngestAssumption, SI!Ends
<1>2. IngestInv /\ [SI!Next]_(SI!vars) => IngestInv'
  <2> SUFFICES ASSUME IngestInv, [SI!Next]_(SI!vars) PROVE IngestInv'
    OBVIOUS
  <2> USE DEF IngestInv, OneWriter, SI!StoredIsWhole, SI!File, SI!Goto, SI!IngestAssumption
  <2>1. CASE UNCHANGED SI!vars
    BY <2>1 DEF SI!vars
  <2>2. ASSUME NEW i \in Imports, SI!ReadInput(i) PROVE IngestInv'
    BY <2>2 DEF SI!ReadInput, SI!Finish
  <2>3. ASSUME NEW i \in Imports, SI!Look(i) PROVE IngestInv'
    BY <2>3 DEF SI!Look
  <2>4. ASSUME NEW i \in Imports, SI!Compare(i) PROVE IngestInv'
    BY <2>4 DEF SI!Compare, SI!Finish
  <2>5. ASSUME NEW i \in Imports, SI!Create(i) PROVE IngestInv'
    BY <2>5 DEF SI!Create
  <2>6. ASSUME NEW i \in Imports, SI!Write(i) PROVE IngestInv'
    BY <2>6 DEF SI!Write, SI!Finish
  <2>7. ASSUME NEW i \in Imports, SI!WriteFails(i) PROVE IngestInv'
    BY <2>7 DEF SI!WriteFails, SI!Finish
  <2>8. ASSUME NEW i \in Imports, SI!Parse(i) PROVE IngestInv'
    BY <2>8 DEF SI!Parse
  <2>9. ASSUME NEW i \in Imports, SI!Die(i) PROVE IngestInv'
    BY <2>9 DEF SI!Die
  <2>10. QED
    BY <2>1, <2>2, <2>3, <2>4, <2>5, <2>6, <2>7, <2>8, <2>9 DEF SI!Next
<1>3. IngestInv => SI!StoredIsWhole
  BY DEF IngestInv
<1>4. QED
  BY <1>1, <1>2, <1>3, PTL DEF SI!Spec

------------------------------------------------------------------------------
(* Notes *)

\* The inductive invariant: an id that was given out does not come back, so a
\* disputed note that was deleted is never a new one.
NotesInv ==
  /\ notes \in [NoteIds -> NS!Note \cup {None}]
  /\ disputed \subseteq used /\ used \subseteq NoteIds
  /\ \A n \in NoteIds : notes[n] # None => n \in used
  /\ \A n \in disputed : notes[n] # None => notes[n].status \in {"Conflict", "Stale"}

\* A note found in conflict never becomes Active again and a deleted note is never
\* shown, for any notes, texts, claims and number of edits.
THEOREM NotesStayDisputed == ASSUME NS!NotesAssumption PROVE NS!NotesSpec => []NS!DisputedStaysOut
<1>1. NS!NotesInit => NotesInv
  BY DEF NS!NotesInit, NotesInv
<1>2. NotesInv /\ [NS!NotesNext]_(NS!noteVars) => NotesInv'
  <2> SUFFICES ASSUME NotesInv, [NS!NotesNext]_(NS!noteVars) PROVE NotesInv'
    OBVIOUS
  <2> USE DEF NotesInv, NS!NotesAssumption, NS!Note, NS!Status
  <2>1. CASE UNCHANGED NS!noteVars \/ NS!RebuildIndex
    BY <2>1 DEF NS!noteVars, NS!RebuildIndex
  <2>2. ASSUME NEW n \in NoteIds, NEW text \in Texts, NS!CreateNote(n, text) PROVE NotesInv'
    BY <2>2 DEF NS!CreateNote
  <2>3. ASSUME NEW n \in NoteIds, NEW text \in Texts, NS!UpdateNote(n, text) PROVE NotesInv'
    BY <2>3 DEF NS!UpdateNote
  <2>4. ASSUME NEW n \in NoteIds, NS!DeleteNote(n) PROVE NotesInv'
    BY <2>4 DEF NS!DeleteNote
  <2>5. ASSUME NEW n \in NoteIds, NS!TransitionNote(n) PROVE NotesInv'
    BY <2>5 DEF NS!TransitionNote, NS!NoteAfter
  <2>6. ASSUME NEW n \in NoteIds, NS!CheckSourceConflicts(n) PROVE NotesInv'
    <3>1. /\ notes' = [notes EXCEPT ![n].status = "Conflict"] /\ notes[n] \in NS!Note
          /\ disputed' = disputed \cup {n} /\ used' = used
      BY <2>6 DEF NS!CheckSourceConflicts
    <3>2. notes'[n] \in NS!Note /\ notes'[n].status = "Conflict"
      BY <3>1
    <3>3. \A x \in NoteIds : x # n => notes'[x] = notes[x]
      BY <3>1
    <3>4. n \in used
      BY <3>1, <2>6 DEF NS!CheckSourceConflicts
    <3>5. QED
      BY <3>1, <3>2, <3>3, <3>4
  <2>7. QED
    BY <2>1, <2>2, <2>3, <2>4, <2>5, <2>6 DEF NS!NotesNext
<1>3. NotesInv => NS!DisputedStaysOut
  BY DEF NotesInv, NS!DisputedStaysOut, NS!Results, NS!Shown
<1>4. QED
  BY <1>1, <1>2, <1>3, PTL DEF NS!NotesSpec

------------------------------------------------------------------------------
(* Memory *)

\* A nonempty set of naturals has a least element.
LEMMA Least == ASSUME NEW T, T \subseteq Nat, T # {} PROVE \E n \in T : \A m \in T : n <= m
<1>1. \E n \in T : \A m \in T : ~(<<m, n>> \in OpToRel(<, Nat))
  BY NatLessThanWellFounded, WFMin
<1>2. ASSUME NEW n \in Nat, NEW m \in Nat, m < n PROVE <<m, n>> \in OpToRel(<, Nat)
  BY <1>2 DEF OpToRel
<1>3. \E n \in T : \A m \in T : ~(m < n)
  BY Zenon, <1>1, <1>2
<1>4. QED
  BY <1>3

\* What Memory counts with is what the theorems on finite sets are about.
LEMMA StoreCountedAlike ==
  \A S : MS!Cardinality(S) = Cardinality(S) /\ MS!IsFiniteSet(S) = IsFiniteSet(S)
<1>1. \A S : MS!Cardinality(S) = Cardinality(S)
  BY DEF MS!Cardinality, Cardinality
<1>2. \A S : MS!IsFiniteSet(S) = IsFiniteSet(S)
  BY DEF MS!IsFiniteSet, IsFiniteSet
<1>3. QED
  BY <1>1, <1>2

\* The path of an item: was it checked, approved, dead.
PathRecord == [checked : BOOLEAN, approved : BOOLEAN, dead : BOOLEAN]

\* What was dead in a stay still is.
DeadStill(st, p) == p.dead => st \in MS!Dead

\* An item is still unchecked, or was checked in this stay, or is dead.
CheckedYet(st, p) == st \in MS!Unchecked \/ p.checked \/ st \in MS!Dead

\* What holds of the parts of a store: the items are few and their ids their own, what
\* was dead still is, what came unchecked has been checked or waits for it or is dead, and
\* nothing was given up that should have been spared.
WholeStore(kept, of, way, gone) ==
  /\ IsFiniteSet(kept) /\ Cardinality(kept) <= Capacity
  /\ \A i, j \in kept : i.id = j.id => i = j
  /\ \A i \in kept : i.id \in DOMAIN of
  /\ DOMAIN way = DOMAIN of
  /\ \A x \in DOMAIN of : way[x] \in PathRecord /\ DeadStill(of[x], way[x])
  /\ \A i \in kept : i.status \in MS!Unchecked => CheckedYet(of[i.id], way[i.id])
  /\ \A e \in gone : MS!Spared(e)

\* A store as a record.
Whole(S) == WholeStore(S.items, S.status, S.path, S.evicted)

\* One more status seen keeps a path a path.
LEMMA SeenPath ==
  ASSUME NEW p \in PathRecord, NEW st
  PROVE  /\ MS!Seen(p, st) \in PathRecord
         /\ MS!Seen(p, st).dead <=> p.dead \/ st \in MS!Dead
         /\ MS!Seen(p, st).checked <=> p.checked \/ st = "SourceChecking"
<1> DEFINE c == p.checked \/ st = "SourceChecking"
           a == p.approved \/ st = "Approved"
           d == p.dead \/ st \in MS!Dead
<1>1. MS!Seen(p, st) = [checked |-> c, approved |-> a, dead |-> d]
  BY DEF MS!Seen
<1>2. c \in BOOLEAN /\ a \in BOOLEAN /\ d \in BOOLEAN
  OBVIOUS
<1> HIDE DEF c, a, d
<1>3. MS!Seen(p, st).dead = d /\ MS!Seen(p, st).checked = c
  BY <1>1
<1>4. MS!Seen(p, st) \in PathRecord
  <2>1. \A x, y, z \in BOOLEAN : [checked |-> x, approved |-> y, dead |-> z] \in PathRecord
    BY DEF PathRecord
  <2>2. QED
    BY <1>1, <1>2, <2>1, Zenon
<1>5. QED
  BY <1>3, <1>4 DEF c, d

\* Making room gives up one item that need not be spared, or there is room.
LEMMA EvictedWhole ==
  ASSUME Capacity \in Nat, NEW S, Whole(S), NEW T \in MS!Evicted(S)
  PROVE  Whole(T) /\ Cardinality(T.items) + 1 <= Capacity /\ DOMAIN T.status \subseteq DOMAIN S.status
<1>0. MS!Cardinality(S.items) = Cardinality(S.items) /\ Cardinality(S.items) \in Nat
  BY StoreCountedAlike, FS_CardinalityType DEF Whole, WholeStore
<1>1. CASE MS!Cardinality(S.items) < Capacity
  <2>1. T = S
    BY <1>1 DEF MS!Evicted
  <2>2. QED
    BY <1>0, <1>1, <2>1
<1>2. CASE ~(MS!Cardinality(S.items) < Capacity)
  <2>1. PICK v \in MS!Victims(S) :
          T = [items |-> S.items \ {v}, status |-> MS!Without(S.status, v.id),
               path |-> MS!Without(S.path, v.id),
               evicted |-> S.evicted \cup
                 {[status |-> S.status[v.id], rest |-> {S.status[i.id] : i \in S.items \ {v}}]}]
    BY <1>2 DEF MS!Evicted
  <2> DEFINE e == [status |-> S.status[v.id], rest |-> {S.status[i.id] : i \in S.items \ {v}}]
  <2>2. v \in S.items /\ MS!Spared(e)
    <3> DEFINE Idle == {i \in S.items : S.status[i.id] \notin {"Active", "Approved"}}
               Approved == {i \in S.items : S.status[i.id] = "Approved"}
    <3>1. MS!Victims(S) = IF Idle # {} THEN MS!Oldest(Idle) ELSE MS!Oldest(Approved)
      BY DEF MS!Victims
    <3>2. CASE Idle # {}
      <4>1. v \in Idle
        BY <3>1, <3>2 DEF MS!Oldest
      <4>2. v \in S.items /\ S.status[v.id] \notin {"Active", "Approved"}
        BY <4>1
      <4>3. QED
        BY <4>2 DEF MS!Spared
    <3>3. CASE Idle = {}
      <4>1. v \in Approved
        BY <3>1, <3>3 DEF MS!Oldest
      <4>2. v \in S.items /\ S.status[v.id] = "Approved"
        BY <4>1
      <4>3. \A i \in S.items : S.status[i.id] \in {"Active", "Approved"}
        BY <3>3
      <4>4. e.rest \subseteq {"Active", "Approved"} /\ e.status = "Approved"
        BY <4>2, <4>3
      <4>5. QED
        BY <4>2, <4>4 DEF MS!Spared
    <3>4. QED
      BY <3>2, <3>3
  <2> HIDE DEF e
  <2>3. /\ T.items = S.items \ {v} /\ T.evicted = S.evicted \cup {e}
        /\ T.status = MS!Without(S.status, v.id) /\ T.path = MS!Without(S.path, v.id)
    BY <2>1 DEF e
  <2>4. IsFiniteSet(T.items) /\ Cardinality(T.items) = Cardinality(S.items) - 1
    <3>1. IsFiniteSet(S.items)
      BY DEF Whole, WholeStore
    <3>2. v \in S.items /\ T.items = S.items \ {v}
      BY <2>2, <2>3
    <3>3. QED
      BY ONLY <3>1, <3>2, FS_RemoveElement
  <2>5. Cardinality(T.items) + 1 <= Capacity
    BY <1>0, <2>4 DEF Whole, WholeStore
  <2>6. /\ DOMAIN T.status = DOMAIN S.status \ {v.id} /\ DOMAIN T.path = DOMAIN S.status \ {v.id}
        /\ \A x \in DOMAIN T.status : T.status[x] = S.status[x] /\ T.path[x] = S.path[x]
    BY <2>3 DEF MS!Without, Whole, WholeStore
  <2>7. \A i \in T.items : i \in S.items /\ i.id # v.id
    BY <2>2, <2>3 DEF Whole, WholeStore
  <2>8. Cardinality(T.items) <= Capacity
    BY <1>0, <2>4, <2>5
  <2>9. \A g \in T.evicted : MS!Spared(g)
    BY <2>2, <2>3 DEF Whole, WholeStore
  <2> HIDE <2>1, <2>3
  <2>10. Whole(T)
    BY <2>4, <2>6, <2>7, <2>8, <2>9 DEF Whole, WholeStore
  <2>11. QED
    BY <2>5, <2>6, <2>10
<1>3. QED
  BY <1>1, <1>2

\* A proposal of a new id enters with the status it was proposed with and a path of its own.
LEMMA ProposedWhole ==
  ASSUME Capacity \in Nat, NEW S, Whole(S), NEW i, NEW P \in MS!Proposed(S, i)
  PROVE  Whole(P)
<1>1. i.id \notin DOMAIN S.status
  BY DEF MS!Proposed
<1>2. PICK T \in MS!Evicted(S) :
        P = [items |-> T.items \cup {i}, status |-> MS!With(T.status, i.id, i.status),
             path |-> MS!With(T.path, i.id, MS!Seen(MS!NotSeen, i.status)),
             evicted |-> T.evicted]
  BY <1>1 DEF MS!Proposed
<1>3. Whole(T) /\ Cardinality(T.items) + 1 <= Capacity /\ i.id \notin DOMAIN T.status
  BY <1>1, EvictedWhole
<1>4. /\ P.items = T.items \cup {i} /\ P.status = MS!With(T.status, i.id, i.status)
      /\ P.path = MS!With(T.path, i.id, MS!Seen(MS!NotSeen, i.status))
      /\ P.evicted = T.evicted
  BY <1>2
<1>5. IsFiniteSet(P.items) /\ Cardinality(P.items) <= Capacity
  <2>1. i \notin T.items
    BY <1>3 DEF Whole, WholeStore
  <2>2. IsFiniteSet(T.items)
    BY <1>3 DEF Whole, WholeStore
  <2>3. IsFiniteSet(P.items) /\ Cardinality(P.items) = Cardinality(T.items) + 1
    BY <1>4, <2>1, <2>2, FS_AddElement
  <2>4. QED
    BY <1>3, <2>3
<1>6. /\ DOMAIN P.status = DOMAIN T.status \cup {i.id}
      /\ DOMAIN P.path = DOMAIN P.status
      /\ P.status[i.id] = i.status /\ P.path[i.id] = MS!Seen(MS!NotSeen, i.status)
      /\ \A x \in DOMAIN T.status : P.status[x] = T.status[x] /\ P.path[x] = T.path[x]
  BY <1>3, <1>4 DEF MS!With, Whole, WholeStore
<1>7. /\ P.path[i.id] \in PathRecord /\ DeadStill(P.status[i.id], P.path[i.id])
      /\ i.status \in MS!Unchecked => CheckedYet(P.status[i.id], P.path[i.id])
  <2>1. MS!NotSeen \in PathRecord /\ ~MS!NotSeen.dead
    BY DEF PathRecord, MS!NotSeen
  <2>2. P.path[i.id] \in PathRecord /\ (P.path[i.id].dead <=> i.status \in MS!Dead)
    BY <1>6, <2>1, SeenPath
  <2>3. QED
    BY <1>6, <2>2 DEF DeadStill, CheckedYet
<1> HIDE <1>2
<1>8. /\ \A a, b \in P.items : a.id = b.id => a = b
      /\ \A a \in P.items : a.id \in DOMAIN P.status
  BY <1>3, <1>4, <1>6 DEF Whole, WholeStore
<1>9. \A x \in DOMAIN P.status : P.path[x] \in PathRecord /\ DeadStill(P.status[x], P.path[x])
  BY <1>3, <1>6, <1>7 DEF Whole, WholeStore
<1>10. ASSUME NEW a \in P.items, a.status \in MS!Unchecked
       PROVE  CheckedYet(P.status[a.id], P.path[a.id])
  <2>1. CASE a = i
    BY <1>7, <1>10, <2>1
  <2>2. CASE a \in T.items
    <3>1. a.id \in DOMAIN T.status /\ CheckedYet(T.status[a.id], T.path[a.id])
      BY <1>3, <1>10, <2>2 DEF Whole, WholeStore
    <3>2. QED
      BY <1>6, <3>1
  <2>3. QED
    BY <1>4, <2>1, <2>2
<1>11. QED
  BY <1>3, <1>4, <1>5, <1>6, <1>8, <1>9, <1>10 DEF Whole, WholeStore

\* What handing over a batch may leave behind: a whole store, and what became of the rest.
HandedWhole(d) ==
  Whole(d.store) /\ d = [store |-> d.store, failed |-> d.failed, lost |-> d.lost]

\* Handing over one more write keeps the stores whole.
LEMMA HandOverWhole ==
  ASSUME Capacity \in Nat, NEW D, \A d \in D : HandedWhole(d), NEW i, NEW e \in MS!HandedOn(D, i)
  PROVE  HandedWhole(e)
<1>1. PICK d \in D : e \in MS!HandOver(d, i)
  BY DEF MS!HandedOn
<1>2. Whole(d.store) /\ d = [store |-> d.store, failed |-> d.failed, lost |-> d.lost]
  BY DEF HandedWhole
<1>3. PICK st, f, l : d = [store |-> st, failed |-> f, lost |-> l]
  BY <1>2
<1>4. d.store = st /\ Whole(st)
  BY <1>2, <1>3
<1>5. \/ e = [d EXCEPT !.lost = @ \cup {i}]
      \/ e = [d EXCEPT !.failed = TRUE, !.lost = @ \cup {i}]
      \/ \E S \in MS!Proposed(st, i) : e = [d EXCEPT !.store = S]
  BY <1>1, <1>4 DEF MS!HandOver
<1>6. \/ e = [store |-> st, failed |-> f, lost |-> l \cup {i}]
      \/ e = [store |-> st, failed |-> TRUE, lost |-> l \cup {i}]
      \/ \E S \in MS!Proposed(st, i) : e = [store |-> S, failed |-> f, lost |-> l]
  BY <1>3, <1>5
<1>7. CASE \/ e = [store |-> st, failed |-> f, lost |-> l \cup {i}]
           \/ e = [store |-> st, failed |-> TRUE, lost |-> l \cup {i}]
  BY <1>4, <1>7 DEF HandedWhole
<1>8. CASE \E S \in MS!Proposed(st, i) : e = [store |-> S, failed |-> f, lost |-> l]
  <2>1. PICK S \in MS!Proposed(st, i) : e = [store |-> S, failed |-> f, lost |-> l]
    BY <1>8
  <2>2. Whole(S)
    BY <1>4, <2>1, ProposedWhole
  <2>3. QED
    BY <2>1, <2>2 DEF HandedWhole
<1>9. QED
  BY <1>6, <1>7, <1>8

\* Stage by stage, what handing over a batch may leave behind.
Stages(f, batch, m) ==
  f = [k \in 0 .. m |-> IF k = 0 THEN MS!NothingHanded ELSE MS!HandedOn(f[k - 1], batch[k])]

\* The stages of a batch exist: the least number of writes for which they did not would
\* have a number before it.
LEMMA StagesExist ==
  ASSUME NEW batch, NEW m \in Nat
  PROVE  \E f : Stages(f, batch, m)
<1> DEFINE bad == {n \in Nat : ~\E f : Stages(f, batch, n)}
<1>1. SUFFICES ASSUME bad # {} PROVE FALSE
  OBVIOUS
<1>2. PICK n \in bad : \A k \in bad : n <= k
  BY <1>1, Least
<1>3. CASE n = 0
  <2>1. Stages([k \in 0 .. 0 |-> MS!NothingHanded], batch, 0)
    BY DEF Stages
  <2>2. QED
    BY <1>3, <2>1
<1>4. CASE n # 0
  <2>1. n - 1 \in Nat /\ n - 1 \notin bad
    BY <1>2, <1>4
  <2>2. PICK f : Stages(f, batch, n - 1)
    BY <2>1
  <2> DEFINE g == [k \in 0 .. n |-> IF k = n THEN MS!HandedOn(f[n - 1], batch[n]) ELSE f[k]]
  <2>3. \A k \in 0 .. n - 1 : f[k] = IF k = 0 THEN MS!NothingHanded ELSE MS!HandedOn(f[k - 1], batch[k])
    BY <2>2 DEF Stages
  <2>4. \A k \in 0 .. n - 1 : g[k] = f[k]
    BY <2>1
  <2>5. ASSUME NEW k \in 0 .. n
        PROVE  g[k] = IF k = 0 THEN MS!NothingHanded ELSE MS!HandedOn(g[k - 1], batch[k])
    <3>1. CASE k = n
      <4>1. g[n] = MS!HandedOn(f[n - 1], batch[n]) /\ g[n - 1] = f[n - 1]
        BY <2>1, <2>4
      <4>2. QED
        BY <3>1, <4>1, <1>4
    <3>2. CASE k # n /\ k # 0
      <4>1. k \in 0 .. n - 1 /\ k - 1 \in 0 .. n - 1
        BY <3>2
      <4>2. g[k] = f[k] /\ g[k - 1] = f[k - 1]
        BY <2>4, <4>1
      <4>3. f[k] = MS!HandedOn(f[k - 1], batch[k])
        BY <2>3, <3>2, <4>1
      <4>4. QED
        BY <3>2, <4>2, <4>3
    <3>3. CASE k # n /\ k = 0
      <4>1. 0 \in 0 .. n - 1
        BY <2>1
      <4>2. g[0] = f[0] /\ f[0] = MS!NothingHanded
        BY <2>3, <2>4, <4>1
      <4>3. QED
        BY <3>3, <4>2
    <3>4. QED
      BY <3>1, <3>2, <3>3
  <2>6. g = [k \in 0 .. n |-> g[k]]
    OBVIOUS
  <2> HIDE DEF g
  <2>7. g = [k \in 0 .. n |-> IF k = 0 THEN MS!NothingHanded ELSE MS!HandedOn(g[k - 1], batch[k])]
    BY <2>5, <2>6, Zenon
  <2>8. Stages(g, batch, n)
    BY <2>7 DEF Stages
  <2>9. QED
    BY <1>2, <2>8
<1>5. QED
  BY <1>3, <1>4

\* Every store that handing over a batch may leave behind is whole.
LEMMA HandedStoresWhole ==
  ASSUME Capacity \in Nat, Whole(MS!Store), NEW batch, Len(batch) \in Nat, NEW e \in MS!Handed(batch)
  PROVE  HandedWhole(e)
<1> DEFINE n == Len(batch)
           done == CHOOSE f : Stages(f, batch, n)
<1>1. MS!Handed(batch) = done[n]
  BY DEF MS!Handed, Stages
<1>2. Stages(done, batch, n)
  BY StagesExist
<1> HIDE DEF done
<1>3. done[0] = MS!NothingHanded /\ \A k \in 1 .. n : done[k] = MS!HandedOn(done[k - 1], batch[k])
  BY <1>2 DEF Stages
<1>4. \A d \in MS!NothingHanded : HandedWhole(d)
  <2>1. ASSUME NEW d \in MS!NothingHanded PROVE HandedWhole(d)
    <3>1. d = [store |-> MS!Store, failed |-> FALSE, lost |-> {}]
      BY <2>1 DEF MS!NothingHanded
    <3>2. QED
      BY <3>1 DEF HandedWhole
  <2>2. QED
    BY <2>1
<1> DEFINE bad == {k \in 0 .. n : ~\A d \in done[k] : HandedWhole(d)}
<1>5. bad = {}
  <2>1. SUFFICES ASSUME bad # {} PROVE FALSE
    OBVIOUS
  <2>2. bad \subseteq Nat
    OBVIOUS
  <2>3. PICK k \in bad : \A m \in bad : k <= m
    BY <2>1, <2>2, Least
  <2>4. k # 0
    BY <1>3, <1>4, <2>3
  <2>5. k - 1 \in 0 .. n /\ k - 1 \notin bad /\ k \in 1 .. n
    BY <2>3, <2>4
  <2>6. \A d \in done[k - 1] : HandedWhole(d)
    BY <2>5
  <2>7. \A d \in MS!HandedOn(done[k - 1], batch[k]) : HandedWhole(d)
    BY <2>6, HandOverWhole
  <2>8. QED
    BY <1>3, <2>3, <2>5, <2>7
<1>6. QED
  BY <1>1, <1>5

\* The inductive invariant: the store is whole, what was evicted by the last call
\* included, and what sessions wrote are sequences of items.
MemoryInv ==
  /\ WholeStore(stored, status, path, evicted)
  /\ writes \in [Users -> Seq(Items) \cup {None}]

\* Sessions and the clock leave the store alone.
LEMMA StoreUntouched ==
  ASSUME WholeStore(stored, status, path, evicted), UNCHANGED <<stored, status, path>>,
         evicted' = {} \/ evicted' = evicted
  PROVE  WholeStore(stored, status, path, evicted)'
BY DEF WholeStore

\* What becomes of the store is the record of the store that a call leaves behind.
LEMMA StoreBecomes ==
  ASSUME NEW S, Whole(S), MS!Becomes(S)
  PROVE  WholeStore(stored, status, path, evicted)'
<1>1. stored' = S.items /\ status' = S.status /\ path' = S.path /\ evicted' = S.evicted
  BY DEF MS!Becomes
<1>2. WholeStore(stored', status', path', evicted')
  BY <1>1 DEF Whole
<1>3. QED
  BY <1>2 DEF WholeStore

\* A call starts from the store with nothing evicted yet.
LEMMA StoreIsWhole == ASSUME WholeStore(stored, status, path, evicted) PROVE Whole(MS!Store)
<1>1. /\ MS!Store.items = stored /\ MS!Store.status = status /\ MS!Store.path = path
      /\ MS!Store.evicted = {}
  BY DEF MS!Store
<1>2. QED
  BY <1>1 DEF Whole, WholeStore

\* A transition of an item, or its expiry, never takes it out of the dead ones, nor past
\* the check of its source.
LEMMA MovesWhole ==
  ASSUME WholeStore(stored, status, path, evicted), UNCHANGED stored, evicted' = {},
         DOMAIN status' = DOMAIN status, DOMAIN path' = DOMAIN path,
         \A x \in DOMAIN status :
           \/ status'[x] = status[x] /\ path'[x] = path[x]
           \/ /\ path'[x] = MS!Seen(path[x], status'[x])
              /\ status[x] \in MS!Dead => status'[x] \in MS!Dead
              /\ status[x] \in MS!Unchecked =>
                   status'[x] \in MS!Unchecked \cup {"SourceChecking"} \cup MS!Dead
  PROVE  WholeStore(stored, status, path, evicted)'
<1>1. ASSUME NEW x \in DOMAIN status'
      PROVE  /\ path'[x] \in PathRecord /\ DeadStill(status'[x], path'[x])
             /\ CheckedYet(status[x], path[x]) => CheckedYet(status'[x], path'[x])
  <2>1. path[x] \in PathRecord /\ DeadStill(status[x], path[x])
    BY DEF WholeStore
  <2>2. CASE status'[x] = status[x] /\ path'[x] = path[x]
    BY <2>1, <2>2
  <2>3. CASE /\ path'[x] = MS!Seen(path[x], status'[x])
             /\ status[x] \in MS!Dead => status'[x] \in MS!Dead
             /\ status[x] \in MS!Unchecked =>
                  status'[x] \in MS!Unchecked \cup {"SourceChecking"} \cup MS!Dead
    <3>1. /\ path'[x] \in PathRecord
          /\ path'[x].dead <=> path[x].dead \/ status'[x] \in MS!Dead
          /\ path'[x].checked <=> path[x].checked \/ status'[x] = "SourceChecking"
      BY <2>1, <2>3, SeenPath
    <3>2. QED
      BY <2>1, <2>3, <3>1 DEF DeadStill, CheckedYet
  <2>4. QED
    BY <2>2, <2>3
<1>2. QED
  BY <1>1 DEF WholeStore

\* Within one stay in the store, what was rejected, given up or expired never becomes Active
\* again, and what was proposed unchecked is Active only once its source was checked; a
\* full store gives up an Active item never and an Approved one last.  For any items,
\* proposed with any status in any order, any sessions, scopes and capacity.
THEOREM MemoryKeepsItsDead ==
  ASSUME MS!MemoryAssumption PROVE MS!MemorySpec => [](MS!DeadStayDead /\ MS!EveryStayChecked /\ MS!SparesTheActive)
<1>0. Capacity \in Nat
  BY DEF MS!MemoryAssumption
<1>1. MS!MemoryInit => MemoryInv
  <2>1. MS!MemoryInit => WholeStore(stored, status, path, evicted)
    BY <1>0, FS_EmptySet DEF MS!MemoryInit, MS!NoFunction, WholeStore
  <2>2. QED
    BY <2>1 DEF MS!MemoryInit, MemoryInv
<1>2. MemoryInv /\ [MS!MemoryNext]_(MS!memoryVars) => MemoryInv'
  <2> SUFFICES ASSUME MemoryInv, [MS!MemoryNext]_(MS!memoryVars) PROVE MemoryInv'
    OBVIOUS
  <2>0. /\ WholeStore(stored, status, path, evicted) /\ Whole(MS!Store)
        /\ writes \in [Users -> Seq(Items) \cup {None}]
    BY StoreIsWhole DEF MemoryInv
  <2>1. CASE UNCHANGED MS!memoryVars
    BY <2>0, <2>1, StoreUntouched DEF MS!memoryVars, MemoryInv
  <2>2. ASSUME NEW i \in Items, NEW scope \in Areas, MS!Process(i, scope) PROVE MemoryInv'
    BY <2>0, <2>2, StoreUntouched DEF MS!Process, MS!Quiet, MemoryInv
  <2>3. ASSUME NEW i \in Items, MS!Propose(i) PROVE MemoryInv'
    <3>1. PICK S \in MS!Proposed(MS!Store, i) : MS!Becomes(S)
      BY <2>3 DEF MS!Propose
    <3>2. Whole(S)
      BY <1>0, <2>0, ProposedWhole
    <3>3. WholeStore(stored, status, path, evicted)'
      BY <3>1, <3>2, StoreBecomes
    <3>4. QED
      BY <2>0, <2>3, <3>3 DEF MS!Propose, MemoryInv
  <2>4. ASSUME NEW i \in Items, MS!TransitionStatus(i) PROVE MemoryInv'
    <3>1. PICK to \in MS!After(status[i.id]) : MS!Moves(i.id, to)
      BY <2>4 DEF MS!TransitionStatus
    <3>2. /\ i.id \in DOMAIN status /\ DOMAIN path = DOMAIN status
          /\ stored' = stored /\ evicted' = {} /\ writes' = writes
      BY <2>0, <2>4 DEF MS!TransitionStatus, MS!Quiet, WholeStore
    <3>3. /\ status[i.id] \in MS!Dead => to \in MS!Dead
          /\ status[i.id] \in MS!Unchecked =>
               to \in MS!Unchecked \cup {"SourceChecking"} \cup MS!Dead
      BY <3>1 DEF MS!After, MS!Dead, MS!Unchecked
    <3>4. /\ DOMAIN status' = DOMAIN status /\ DOMAIN path' = DOMAIN path
          /\ status'[i.id] = to /\ path'[i.id] = MS!Seen(path[i.id], to)
          /\ \A x \in DOMAIN status : x # i.id => status'[x] = status[x] /\ path'[x] = path[x]
      BY <3>1, <3>2 DEF MS!Moves
    <3>5. WholeStore(stored, status, path, evicted)'
      BY <2>0, <3>2, <3>3, <3>4, MovesWhole
    <3>6. QED
      BY <2>0, <3>2, <3>5 DEF MemoryInv
  <2>5. CASE MS!PruneExpired
    <3>1. PICK Due :
            /\ status' = [id \in DOMAIN status |-> IF id \in Due THEN MS!Mark ELSE status[id]]
            /\ path' = [id \in DOMAIN path |-> IF id \in Due THEN MS!Seen(path[id], MS!Mark) ELSE path[id]]
      BY <2>5 DEF MS!PruneExpired
    <3>2. stored' = stored /\ evicted' = {} /\ writes' = writes /\ DOMAIN path = DOMAIN status
      BY <2>0, <2>5 DEF MS!PruneExpired, MS!Quiet, WholeStore
    <3>3. MS!Mark \in MS!Dead
      BY DEF MS!Mark, MS!Dead
    <3>4. WholeStore(stored, status, path, evicted)'
      BY <2>0, <3>1, <3>2, <3>3, MovesWhole
    <3>5. QED
      BY <2>0, <3>2, <3>4 DEF MemoryInv
  <2>6. ASSUME NEW s \in Users, NEW scope \in Areas, MS!StartSession(s, scope) PROVE MemoryInv'
    <3>1. writes' \in [Users -> Seq(Items) \cup {None}]
      BY <2>0, <2>6 DEF MS!StartSession
    <3>2. QED
      BY <2>0, <2>6, <3>1, StoreUntouched DEF MS!StartSession, MS!Quiet, MemoryInv
  <2>7. ASSUME NEW s \in Users, NEW i \in Items, MS!WriteDuringSession(s, i) PROVE MemoryInv'
    <3>1. writes[s] \in Seq(Items) /\ writes' = [writes EXCEPT ![s] = Append(writes[s], i)]
      BY <2>0, <2>7 DEF MS!WriteDuringSession
    <3>2. writes' \in [Users -> Seq(Items) \cup {None}]
      BY <2>0, <3>1
    <3>3. QED
      BY <2>0, <2>7, <3>2, StoreUntouched DEF MS!WriteDuringSession, MS!Quiet, MemoryInv
  <2>8. ASSUME NEW s \in Users, MS!EndSession(s) PROVE MemoryInv'
    <3>1. PICK d \in MS!Handed(writes[s]) : MS!Becomes(d.store)
      BY <2>8 DEF MS!EndSession
    <3>2. writes[s] \in Seq(Items)
      BY <2>0, <2>8 DEF MS!EndSession
    <3>3. Whole(d.store)
      BY <1>0, <2>0, <3>2, HandedStoresWhole DEF HandedWhole
    <3>4. WholeStore(stored, status, path, evicted)'
      BY <3>1, <3>3, StoreBecomes
    <3>5. writes' \in [Users -> Seq(Items) \cup {None}]
      BY <2>0, <2>8 DEF MS!EndSession
    <3>6. QED
      BY <3>4, <3>5 DEF MemoryInv
  <2>9. ASSUME NEW s \in Users, MS!CleanupSession(s) PROVE MemoryInv'
    <3>1. writes' \in [Users -> Seq(Items) \cup {None}]
      BY <2>0, <2>9 DEF MS!CleanupSession
    <3>2. QED
      BY <2>0, <2>9, <3>1, StoreUntouched DEF MS!CleanupSession, MS!Quiet, MemoryInv
  <2>10. CASE MS!Tick
    BY <2>0, <2>10, StoreUntouched DEF MS!Tick, MS!Quiet, MemoryInv
  <2>11. QED
    BY <2>1, <2>2, <2>3, <2>4, <2>5, <2>6, <2>7, <2>8, <2>9, <2>10 DEF MS!MemoryNext
<1>3. MemoryInv => MS!DeadStayDead /\ MS!EveryStayChecked /\ MS!SparesTheActive
  <2>1. MemoryInv => MS!DeadStayDead /\ MS!EveryStayChecked
    BY DEF MemoryInv, WholeStore, DeadStill, CheckedYet, MS!DeadStayDead, MS!EveryStayChecked,
           MS!Dead, MS!Unchecked
  <2>2. MemoryInv => MS!SparesTheActive
    BY StoreCountedAlike DEF MemoryInv, WholeStore, MS!SparesTheActive
  <2>3. QED
    BY <2>1, <2>2
<1>4. QED
  BY <1>1, <1>2, <1>3, PTL DEF MS!MemorySpec

------------------------------------------------------------------------------
(* Topics *)

\* A set of numbers that begins with 0 and has the next of each is all of them.
LEMMA StepByStep ==
  ASSUME NEW m \in Nat, NEW T, 0 \in T, \A k \in 1 .. m : k - 1 \in T => k \in T
  PROVE  \A k \in 0 .. m : k \in T
<1> DEFINE bad == {k \in 0 .. m : k \notin T}
<1>1. SUFFICES ASSUME bad # {} PROVE FALSE
  OBVIOUS
<1>2. PICK n \in bad : \A k \in bad : n <= k
  <2>1. bad \subseteq Nat
    OBVIOUS
  <2>2. QED
    BY <1>1, <2>1, Least
<1>3. n \in 1 .. m /\ n - 1 \in 0 .. m /\ ~(n <= n - 1)
  BY <1>2
<1>4. n - 1 \in T
  BY <1>2, <1>3
<1>5. QED
  BY <1>2, <1>3, <1>4

\* A function on 0 .. m that each value of determines the next.
FollowsFrom(f, a, step, m) == f = [k \in 0 .. m |-> IF k = 0 THEN a ELSE step[k][f[k - 1]]]

\* There is one from every beginning.
LEMMA Recursion ==
  ASSUME NEW S, NEW a \in S, NEW m \in Nat, NEW step \in [1 .. m -> [S -> S]]
  PROVE  \E f \in [0 .. m -> S] : FollowsFrom(f, a, step, m)
<1> DEFINE T == {n \in 0 .. m : \E f \in [0 .. n -> S] : FollowsFrom(f, a, step, n)}
<1>1. 0 \in T
  <2>1. [k \in 0 .. 0 |-> a] \in [0 .. 0 -> S] /\ FollowsFrom([k \in 0 .. 0 |-> a], a, step, 0)
    BY DEF FollowsFrom
  <2>2. QED
    BY <2>1
<1>2. ASSUME NEW n \in 1 .. m, n - 1 \in T PROVE n \in T
  <2>1. PICK f \in [0 .. n - 1 -> S] : FollowsFrom(f, a, step, n - 1)
    BY <1>2
  <2>0. n \in Nat /\ n # 0 /\ step[n] \in [S -> S] /\ n - 1 \in 0 .. n - 1
    OBVIOUS
  <2> DEFINE g == [k \in 0 .. n |-> IF k = n THEN step[n][f[n - 1]] ELSE f[k]]
  <2>2. \A k \in 0 .. n - 1 : f[k] = IF k = 0 THEN a ELSE step[k][f[k - 1]]
    BY <2>1 DEF FollowsFrom
  <2>3. \A k \in 0 .. n - 1 : k \in 0 .. n /\ k # n /\ g[k] = f[k]
    BY <2>0
  <2>4. g[n] = step[n][f[n - 1]] /\ f[n - 1] \in S /\ step[n][f[n - 1]] \in S
    BY <2>0, <2>1
  <2>5. g \in [0 .. n -> S]
    <3>1. \A k \in 0 .. n : k # n => k \in 0 .. n - 1
      BY <2>0
    <3>2. QED
      BY <2>1, <2>4, <3>1
  <2>6. ASSUME NEW k \in 0 .. n PROVE g[k] = IF k = 0 THEN a ELSE step[k][g[k - 1]]
    <3>1. CASE k = n
      <4>1. g[k - 1] = f[n - 1]
        BY <2>0, <2>3, <3>1
      <4>2. QED
        BY <2>0, <2>3, <2>4, <3>1, <4>1
    <3>2. CASE k = 0
      BY <2>0, <2>2, <2>3, <3>2
    <3>3. CASE k # n /\ k # 0
      <4>1. k \in 0 .. n - 1 /\ k - 1 \in 0 .. n - 1
        BY <2>0, <3>3
      <4>2. g[k] = f[k] /\ g[k - 1] = f[k - 1]
        BY <2>3, <4>1
      <4>3. QED
        BY <2>2, <3>3, <4>1, <4>2
    <3>4. QED
      BY <3>1, <3>2, <3>3
  <2>7. g = [k \in 0 .. n |-> g[k]]
    OBVIOUS
  <2>8. FollowsFrom(g, a, step, n)
    <3> HIDE DEF g
    <3>1. QED
      BY <2>6, <2>7 DEF FollowsFrom
  <2>9. QED
    BY <2>5, <2>8
<1>3. m \in T
  <2> HIDE DEF T
  <2>1. \A k \in 1 .. m : k - 1 \in T => k \in T
    BY <1>2
  <2>2. \A k \in 0 .. m : k \in T
    BY <1>1, <2>1, StepByStep
  <2>3. QED
    BY <2>2
<1>4. QED
  BY <1>3

\* What Topics counts with is what the theorems on finite sets are about.
LEMMA KeywordsCountedAlike ==
  \A S : TC!Cardinality(S) = Cardinality(S) /\ TC!IsFiniteSet(S) = IsFiniteSet(S)
<1>1. \A S : TC!Cardinality(S) = Cardinality(S)
  BY DEF TC!Cardinality, Cardinality
<1>2. \A S : TC!IsFiniteSet(S) = IsFiniteSet(S)
  BY DEF TC!IsFiniteSet, IsFiniteSet
<1>3. QED
  BY <1>1, <1>2

\* Similarity is mutual.
LEMMA SimilarMutually == \A a, b : TC!Similar(a, b) <=> TC!Similar(b, a)
<1> SUFFICES ASSUME NEW a, NEW b PROVE TC!Similarity(a, b) = TC!Similarity(b, a)
  BY DEF TC!Similar
<1>1. a \cup b = b \cup a /\ a \cap b = b \cap a
  OBVIOUS
<1>2. QED
  BY <1>1 DEF TC!Similarity

\* What clustering has done on the way.
Clustering(n) == [taken : SUBSET (1 .. n), topics : Seq(SUBSET (1 .. n))]

\* An item that a group begins with.
Leads(a, T) == a \in T /\ \A j \in T : a <= j

\* After the i-th item: the items up to it have been taken, what was taken is in a
\* group, and in one only.
Grouped(d, i) ==
  /\ \A j \in 1 .. i : j \in d.taken
  /\ \A j : j \in d.taken <=> \E k \in DOMAIN d.topics : j \in d.topics[k]
  /\ \A k, l \in DOMAIN d.topics : \A j : j \in d.topics[k] /\ j \in d.topics[l] => k = l

\* Every group begins with one of them, and what is similar to it was taken.
Led(list, d, i) ==
  \A k \in DOMAIN d.topics : \E a \in 1 .. i :
    /\ Leads(a, d.topics[k])
    /\ \A j \in 1 .. Len(list) : a < j /\ TC!Similar(list[a], list[j]) => j \in d.taken

\* Those that groups begin with are not similar.
Apart(list, T) ==
  \A k, l \in DOMAIN T : \A a, b : k < l /\ Leads(a, T[k]) /\ Leads(b, T[l]) => ~TC!Similar(list[a], list[b])

\* All of it.
ClusterInv(list, d, i) == Grouped(d, i) /\ Led(list, d, i) /\ Apart(list, d.topics)

\* One more item is dealt with.
LEMMA OpensOneMore ==
  ASSUME NEW list, NEW n \in Nat, Len(list) = n, NEW i \in 1 .. n, NEW d \in Clustering(n),
         ClusterInv(list, d, i - 1)
  PROVE  TC!Opens(list, d, i) \in Clustering(n) /\ ClusterInv(list, TC!Opens(list, d, i), i)
<1> DEFINE mine == {i} \cup {j \in i + 1 .. n : j \notin d.taken /\ TC!Similar(list[i], list[j])}
           e == [taken |-> d.taken \cup mine, topics |-> Append(d.topics, mine)]
           m == Len(d.topics)
<1>0. d.taken \in SUBSET (1 .. n) /\ d.topics \in Seq(SUBSET (1 .. n))
  BY DEF Clustering
<1>1. TC!Opens(list, d, i) = IF i \in d.taken THEN d ELSE e
  BY DEF TC!Opens, TC!Free
<1>2. CASE i \in d.taken
  <2>1. Grouped(d, i)
    <3>1. \A j \in 1 .. i : j \in 1 .. i - 1 \/ j = i
      OBVIOUS
    <3>2. QED
      BY <1>2, <3>1 DEF ClusterInv, Grouped
  <2>2. Led(list, d, i)
    <3>1. \A a \in 1 .. i - 1 : a \in 1 .. i
      OBVIOUS
    <3>2. QED
      BY <3>1 DEF ClusterInv, Led
  <2>3. QED
    BY <1>1, <1>2, <2>1, <2>2 DEF ClusterInv
<1>3. CASE i \notin d.taken
  <2>1. mine \in SUBSET (1 .. n) /\ i \in mine /\ \A j \in mine : i <= j /\ j \notin d.taken
    BY <1>3
  <2>2. /\ m \in Nat /\ DOMAIN d.topics = 1 .. m /\ e.topics \in Seq(SUBSET (1 .. n))
        /\ DOMAIN e.topics = 1 .. m + 1 /\ e.topics[m + 1] = mine
        /\ \A k \in 1 .. m : e.topics[k] = d.topics[k]
    BY <1>0, <2>1
  <2>3. \A j : j \in e.taken <=> j \in d.taken \/ j \in mine
    OBVIOUS
  <2>4. e \in Clustering(n)
    BY <1>0, <2>1, <2>2 DEF Clustering
  <2>5. \A j \in 1 .. n : i < j /\ TC!Similar(list[i], list[j]) => j \in e.taken
    OBVIOUS
  <2> HIDE DEF e, mine
  <2>6. \A k \in 1 .. m + 1 : k \in 1 .. m \/ k = m + 1
    BY <2>2
  <2>7. Grouped(e, i)
    <3>1. \A j \in 1 .. i : j \in 1 .. i - 1 \/ j = i
      OBVIOUS
    <3>2. \A j \in 1 .. i : j \in e.taken
      BY <2>1, <2>3, <3>1 DEF ClusterInv, Grouped
    <3>3. \A j : j \in e.taken <=> \E k \in DOMAIN e.topics : j \in e.topics[k]
      <4>1. \A j : j \in d.taken <=> \E k \in 1 .. m : j \in e.topics[k]
        BY <2>2 DEF ClusterInv, Grouped
      <4>2. m + 1 \in 1 .. m + 1 /\ \A k \in 1 .. m : k \in 1 .. m + 1
        BY <2>2
      <4>3. QED
        BY <2>2, <2>3, <2>6, <4>1, <4>2
    <3>4. ASSUME NEW k \in DOMAIN e.topics, NEW l \in DOMAIN e.topics, NEW j, j \in e.topics[k], j \in e.topics[l]
          PROVE  k = l
      <4>1. CASE k \in 1 .. m /\ l \in 1 .. m
        BY <2>2, <3>4, <4>1 DEF ClusterInv, Grouped
      <4>2. \A x \in 1 .. m : j \in e.topics[x] => j \in d.taken
        BY <2>2 DEF ClusterInv, Grouped
      <4>3. j \in mine => j \notin d.taken
        BY <2>1
      <4>4. QED
        BY <2>2, <2>6, <3>4, <4>1, <4>2, <4>3
    <3>5. QED
      BY <3>2, <3>3, <3>4 DEF Grouped
  <2>8. Led(list, e, i)
    <3>1. ASSUME NEW k \in 1 .. m
          PROVE  \E a \in 1 .. i : /\ Leads(a, e.topics[k])
                                   /\ \A j \in 1 .. n : a < j /\ TC!Similar(list[a], list[j]) => j \in e.taken
      <4>1. PICK a \in 1 .. i - 1 : /\ Leads(a, d.topics[k])
                                    /\ \A j \in 1 .. n : a < j /\ TC!Similar(list[a], list[j]) => j \in d.taken
        BY <2>2 DEF ClusterInv, Led
      <4>2. a \in 1 .. i
        OBVIOUS
      <4>3. QED
        BY <2>2, <2>3, <4>1, <4>2
    <3>2. i \in 1 .. i /\ Leads(i, e.topics[m + 1])
      BY <2>1, <2>2 DEF Leads
    <3>3. QED
      BY <2>2, <2>5, <2>6, <3>1, <3>2 DEF Led
  <2>9. Apart(list, e.topics)
    <3> SUFFICES ASSUME NEW k \in DOMAIN e.topics, NEW l \in DOMAIN e.topics, NEW a, NEW b, k < l,
                        Leads(a, e.topics[k]), Leads(b, e.topics[l])
                 PROVE  ~TC!Similar(list[a], list[b])
      BY DEF Apart
    <3>1. k \in 1 .. m
      BY <2>2
    <3>2. CASE l \in 1 .. m
      BY <2>2, <3>1, <3>2 DEF ClusterInv, Apart
    <3>3. CASE l = m + 1
      <4>1. b = i
        BY <2>1, <2>2, <3>3 DEF Leads
      <4>2. PICK c \in 1 .. i - 1 : /\ Leads(c, d.topics[k])
                                    /\ \A j \in 1 .. n : c < j /\ TC!Similar(list[c], list[j]) => j \in d.taken
        BY <2>2, <3>1 DEF ClusterInv, Led
      <4>3. c < i /\ ~TC!Similar(list[c], list[i])
        BY <1>3, <4>2
      <4>4. d.topics[k] \in SUBSET (1 .. n)
        BY <1>0, <2>2, <3>1
      <4>5. a = c
        BY <2>2, <3>1, <4>2, <4>4 DEF Leads
      <4>6. QED
        BY <4>1, <4>3, <4>5
    <3>4. QED
      BY <2>2, <2>6, <3>2, <3>3
  <2>10. QED
    BY <1>1, <1>3, <2>4, <2>7, <2>8, <2>9 DEF ClusterInv
<1>4. QED
  BY <1>2, <1>3

\* The groups of a list.
LEMMA ClusterFacts ==
  ASSUME NEW list \in Seq(SUBSET Nat)
  PROVE  \E d \in Clustering(Len(list)) :
           TC!Cluster(list) = d.topics /\ ClusterInv(list, d, Len(list))
<1> DEFINE n == Len(list)
           S == Clustering(n)
           none == [taken |-> {}, topics |-> <<>>]
           step == [i \in 1 .. n |-> [d \in S |-> IF ClusterInv(list, d, i - 1) THEN TC!Opens(list, d, i) ELSE d]]
           Solves(f) == f = [i \in 0 .. n |-> IF i = 0 THEN none ELSE TC!Opens(list, f[i - 1], i)]
           done == CHOOSE f : Solves(f)
<1>0. n \in Nat
  OBVIOUS
<1>1. TC!Cluster(list) = done[n].topics
  BY DEF TC!Cluster
<1>2. none \in S /\ ClusterInv(list, none, 0)
  <2>1. none \in S
    BY DEF Clustering
  <2>2. none.taken = {} /\ DOMAIN none.topics = {}
    OBVIOUS
  <2> HIDE DEF none
  <2>3. QED
    BY <2>1, <2>2 DEF ClusterInv, Grouped, Led, Apart
<1> HIDE DEF none
<1>3. \A i \in 1 .. n, d \in S : ClusterInv(list, d, i - 1) =>
        TC!Opens(list, d, i) \in S /\ ClusterInv(list, TC!Opens(list, d, i), i)
  BY <1>0, OpensOneMore
<1> HIDE DEF S, n
<1>4. PICK f \in [0 .. n -> S] : FollowsFrom(f, none, step, n)
  <2>1. step \in [1 .. n -> [S -> S]]
    BY <1>3
  <2> HIDE DEF step
  <2>2. QED
    BY <1>0, <1>2, <2>1, Recursion
<1>5. /\ f = [i \in 0 .. n |-> IF i = 0 THEN none ELSE step[i][f[i - 1]]]
      /\ \A i \in 0 .. n : f[i] = IF i = 0 THEN none ELSE step[i][f[i - 1]]
  BY <1>4 DEF FollowsFrom
<1>6. \A i \in 0 .. n : ClusterInv(list, f[i], i)
  <2> DEFINE T == {i \in 0 .. n : ClusterInv(list, f[i], i)}
  <2>1. 0 \in T
    BY <1>0, <1>2, <1>5
  <2>2. ASSUME NEW i \in 1 .. n, i - 1 \in T PROVE i \in T
    <3>1. i \in 0 .. n /\ i # 0 /\ i - 1 \in 0 .. n /\ ClusterInv(list, f[i - 1], i - 1) /\ f[i - 1] \in S
      BY <1>0, <1>4, <2>2
    <3>2. f[i] = TC!Opens(list, f[i - 1], i)
      BY <1>5, <3>1
    <3>3. QED
      BY <1>3, <3>1, <3>2
  <2> HIDE DEF T
  <2>3. \A i \in 0 .. n : i \in T
    BY <1>0, <2>1, <2>2, StepByStep
  <2>4. QED
    BY <2>3 DEF T
<1>7. \A i \in 0 .. n : f[i] = IF i = 0 THEN none ELSE TC!Opens(list, f[i - 1], i)
  <2> SUFFICES ASSUME NEW i \in 0 .. n, i # 0 PROVE f[i] = TC!Opens(list, f[i - 1], i)
    BY <1>5
  <2>1. i \in 1 .. n /\ i - 1 \in 0 .. n
    BY <1>0
  <2>2. f[i - 1] \in S /\ ClusterInv(list, f[i - 1], i - 1)
    BY <1>4, <1>6, <2>1
  <2>3. QED
    BY <1>5, <2>1, <2>2
<1> HIDE DEF step
<1>8. Solves(f)
  <2>1. f = [i \in 0 .. n |-> f[i]]
    BY <1>4
  <2>2. QED
    BY <1>7, <2>1, Zenon
<1>9. Solves(done)
  BY <1>8
<1> HIDE DEF done
<1>10. ASSUME NEW g, Solves(g) PROVE g = f
  <2>1. DOMAIN g = 0 .. n /\ \A i \in 0 .. n : g[i] = IF i = 0 THEN none ELSE TC!Opens(list, g[i - 1], i)
    BY <1>10
  <2> DEFINE T == {i \in 0 .. n : g[i] = f[i]}
  <2>2. 0 \in T
    BY <1>0, <1>7, <2>1
  <2>3. ASSUME NEW i \in 1 .. n, i - 1 \in T PROVE i \in T
    <3>1. i \in 0 .. n /\ i # 0 /\ g[i - 1] = f[i - 1]
      BY <1>0, <2>3
    <3>2. QED
      BY <1>7, <2>1, <3>1
  <2> HIDE DEF T
  <2>4. \A i \in 0 .. n : i \in T
    BY <1>0, <2>2, <2>3, StepByStep
  <2>5. g = [i \in 0 .. n |-> g[i]] /\ f = [i \in 0 .. n |-> f[i]]
    BY <1>4, <1>10
  <2>6. QED
    BY <2>4, <2>5 DEF T
<1>11. done = f
  BY <1>9, <1>10
<1>12. f[n] \in S /\ ClusterInv(list, f[n], n)
  BY <1>0, <1>4, <1>6
<1>13. QED
  BY <1>1, <1>11, <1>12 DEF S, n

\* A topic has few keywords, if its items have.
LEMMA KeywordsFew ==
  ASSUME NEW list \in Seq(SUBSET Nat), \A i \in DOMAIN list : IsFiniteSet(list[i]),
         NEW members \in SUBSET (1 .. Len(list))
  PROVE  TC!Keywords(list, members) \subseteq Nat /\ IsFiniteSet(TC!Keywords(list, members))
<1> DEFINE all == UNION {list[i] : i \in members}
           sets == {list[i] : i \in members}
           f == [i \in members |-> list[i]]
<1>1. IsFiniteSet(members)
  <2>1. IsFiniteSet(1 .. Len(list))
    BY FS_Interval
  <2>2. QED
    BY <2>1, FS_Subset
<1>2. f \in Surjection(members, sets)
  BY DEF Surjection
<1>3. IsFiniteSet(sets)
  BY <1>1, <1>2, FS_Surjection
<1>4. \A T \in sets : IsFiniteSet(T) /\ T \subseteq Nat
  OBVIOUS
<1>5. IsFiniteSet(all) /\ all \subseteq Nat
  <2>1. all = UNION sets
    OBVIOUS
  <2> HIDE DEF all, sets
  <2>2. IsFiniteSet(UNION sets)
    BY <1>3, <1>4, FS_UNION
  <2>3. QED
    BY <1>4, <2>1, <2>2
<1>6. TC!Keywords(list, members) \in SUBSET all
  BY DEF TC!Keywords
<1> HIDE DEF all
<1>7. QED
  BY <1>5, <1>6, FS_Subset

\* A fraction that a similarity can be.
Fraction(p) == p[1] \in Nat /\ p[2] \in Nat /\ p[1] <= p[2] /\ p[2] > 0

\* A similarity is a fraction, and nothing is more similar to a set than itself.
LEMMA SimilarityIsFraction ==
  ASSUME NEW a, IsFiniteSet(a), NEW b, IsFiniteSet(b)
  PROVE  Fraction(TC!Similarity(a, b)) /\ ~TC!Less(TC!Similarity(a, a), TC!Similarity(a, b))
<1> DEFINE c == Cardinality(a \cap b)
           u == Cardinality(a \cup b)
           s == Cardinality(a)
<1>1. \A S : TC!Cardinality(S) = Cardinality(S)
  BY KeywordsCountedAlike
<1>2. IsFiniteSet(a \cup b) /\ a \cap b \in SUBSET (a \cup b)
  BY FS_Union
<1>3. c \in Nat /\ u \in Nat /\ s \in Nat /\ c <= u
  BY <1>2, FS_Subset, FS_CardinalityType
<1>4. (a \cup b # {} => u > 0) /\ (a # {} => s > 0)
  BY <1>2, <1>3, FS_EmptySet
<1>5. TC!Similarity(a, b) = IF a \cup b = {} THEN <<0, 1>> ELSE <<c, u>>
  BY <1>1 DEF TC!Similarity
<1>6. TC!Similarity(a, a) = IF a = {} THEN <<0, 1>> ELSE <<s, s>>
  <2>1. a \cup a = a /\ a \cap a = a
    OBVIOUS
  <2>2. QED
    BY <1>1, <2>1 DEF TC!Similarity
<1>7. a = {} => c = 0
  <2>1. a = {} => a \cap b = {}
    OBVIOUS
  <2>2. QED
    BY <2>1, FS_EmptySet
<1> HIDE DEF c, u, s
<1>8. Fraction(TC!Similarity(a, b))
  BY <1>3, <1>4, <1>5 DEF Fraction
<1>9. ~TC!Less(TC!Similarity(a, a), TC!Similarity(a, b))
  <2>1. CASE a = {}
    <3>1. TC!Similarity(a, a) = <<0, 1>> /\ TC!Similarity(a, b)[1] = 0
      BY <1>5, <1>6, <1>7, <2>1
    <3>2. TC!Similarity(a, b)[2] \in Nat
      BY <1>8 DEF Fraction
    <3>3. QED
      BY <3>1, <3>2 DEF TC!Less
  <2>2. CASE a # {}
    <3>1. TC!Similarity(a, a) = <<s, s>> /\ TC!Similarity(a, b) = <<c, u>>
      BY <1>5, <1>6, <2>2
    <3>2. c * s <= s * u
      BY <1>3
    <3>3. s * u \in Nat /\ c * s \in Nat
      BY <1>3
    <3>4. ~(s * u < c * s)
      BY <3>2, <3>3
    <3>5. QED
      BY <3>1, <3>4 DEF TC!Less
  <2>3. QED
    BY <2>1, <2>2
<1>10. QED
  BY <1>8, <1>9

\* Fractions with a positive denominator are ordered.
LEMMA FractionsOrdered ==
  ASSUME NEW p, p[1] \in Nat, p[2] \in Nat, p[2] > 0, NEW q, Fraction(q), NEW r, Fraction(r)
  PROVE  /\ ~(TC!Less(q, r) /\ TC!Less(r, q))
         /\ TC!Less(p, q) /\ ~TC!Less(r, q) => TC!Less(p, r)
<1> DEFINE a == p[1] b == p[2] c == q[1] d == q[2] e == r[1] f == r[2]
<1>1. a \in Nat /\ b \in Nat /\ c \in Nat /\ d \in Nat /\ e \in Nat /\ f \in Nat /\ b > 0 /\ d > 0 /\ f > 0
  BY DEF Fraction
<1> HIDE DEF a, b, c, d, e, f
<1>2. (TC!Less(q, r) <=> c * f < e * d) /\ (TC!Less(r, q) <=> e * d < c * f)
  BY DEF TC!Less, c, d, e, f
<1>3. (TC!Less(p, q) <=> a * d < c * b) /\ (TC!Less(p, r) <=> a * f < e * b)
  BY DEF TC!Less, a, b, c, d, e, f
<1>4. c * f \in Nat /\ e * d \in Nat /\ a * d \in Nat /\ c * b \in Nat /\ a * f \in Nat /\ e * b \in Nat
  BY <1>1
<1>5. ASSUME a * d < c * b, ~(e * d < c * f) PROVE a * f < e * b
  <2>1. c * f <= e * d
    BY <1>4, <1>5
  <2>2. (a * d) * f < (c * b) * f
    BY <1>1, <1>4, <1>5
  <2>3. (c * f) * b <= (e * d) * b
    BY <1>1, <1>4, <2>1
  <2>4. (a * d) * f = (a * f) * d /\ (c * b) * f = (c * f) * b /\ (e * d) * b = (e * b) * d
    BY <1>1
  <2>5. (a * f) * d < (e * b) * d
    <3>1. (a * d) * f \in Nat /\ (c * f) * b \in Nat /\ (e * d) * b \in Nat
      BY <1>1, <1>4
    <3>2. QED
      BY <2>2, <2>3, <2>4, <3>1
  <2>6. ~(a * f >= e * b)
    <3> SUFFICES ASSUME a * f >= e * b PROVE FALSE
      OBVIOUS
    <3>1. (a * f) * d >= (e * b) * d
      BY <1>1, <1>4
    <3>2. (a * f) * d \in Nat /\ (e * b) * d \in Nat
      BY <1>1, <1>4
    <3>3. QED
      BY <2>5, <3>1, <3>2
  <2>7. QED
    BY <1>4, <2>6
<1>6. ~(c * f < e * d /\ e * d < c * f)
  BY <1>4
<1>7. QED
  BY <1>2, <1>3, <1>5, <1>6

\* TopicsPartition of a list and its topics.
Partitioned(list, T) ==
  /\ \A i \in DOMAIN list : TC!Cardinality({k \in DOMAIN T : i \in T[k].members}) = 1
  /\ \A k, l \in DOMAIN T :
       LET First(m) == CHOOSE i \in T[m].members : \A j \in T[m].members : i <= j
       IN (k # l /\ T[k].members # {} /\ T[l].members # {}) => ~TC!Similar(list[First(k)], list[First(l)])

\* The groups of a list, with their keywords, partition it.
LEMMA ClustersPartition ==
  ASSUME NEW list \in Seq(SUBSET Nat), \A i \in DOMAIN list : IsFiniteSet(list[i]), NEW T,
         T = [k \in DOMAIN TC!Cluster(list) |->
                [members |-> TC!Cluster(list)[k], keywords |-> TC!Keywords(list, TC!Cluster(list)[k])]]
  PROVE  /\ T \in Seq(TC!Topic) /\ Partitioned(list, T)
         /\ \A k \in DOMAIN T : T[k].members # {} /\ IsFiniteSet(T[k].keywords)
<1> DEFINE n == Len(list)
           G == TC!Cluster(list)
<1>1. PICK d \in Clustering(n) : G = d.topics /\ ClusterInv(list, d, n)
  BY ClusterFacts
<1>2. n \in Nat /\ DOMAIN list = 1 .. n
  OBVIOUS
<1>3. G \in Seq(SUBSET (1 .. n))
  BY <1>1 DEF Clustering
<1> HIDE DEF G, n
<1>4. Len(G) \in Nat /\ DOMAIN G = 1 .. Len(G) /\ \A k \in 1 .. Len(G) : G[k] \in SUBSET (1 .. n)
  BY <1>3
<1>5. /\ DOMAIN T = 1 .. Len(G)
      /\ \A k \in 1 .. Len(G) : T[k] = [members |-> G[k], keywords |-> TC!Keywords(list, G[k])]
  BY <1>4 DEF G
<1>6. \A k \in 1 .. Len(G) : T[k].members = G[k] /\ T[k].keywords = TC!Keywords(list, G[k])
  BY <1>5
<1>7. \A k \in 1 .. Len(G) : TC!Keywords(list, G[k]) \in SUBSET Nat /\ IsFiniteSet(TC!Keywords(list, G[k]))
  BY <1>4, KeywordsFew DEF n
<1>8. T \in Seq(TC!Topic)
  <2>1. \A k \in 1 .. Len(G) : T[k] \in TC!Topic
    <3>1. 1 .. n \subseteq Nat
      BY <1>2
    <3>2. QED
      BY <1>4, <1>5, <1>7, <3>1 DEF TC!Topic
  <2>2. T = [k \in 1 .. Len(G) |-> T[k]]
    BY <1>4 DEF G
  <2>3. T \in [1 .. Len(G) -> TC!Topic]
    BY <2>1, <2>2
  <2>4. \A m \in Nat : \A f \in [1 .. m -> TC!Topic] : f \in Seq(TC!Topic)
    OBVIOUS
  <2>5. QED
    BY ONLY <1>4, <2>3, <2>4
<1>9. \A k \in 1 .. Len(G) : \E a \in 1 .. n : Leads(a, G[k])
  BY <1>1, <1>4 DEF ClusterInv, Led
<1>10. \A k \in 1 .. Len(G) : G[k] # {}
  BY <1>9 DEF Leads
<1>11. ASSUME NEW i \in 1 .. n PROVE TC!Cardinality({k \in DOMAIN T : i \in T[k].members}) = 1
  <2>1. PICK k \in 1 .. Len(G) : i \in G[k]
    BY <1>1, <1>4 DEF ClusterInv, Grouped
  <2>2. \A l \in 1 .. Len(G) : i \in G[l] => l = k
    BY <1>1, <1>4, <2>1 DEF ClusterInv, Grouped
  <2>3. {l \in DOMAIN T : i \in T[l].members} = {k}
    BY <1>5, <1>6, <2>1, <2>2
  <2>4. QED
    BY <2>3, KeywordsCountedAlike, FS_Singleton
<1> DEFINE First(m) == CHOOSE i \in T[m].members : \A j \in T[m].members : i <= j
<1>12. \A k \in 1 .. Len(G) : Leads(First(k), G[k])
  <2> SUFFICES ASSUME NEW k \in 1 .. Len(G) PROVE Leads(First(k), G[k])
    OBVIOUS
  <2>1. \E i \in T[k].members : \A j \in T[k].members : i <= j
    BY <1>6, <1>9 DEF Leads
  <2>2. First(k) \in T[k].members /\ \A j \in T[k].members : First(k) <= j
    BY <2>1
  <2>3. QED
    BY <1>6, <2>2 DEF Leads
<1> HIDE DEF First
<1>13. ASSUME NEW k \in 1 .. Len(G), NEW l \in 1 .. Len(G), k # l
       PROVE  ~TC!Similar(list[First(k)], list[First(l)])
  <2>1. Leads(First(k), G[k]) /\ Leads(First(l), G[l])
    BY <1>12
  <2>2. CASE k < l
    BY <1>1, <1>4, <2>1, <2>2 DEF ClusterInv, Apart
  <2>3. CASE l < k
    BY <1>1, <1>4, <2>1, <2>3, SimilarMutually DEF ClusterInv, Apart
  <2>4. QED
    BY <1>4, <1>13, <2>2, <2>3
<1>14. Partitioned(list, T)
  <2>1. \A i \in DOMAIN list : TC!Cardinality({k \in DOMAIN T : i \in T[k].members}) = 1
    BY <1>2, <1>11
  <2>2. \A k, l \in DOMAIN T : k # l /\ T[k].members # {} /\ T[l].members # {}
          => ~TC!Similar(list[First(k)], list[First(l)])
    BY <1>5, <1>13
  <2>3. QED
    BY <2>1, <2>2 DEF Partitioned, First
<1>15. QED
  BY <1>5, <1>6, <1>7, <1>8, <1>10, <1>14

\* A topic without an item of the list leaves it so.
LEMMA PartitionStays ==
  ASSUME NEW list, NEW T \in Seq(TC!Topic), Partitioned(list, T), NEW x \in TC!Topic, x.members = {}
  PROVE  Append(T, x) \in Seq(TC!Topic) /\ Partitioned(list, Append(T, x))
<1> DEFINE U == Append(T, x)
           m == Len(T)
<1>1. /\ U \in Seq(TC!Topic) /\ m \in Nat /\ DOMAIN T = 1 .. m /\ DOMAIN U = 1 .. m + 1
      /\ U[m + 1] = x /\ \A k \in 1 .. m : U[k] = T[k]
  OBVIOUS
<1> HIDE DEF U, m
<1>2. \A k \in 1 .. m + 1 : k \in 1 .. m \/ k = m + 1
  BY <1>1
<1>3. \A k \in 1 .. m : k \in 1 .. m + 1
  BY <1>1
<1>4. ASSUME NEW i PROVE {k \in DOMAIN U : i \in U[k].members} = {k \in DOMAIN T : i \in T[k].members}
  BY <1>1, <1>2, <1>3
<1>5. ASSUME NEW k \in DOMAIN U, U[k].members # {} PROVE k \in DOMAIN T /\ U[k] = T[k]
  BY <1>1, <1>2, <1>5
<1>6. Partitioned(list, U)
  <2>1. \A i \in DOMAIN list : TC!Cardinality({k \in DOMAIN U : i \in U[k].members}) = 1
    BY <1>4 DEF Partitioned
  <2> DEFINE First(V, y) == CHOOSE i \in V[y].members : \A j \in V[y].members : i <= j
  <2>2. ASSUME NEW k \in DOMAIN U, NEW l \in DOMAIN U, k # l, U[k].members # {}, U[l].members # {}
        PROVE  ~TC!Similar(list[First(U, k)], list[First(U, l)])
    <3>1. k \in DOMAIN T /\ l \in DOMAIN T /\ U[k] = T[k] /\ U[l] = T[l]
      BY <1>5, <2>2
    <3>2. ~TC!Similar(list[First(T, k)], list[First(T, l)])
      BY <2>2, <3>1 DEF Partitioned
    <3>3. First(U, k) = First(T, k) /\ First(U, l) = First(T, l)
      BY <3>1
    <3>4. QED
      BY <3>2, <3>3
  <2>3. QED
    BY <2>1, <2>2 DEF Partitioned
<1>7. QED
  BY <1>1, <1>6 DEF U

\* The topic an item is assigned to is the most similar one, if there is one that is
\* similar enough.
LEMMA AssignedIsClosest ==
  ASSUME TC!TopicsAssumption, NEW kws, IsFiniteSet(kws), NEW m \in Nat, NEW T, DOMAIN T = 1 .. m,
         \A k \in 1 .. m : IsFiniteSet(T[k])
  PROVE  \/ TC!Assigned(kws, T) = None /\ \A k \in 1 .. m : ~TC!Similar(kws, T[k])
         \/ /\ TC!Assigned(kws, T) \in 1 .. m
            /\ \A k \in 1 .. m : k # TC!Assigned(kws, T) =>
                 ~TC!Less(TC!Similarity(kws, T[TC!Assigned(kws, T)]), TC!Similarity(kws, T[k]))
<1> DEFINE near == {k \in 1 .. m : TC!Similar(kws, T[k])}
           sim == [k \in 1 .. m |-> TC!Similarity(kws, T[k])]
           Good(k, j) == k \in near /\ k <= j /\ \A l \in near \ {k} : l <= j => TC!Best(k, l, kws, T)
           solved == {j \in 0 .. m : (\A k \in near : ~(k <= j)) \/ \E k \in near : Good(k, j)}
<1>0. Above[1] \in Nat /\ Above[2] \in Nat /\ Above[2] > 0
  BY DEF TC!TopicsAssumption
<1>1. \A k \in 1 .. m : Fraction(sim[k])
  BY SimilarityIsFraction
<1>2. \A k, l \in 1 .. m :
        TC!Best(k, l, kws, T) <=> TC!Less(sim[l], sim[k]) \/ (~TC!Less(sim[k], sim[l]) /\ k < l)
  BY DEF TC!Best
<1>3. \A k \in 1 .. m : k \in near <=> TC!Less(Above, sim[k])
  BY DEF TC!Similar
<1>4. near \subseteq 1 .. m
  OBVIOUS
<1>5. TC!Assigned(kws, T) = IF near = {} THEN None
                            ELSE CHOOSE k \in near : \A l \in near \ {k} : TC!Best(k, l, kws, T)
  BY DEF TC!Assigned
<1>6. \A k \in 1 .. m : TC!Similar(kws, T[k]) <=> k \in near
  OBVIOUS
<1>7. \A k \in 1 .. m : sim[k] = TC!Similarity(kws, T[k])
  OBVIOUS
<1> HIDE DEF sim, near
<1>8. \A i, j, k \in 1 .. m : /\ ~(TC!Less(sim[i], sim[j]) /\ TC!Less(sim[j], sim[i]))
                              /\ TC!Less(sim[i], sim[j]) /\ ~TC!Less(sim[k], sim[j]) => TC!Less(sim[i], sim[k])
                              /\ TC!Less(Above, sim[j]) /\ ~TC!Less(sim[k], sim[j]) => TC!Less(Above, sim[k])
  <2> SUFFICES ASSUME NEW i \in 1 .. m, NEW j \in 1 .. m, NEW k \in 1 .. m
               PROVE  /\ ~(TC!Less(sim[i], sim[j]) /\ TC!Less(sim[j], sim[i]))
                      /\ TC!Less(sim[i], sim[j]) /\ ~TC!Less(sim[k], sim[j]) => TC!Less(sim[i], sim[k])
                      /\ TC!Less(Above, sim[j]) /\ ~TC!Less(sim[k], sim[j]) => TC!Less(Above, sim[k])
    OBVIOUS
  <2>1. Fraction(sim[i]) /\ Fraction(sim[j]) /\ Fraction(sim[k])
    BY <1>1
  <2>2. sim[i][1] \in Nat /\ sim[i][2] \in Nat /\ sim[i][2] > 0
    BY <2>1 DEF Fraction
  <2>3. ~(TC!Less(sim[i], sim[j]) /\ TC!Less(sim[j], sim[i]))
    BY <2>1, <2>2, FractionsOrdered
  <2>4. TC!Less(sim[i], sim[j]) /\ ~TC!Less(sim[k], sim[j]) => TC!Less(sim[i], sim[k])
    BY <2>1, <2>2, FractionsOrdered
  <2>5. TC!Less(Above, sim[j]) /\ ~TC!Less(sim[k], sim[j]) => TC!Less(Above, sim[k])
    BY <1>0, <2>1, FractionsOrdered
  <2>6. QED
    BY <2>3, <2>4, <2>5
<1>9. 0 \in solved
  BY <1>4
<1>10. ASSUME NEW j \in 1 .. m, j - 1 \in solved PROVE j \in solved
  <2>1. \A l \in near : l <= j <=> l <= j - 1 \/ l = j
    BY <1>4
  <2>2. CASE j \notin near
    BY <1>10, <2>1, <2>2
  <2>3. CASE j \in near /\ \A k \in near : ~(k <= j - 1)
    <3>1. Good(j, j)
      BY <2>1, <2>3
    <3>2. QED
      BY <2>3, <3>1
  <2>4. CASE j \in near /\ \E k \in near : Good(k, j - 1)
    <3>1. PICK k \in near : Good(k, j - 1)
      BY <2>4
    <3>2. k # j /\ k < j /\ k <= j
      BY <1>4, <3>1
    <3>3. CASE TC!Less(sim[k], sim[j])
      <4>1. ASSUME NEW l \in near \ {j}, l <= j PROVE TC!Best(j, l, kws, T)
        <5>1. l \in 1 .. m /\ k \in 1 .. m /\ l <= j - 1
          BY <1>4, <2>1, <4>1
        <5>2. CASE l = k
          BY <1>2, <3>3, <5>1, <5>2
        <5>3. CASE l # k
          <6>1. TC!Best(k, l, kws, T)
            BY <3>1, <5>1, <5>3
          <6>2. ~TC!Less(sim[k], sim[l])
            BY <1>2, <1>8, <5>1, <6>1
          <6>3. TC!Less(sim[l], sim[j])
            BY <1>8, <3>3, <5>1, <6>2
          <6>4. QED
            BY <1>2, <5>1, <6>3
        <5>4. QED
          BY <5>2, <5>3
      <4>2. QED
        BY <2>4, <4>1
    <3>4. CASE ~TC!Less(sim[k], sim[j])
      <4>1. TC!Best(k, j, kws, T)
        BY <1>2, <1>4, <3>2, <3>4
      <4>2. \A l \in near \ {k} : l <= j => TC!Best(k, l, kws, T)
        BY <2>1, <3>1, <4>1
      <4>3. QED
        BY <3>2, <4>2
    <3>5. QED
      BY <3>3, <3>4
  <2>5. QED
    BY <1>10, <2>2, <2>3, <2>4
<1> HIDE DEF solved
<1>11. m \in solved
  <2>1. \A j \in 0 .. m : j \in solved
    BY <1>9, <1>10, StepByStep
  <2>2. QED
    BY <2>1
<1>12. CASE near = {}
  BY <1>5, <1>6, <1>12
<1>13. CASE near # {}
  <2> DEFINE g == TC!Assigned(kws, T)
  <2>1. \E k \in near : \A l \in near \ {k} : TC!Best(k, l, kws, T)
    <3>1. \A k \in near : k <= m
      BY <1>4
    <3>2. QED
      BY <1>11, <1>13, <3>1 DEF solved
  <2>2. g \in near /\ \A l \in near \ {g} : TC!Best(g, l, kws, T)
    BY <1>5, <1>13, <2>1
  <2> HIDE DEF g
  <2>3. ASSUME NEW k \in 1 .. m, k # g PROVE ~TC!Less(sim[g], sim[k])
    <3>1. CASE k \in near
      BY <1>2, <1>4, <1>8, <2>2, <2>3, <3>1
    <3>2. CASE k \notin near
      BY <1>3, <1>4, <1>8, <2>2, <3>2
    <3>3. QED
      BY <3>1, <3>2
  <2>4. QED
    BY <1>4, <1>7, <2>2, <2>3 DEF g
<1>14. QED
  BY <1>12, <1>13

\* The inductive invariant: before an item is assigned, every topic has members and
\* few keywords.
TopicsInv ==
  /\ items \in Lists /\ arrived \in Arrivals
  /\ topics = None \/ (topics \in Seq(TC!Topic) /\ Partitioned(items, topics))
  /\ given = None /\ topics # None =>
       \A k \in DOMAIN topics : topics[k].members # {} /\ IsFiniteSet(topics[k].keywords)
  /\ given # None => topics # None /\ TC!JoinsTheClosest

\* TopicsPartition and JoinsTheClosest: clustering puts every item in one topic and opens
\* no two topics with similar items, and an item that comes later joins the most similar.
THEOREM ClustersHold ==
  ASSUME TC!TopicsAssumption PROVE TC!TopicsSpec => [](TC!TopicsPartition /\ TC!JoinsTheClosest)
<1>0. /\ None \notin Nat /\ None \notin Seq(TC!Topic) /\ Lists \subseteq Seq(SUBSET Nat)
      /\ \A list \in Lists : \A i \in DOMAIN list : IsFiniteSet(list[i])
      /\ \A kws \in Arrivals : kws \in SUBSET Nat /\ IsFiniteSet(kws)
  BY KeywordsCountedAlike DEF TC!TopicsAssumption
<1>1. TC!TopicsInit => TopicsInv
  BY DEF TC!TopicsInit, TopicsInv
<1>2. TopicsInv /\ [TC!TopicsNext]_(TC!topicVars) => TopicsInv'
  <2> SUFFICES ASSUME TopicsInv, [TC!TopicsNext]_(TC!topicVars) PROVE TopicsInv'
    OBVIOUS
  <2>1. CASE TC!ClusterItems
    <3>1. /\ topics = None /\ given = None /\ UNCHANGED <<items, arrived, given>>
          /\ items \in Lists /\ arrived \in Arrivals
      BY <2>1 DEF TC!ClusterItems, TopicsInv
    <3>2. topics' = [k \in DOMAIN TC!Cluster(items) |->
                       [members |-> TC!Cluster(items)[k], keywords |-> TC!Keywords(items, TC!Cluster(items)[k])]]
      BY <2>1 DEF TC!ClusterItems
    <3>3. items \in Seq(SUBSET Nat) /\ \A i \in DOMAIN items : IsFiniteSet(items[i])
      BY <1>0, <3>1
    <3>4. PICK list \in Lists, T \in {topics'} : list = items /\ T = topics'
      BY <3>1
    <3>5. /\ T \in Seq(TC!Topic) /\ Partitioned(list, T)
          /\ \A k \in DOMAIN T : T[k].members # {} /\ IsFiniteSet(T[k].keywords)
      BY <3>2, <3>3, <3>4, ClustersPartition
    <3>6. items' = list /\ topics' = T /\ given' = None /\ arrived' \in Arrivals
      BY <3>1, <3>4
    <3>7. QED
      BY <3>5, <3>6 DEF TopicsInv
  <2>2. CASE TC!AssignToTopic
    <3>1. PICK list \in Lists, T \in {topics}, kws \in Arrivals : list = items /\ T = topics /\ kws = arrived
      BY DEF TopicsInv
    <3>2. /\ T \in Seq(TC!Topic) /\ Partitioned(list, T)
          /\ \A k \in DOMAIN T : T[k].members # {} /\ IsFiniteSet(T[k].keywords)
      BY <2>2, <3>1 DEF TC!AssignToTopic, TopicsInv
    <3> DEFINE m == Len(T)
               W == [k \in DOMAIN T |-> T[k].keywords]
               g == TC!Assigned(kws, W)
               x == [members |-> {}, keywords |-> kws]
    <3>3. /\ items' = list /\ arrived' = kws
          /\ IF g # None THEN given' = g /\ topics' = T
             ELSE given' = m + 1 /\ topics' = Append(T, x)
      BY <2>2, <3>1 DEF TC!AssignToTopic
    <3>4. /\ m \in Nat /\ DOMAIN T = 1 .. m /\ DOMAIN W = 1 .. m
          /\ \A k \in 1 .. m : W[k] = T[k].keywords /\ IsFiniteSet(W[k])
      BY <3>2
    <3>5. IsFiniteSet(kws) /\ x \in TC!Topic /\ x.members = {} /\ x.keywords = kws
      BY <1>0 DEF TC!Topic
    <3> HIDE DEF W, x, m
    <3>6. \/ g = None /\ \A k \in 1 .. m : ~TC!Similar(kws, W[k])
          \/ /\ g \in 1 .. m
             /\ \A k \in 1 .. m : k # g => ~TC!Less(TC!Similarity(kws, W[g]), TC!Similarity(kws, W[k]))
      BY <3>4, <3>5, AssignedIsClosest
    <3> HIDE DEF g
    <3>7. CASE g \in 1 .. m
      <4>1. g # None /\ g \in Nat
        BY <1>0, <3>4, <3>7
      <4>2. given' = g /\ topics' = T /\ given' # None /\ topics' # None
        BY <1>0, <3>2, <3>3, <4>1
      <4>3. \A k \in 1 .. m : k # g => ~TC!Less(TC!Similarity(kws, W[g]), TC!Similarity(kws, W[k]))
        BY <1>0, <3>6, <4>1
      <4>4. TC!JoinsTheClosest'
        BY <3>2, <3>3, <3>4, <3>7, <4>2, <4>3 DEF TC!JoinsTheClosest
      <4>5. QED
        BY <3>2, <3>3, <4>2, <4>4 DEF TopicsInv
    <3>8. CASE g = None /\ \A k \in 1 .. m : ~TC!Similar(kws, W[k])
      <4> DEFINE U == Append(T, x)
      <4>1. given' = m + 1 /\ topics' = U
        BY <3>3, <3>8
      <4>2. U \in Seq(TC!Topic) /\ Partitioned(list, U)
        BY <3>2, <3>5, PartitionStays
      <4>3. DOMAIN U = 1 .. m + 1 /\ U[m + 1] = x /\ \A k \in 1 .. m : U[k] = T[k]
        BY <3>2, <3>4, <3>5 DEF m
      <4> HIDE DEF U
      <4>4. m + 1 \in Nat /\ given' # None /\ topics' # None
        BY <1>0, <3>4, <4>1, <4>2
      <4>5. \A k \in 1 .. m + 1 : k # m + 1 =>
              /\ U[k].keywords = W[k]
              /\ ~TC!Similar(kws, W[k])
              /\ ~TC!Less(TC!Similarity(kws, kws), TC!Similarity(kws, W[k]))
        <5> SUFFICES ASSUME NEW k \in 1 .. m + 1, k # m + 1
                     PROVE  /\ U[k].keywords = W[k] /\ ~TC!Similar(kws, W[k])
                            /\ ~TC!Less(TC!Similarity(kws, kws), TC!Similarity(kws, W[k]))
          OBVIOUS
        <5>1. k \in 1 .. m
          BY <3>4
        <5>2. IsFiniteSet(W[k])
          BY <3>4, <5>1
        <5>3. QED
          BY <3>4, <3>5, <3>8, <4>3, <5>1, <5>2, SimilarityIsFraction
      <4>6. TC!JoinsTheClosest'
        BY <3>3, <3>5, <4>1, <4>3, <4>5 DEF TC!JoinsTheClosest
      <4>7. QED
        BY <3>3, <4>1, <4>2, <4>4, <4>6 DEF TopicsInv
    <3>9. QED
      BY <3>6, <3>7, <3>8
  <2>3. CASE UNCHANGED TC!topicVars
    BY <2>3 DEF TC!topicVars, TopicsInv, TC!JoinsTheClosest
  <2>4. QED
    BY <2>1, <2>2, <2>3 DEF TC!TopicsNext
<1>3. TopicsInv => TC!TopicsPartition /\ TC!JoinsTheClosest
  <2>1. TopicsInv => TC!TopicsPartition
    BY DEF TopicsInv, Partitioned, TC!TopicsPartition
  <2>2. TopicsInv => TC!JoinsTheClosest
    BY DEF TopicsInv, TC!JoinsTheClosest
  <2>3. QED
    BY <2>1, <2>2
<1>4. QED
  BY <1>1, <1>2, <1>3, PTL DEF TC!TopicsSpec

------------------------------------------------------------------------------
(* Review *)

\* What Review counts with is what the theorems on finite sets are about.
LEMMA CardsCountedAlike == \A S : RV!Cardinality(S) = Cardinality(S)
BY DEF RV!Cardinality, RV!IsFiniteSet, Cardinality, IsFiniteSet

\* The places of x in a sequence.
PlacesOf(s, x) == {k \in DOMAIN s : s[k] = x}
Count(s, x) == Cardinality(PlacesOf(s, x))

\* They are few.
LEMMA CountTyped ==
  ASSUME NEW S, NEW s \in Seq(S), NEW x
  PROVE  IsFiniteSet(PlacesOf(s, x)) /\ Count(s, x) \in Nat
<1>1. IsFiniteSet(1 .. Len(s))
  BY FS_Interval
<1>2. PlacesOf(s, x) \in SUBSET (1 .. Len(s))
  BY DEF PlacesOf
<1>3. IsFiniteSet(PlacesOf(s, x))
  BY <1>1, <1>2, FS_Subset
<1>4. QED
  BY <1>3, FS_CardinalityType DEF Count

\* Two sequences have as many x as both together.
LEMMA CountJoined ==
  ASSUME NEW S, NEW s \in Seq(S), NEW t \in Seq(S), NEW x
  PROVE  Count(s \o t, x) = Count(s, x) + Count(t, x)
<1> DEFINE A == PlacesOf(s, x)
           B == PlacesOf(t, x)
           C == PlacesOf(s \o t, x)
           D == {k \in C : k > Len(s)}
           move == [k \in B |-> Len(s) + k]
<1>0. /\ Len(s) \in Nat /\ Len(t) \in Nat /\ s \o t \in Seq(S) /\ Len(s \o t) = Len(s) + Len(t)
      /\ \A k \in 1 .. Len(s) : (s \o t)[k] = s[k]
      /\ \A k \in 1 .. Len(t) : (s \o t)[Len(s) + k] = t[k]
      /\ DOMAIN s = 1 .. Len(s) /\ DOMAIN t = 1 .. Len(t) /\ DOMAIN (s \o t) = 1 .. Len(s) + Len(t)
  OBVIOUS
<1>1. IsFiniteSet(A) /\ IsFiniteSet(B) /\ IsFiniteSet(C)
  BY <1>0, CountTyped
<1>2. \A k : k \in A <=> k \in C /\ ~(k > Len(s))
  BY <1>0 DEF PlacesOf
<1>3. \A k \in 1 .. Len(t) : k \in B <=> Len(s) + k \in D
  BY <1>0 DEF PlacesOf
<1>4. D \subseteq {Len(s) + k : k \in 1 .. Len(t)} /\ B \subseteq 1 .. Len(t)
  <2>1. \A k \in D : k - Len(s) \in 1 .. Len(t) /\ k = Len(s) + (k - Len(s))
    BY <1>0 DEF PlacesOf
  <2>2. QED
    BY <1>0, <2>1 DEF PlacesOf
<1> HIDE DEF A, B, D
<1>5. move \in Bijection(B, D)
  <2>1. move \in [B -> D]
    BY <1>3, <1>4
  <2>2. \A j, k \in B : move[j] = move[k] => j = k
    BY <1>0, <1>4
  <2>3. \A d \in D : \E k \in B : move[k] = d
    BY <1>3, <1>4
  <2>4. QED
    BY <2>1, <2>2, <2>3 DEF Bijection, Injection, Surjection, IsInjective
<1>6. IsFiniteSet(D) /\ Cardinality(D) = Cardinality(B)
  BY <1>1, <1>5, FS_Bijection DEF ExistsBijection
<1>7. C = A \cup D /\ A \cap D = {}
  BY <1>2 DEF D
<1>8. Cardinality(C) = Cardinality(A) + Cardinality(D) - Cardinality(A \cap D)
  BY <1>1, <1>6, <1>7, FS_Union
<1>9. Cardinality(A \cap D) = 0 /\ Cardinality(A) \in Nat /\ Cardinality(D) \in Nat
  BY <1>1, <1>6, <1>7, FS_EmptySet, FS_CardinalityType
<1> HIDE DEF C
<1>10. QED
  BY <1>6, <1>8, <1>9 DEF Count, A, B, C

\* One more is counted.
LEMMA CountAppended ==
  ASSUME NEW S, NEW s \in Seq(S), NEW y \in S, NEW x
  PROVE  Count(Append(s, y), x) = Count(s, x) + IF y = x THEN 1 ELSE 0
<1>1. <<y>> \in Seq(S) /\ Append(s, y) = s \o <<y>>
  OBVIOUS
<1>2. Count(<<y>>, x) = IF y = x THEN 1 ELSE 0
  <2>1. PlacesOf(<<y>>, x) = IF y = x THEN {1} ELSE {}
    BY DEF PlacesOf
  <2>2. QED
    BY <2>1, FS_Singleton, FS_EmptySet DEF Count
<1>3. Count(s \o <<y>>, x) = Count(s, x) + Count(<<y>>, x)
  BY <1>1, CountJoined
<1>4. QED
  BY <1>1, <1>2, <1>3

\* What joining leaves, place by place.
LEMMA JoinedAt ==
  ASSUME NEW S, NEW s \in Seq(S), NEW t \in Seq(S)
  PROVE  /\ s \o t \in Seq(S) /\ Len(s \o t) = Len(s) + Len(t)
         /\ \A k \in 1 .. Len(s) + Len(t) : (s \o t)[k] = IF k <= Len(s) THEN s[k] ELSE t[k - Len(s)]
OBVIOUS

\* What removing one leaves, place by place.
LEMMA RemovedAt ==
  ASSUME NEW S, NEW s \in Seq(S), NEW p \in 1 .. Len(s)
  PROVE  /\ RV!RemoveAt(s, p) \in Seq(S) /\ Len(RV!RemoveAt(s, p)) = Len(s) - 1
         /\ \A k \in 1 .. Len(s) - 1 : RV!RemoveAt(s, p)[k] = IF k < p THEN s[k] ELSE s[k + 1]
<1> DEFINE a == SubSeq(s, 1, p - 1)
           b == SubSeq(s, p + 1, Len(s))
<1>1. a \in Seq(S) /\ Len(a) = p - 1 /\ \A k \in 1 .. p - 1 : a[k] = s[k]
  OBVIOUS
<1>2. b \in Seq(S) /\ Len(b) = Len(s) - p /\ \A k \in 1 .. Len(s) - p : b[k] = s[p + k]
  OBVIOUS
<1>3. RV!RemoveAt(s, p) = a \o b
  BY DEF RV!RemoveAt
<1> HIDE DEF a, b
<1>4. /\ a \o b \in Seq(S) /\ Len(a \o b) = Len(s) - 1
      /\ \A k \in 1 .. Len(s) - 1 : (a \o b)[k] = IF k < p THEN a[k] ELSE b[k - p + 1]
  <2>1. /\ a \o b \in Seq(S) /\ Len(a \o b) = Len(a) + Len(b)
        /\ \A k \in 1 .. Len(a) + Len(b) : (a \o b)[k] = IF k <= Len(a) THEN a[k] ELSE b[k - Len(a)]
    BY <1>1, <1>2, JoinedAt
  <2>2. Len(s) \in Nat /\ p \in Nat /\ Len(a) + Len(b) = Len(s) - 1
    BY <1>1, <1>2
  <2>3. \A k \in 1 .. Len(s) - 1 : (k <= p - 1 <=> k < p) /\ k - (p - 1) = k - p + 1
    BY <2>2
  <2>4. QED
    BY <1>1, <2>1, <2>2, <2>3
<1>5. ASSUME NEW k \in 1 .. Len(s) - 1 PROVE (a \o b)[k] = IF k < p THEN s[k] ELSE s[k + 1]
  <2>1. CASE k < p
    BY <1>1, <1>4, <2>1
  <2>2. CASE ~(k < p)
    <3>1. k - p + 1 \in 1 .. Len(s) - p /\ p + (k - p + 1) = k + 1
      BY <2>2
    <3>2. QED
      BY <1>2, <1>4, <2>2, <3>1
  <2>3. QED
    BY <2>1, <2>2
<1>6. QED
  BY <1>3, <1>4, <1>5

\* One that is removed is not counted any more.
LEMMA CountRemoved ==
  ASSUME NEW S, NEW s \in Seq(S), NEW p \in 1 .. Len(s), NEW x
  PROVE  /\ RV!RemoveAt(s, p) \in Seq(S)
         /\ Count(s, x) = Count(RV!RemoveAt(s, p), x) + IF s[p] = x THEN 1 ELSE 0
<1> DEFINE a == SubSeq(s, 1, p - 1)
           b == SubSeq(s, p + 1, Len(s))
<1>0. Len(s) \in Nat /\ p \in Nat /\ s[p] \in S
  OBVIOUS
<1>1. /\ a \in Seq(S) /\ Len(a) = p - 1 /\ \A k \in 1 .. p - 1 : a[k] = s[k]
  OBVIOUS
<1>2. /\ b \in Seq(S) /\ Len(b) = Len(s) - p /\ \A k \in 1 .. Len(s) - p : b[k] = s[p + k]
  OBVIOUS
<1>3. RV!RemoveAt(s, p) = a \o b
  BY DEF RV!RemoveAt
<1> HIDE DEF a, b
<1> DEFINE c == Append(a, s[p])
<1>4. /\ c \in Seq(S) /\ Len(c) = p
      /\ \A k \in 1 .. p : c[k] = s[k]
  BY <1>0, <1>1
<1>5. Count(c, x) = Count(a, x) + IF s[p] = x THEN 1 ELSE 0
  BY <1>0, <1>1, CountAppended
<1> HIDE DEF c
<1>6. s = c \o b
  <2>1. /\ c \o b \in Seq(S) /\ Len(c \o b) = Len(c) + Len(b)
        /\ \A k \in 1 .. Len(c) + Len(b) : (c \o b)[k] = IF k <= Len(c) THEN c[k] ELSE b[k - Len(c)]
    <3>1. c \in Seq(S) /\ b \in Seq(S)
      BY <1>2, <1>4
    <3>2. QED
      BY ONLY <3>1, JoinedAt
  <2>2. Len(c) = p /\ Len(c) + Len(b) = Len(s) /\ \A k \in 1 .. Len(s) : (c \o b)[k] = s[k]
    <3>1. Len(c) = p /\ Len(c) + Len(b) = Len(s)
      BY <1>0, <1>2, <1>4
    <3> SUFFICES ASSUME NEW k \in 1 .. Len(s) PROVE (c \o b)[k] = s[k]
      BY <3>1
    <3>2. CASE k <= p
      BY <1>0, <1>4, <2>1, <3>1, <3>2
    <3>3. CASE k > p
      <4>1. k - p \in 1 .. Len(s) - p /\ p + (k - p) = k
        BY <1>0, <3>3
      <4>2. (c \o b)[k] = b[k - p]
        BY <1>0, <2>1, <3>1, <3>3
      <4>3. QED
        BY <1>2, <4>1, <4>2
    <3>4. k <= p \/ k > p
      BY <1>0
    <3>5. QED
      BY <3>2, <3>3, <3>4
  <2>3. \A u, v \in Seq(S) : Len(u) = Len(v) /\ (\A k \in 1 .. Len(u) : u[k] = v[k]) => u = v
    OBVIOUS
  <2>4. c \o b \in Seq(S) /\ Len(c \o b) = Len(s)
    BY <2>1, <2>2
  <2>5. QED
    BY <2>2, <2>3, <2>4
<1>7. Count(s, x) = Count(c, x) + Count(b, x) /\ Count(a \o b, x) = Count(a, x) + Count(b, x)
  BY <1>1, <1>2, <1>4, <1>6, CountJoined
<1>8. Count(a, x) \in Nat /\ Count(b, x) \in Nat
  BY <1>1, <1>2, CountTyped
<1>9. QED
  BY <1>1, <1>2, <1>3, <1>5, <1>7, <1>8

\* The ids of cards.
CardIds ==
  {<<"card", i>> : i \in Carded}
    \cup {<<"wiki", t>> \o <<k - 1>> : t \in Times, k \in 1 .. MaxFound}
    \cup {<<"session", s>> \o <<k - 1>> : s \in Titles, k \in 1 .. MaxFound}

\* Cards, as the queue and the reviewers have them.
Cards ==
  [id : CardIds, difficulty : {"Easy", "Medium", "Hard", "Critical"}, stability : Nat, count : Nat,
   due : Nat]

\* The ids of a queue, in its order.
IdsOf(q) == [k \in DOMAIN q |-> q[k].id]

\* The types that the queue depends on.
ReviewTyped ==
  /\ queue \in Seq(Cards) /\ clock \in Times
  /\ held \in [Reviewers -> Cards \cup {None}]
  /\ put \in Seq(CardIds) /\ taken \in Seq(CardIds)

\* Of every id, what was put in is there or was taken out.
Balanced == \A id : Count(IdsOf(queue), id) + Count(taken, id) = Count(put, id)

\* The inductive invariant.
ReviewInv == ReviewTyped /\ Balanced

\* A card that is made is one.
LEMMA CardTyped ==
  ASSUME RV!ReviewAssumption, clock \in Times, NEW id \in CardIds,
         NEW d \in {"Easy", "Medium", "Hard", "Critical"}
  PROVE  RV!Card(id, d) \in Cards /\ RV!Card(id, d).id = id
<1>1. RV!InitialStability[d] \in Nat
  BY DEF RV!InitialStability
<1>2. clock \in Nat
  BY DEF RV!ReviewAssumption
<1> DEFINE s == RV!InitialStability[d]
<1> HIDE DEF s
<1>3. clock + s * 864 \in Nat
  BY <1>1, <1>2 DEF s
<1>4. RV!Card(id, d) = [id |-> id, difficulty |-> d, stability |-> s, count |-> 0, due |-> clock + s * 864]
  BY DEF RV!Card, RV!Seconds, s
<1>5. QED
  BY <1>1, <1>3, <1>4 DEF Cards, s

\* A card that is graded keeps its id.
LEMMA GradedTyped ==
  ASSUME RV!ReviewAssumption, clock \in Times, NEW c \in Cards, NEW grade
  PROVE  RV!Graded(c, grade) \in Cards /\ RV!Graded(c, grade).id = c.id
<1> DEFINE m == RV!Multiplier(c, grade)
           s == RV!Clamped((c.stability * m) \div 100)
           due == clock + (IF grade = "Again" THEN 600 ELSE RV!Seconds(s))
<1>0. clock \in Nat /\ c.stability \in Nat /\ c.count \in Nat
  BY DEF RV!ReviewAssumption, Cards
<1>1. m \in Nat
  BY <1>0 DEF RV!Multiplier
<1> HIDE DEF m
<1>2. c.stability * m \in Nat
  BY <1>0, <1>1
<1>3. (c.stability * m) \div 100 \in Nat
  BY <1>2
<1>4. s \in Nat
  BY <1>3 DEF RV!Clamped
<1> HIDE DEF s
<1>5. due \in Nat
  BY <1>0, <1>4 DEF RV!Seconds
<1>6. RV!Graded(c, grade) = [c EXCEPT !.stability = s, !.count = @ + 1, !.due = due]
  BY DEF RV!Graded, s, m
<1> HIDE DEF due
<1> DEFINE g == [c EXCEPT !.stability = s, !.count = @ + 1, !.due = due]
<1>8. c.id \in CardIds /\ c.difficulty \in {"Easy", "Medium", "Hard", "Critical"} /\ c.count + 1 \in Nat
  BY <1>0 DEF Cards
<1>9. g \in Cards /\ g.id = c.id
  BY <1>4, <1>5, <1>8 DEF Cards
<1>10. QED
  BY <1>6, <1>9

\* Where a card with an id is found, if there is one.
LEMMA PositionFacts ==
  ASSUME queue \in Seq(Cards), NEW id
  PROVE  \/ RV!Position(id) = 0 /\ \A k \in 1 .. Len(queue) : queue[k].id # id
         \/ RV!Position(id) \in 1 .. Len(queue) /\ queue[RV!Position(id)].id = id
<1> DEFINE I == {k \in 1 .. Len(queue) : queue[k].id = id}
<1>1. RV!Position(id) = IF I # {} THEN RV!Min(I) ELSE 0
  BY DEF RV!Position, RV!SelectInSeq
<1>2. CASE I = {}
  BY <1>1, <1>2
<1>3. CASE I # {}
  <2>1. I \subseteq Nat
    OBVIOUS
  <2>2. \E n \in I : \A k \in I : n <= k
    BY <1>3, <2>1, Least
  <2>3. RV!Min(I) \in I
    BY <2>2 DEF RV!Min
  <2>4. QED
    BY <1>1, <1>3, <2>3
<1>4. QED
  BY <1>2, <1>3

\* The ids of a queue are a sequence as long as it is.
LEMMA IdsTyped ==
  ASSUME NEW q \in Seq(Cards)
  PROVE  /\ IdsOf(q) \in Seq(CardIds) /\ Len(IdsOf(q)) = Len(q)
         /\ \A k \in 1 .. Len(q) : IdsOf(q)[k] = q[k].id
<1>1. DOMAIN q = 1 .. Len(q) /\ Len(q) \in Nat /\ \A k \in 1 .. Len(q) : q[k] \in Cards
  OBVIOUS
<1>2. \A c \in Cards : c.id \in CardIds
  BY DEF Cards
<1>3. IdsOf(q) \in [1 .. Len(q) -> CardIds] /\ \A k \in 1 .. Len(q) : IdsOf(q)[k] = q[k].id
  BY <1>1, <1>2 DEF IdsOf
<1>4. \A n \in Nat : \A f \in [1 .. n -> CardIds] : f \in Seq(CardIds) /\ Len(f) = n
  OBVIOUS
<1>5. QED
  BY ONLY <1>1, <1>3, <1>4

\* Sequences are the same when they have the same at every place.
LEMMA SameSequence ==
  ASSUME NEW S, NEW u \in Seq(S), NEW v \in Seq(S), Len(u) = Len(v),
         \A k \in 1 .. Len(u) : u[k] = v[k]
  PROVE  u = v
OBVIOUS

\* The ids of two queues, one after the other.
LEMMA IdsJoined ==
  ASSUME NEW q \in Seq(Cards), NEW r \in Seq(Cards)
  PROVE  IdsOf(q \o r) = IdsOf(q) \o IdsOf(r)
<1> DEFINE u == IdsOf(q \o r)
           a == IdsOf(q)
           b == IdsOf(r)
<1>1. /\ q \o r \in Seq(Cards) /\ Len(q \o r) = Len(q) + Len(r) /\ Len(q) \in Nat /\ Len(r) \in Nat
      /\ \A k \in 1 .. Len(q) + Len(r) : (q \o r)[k] = IF k <= Len(q) THEN q[k] ELSE r[k - Len(q)]
  OBVIOUS
<1>2. /\ a \in Seq(CardIds) /\ Len(a) = Len(q) /\ \A k \in 1 .. Len(q) : a[k] = q[k].id
      /\ b \in Seq(CardIds) /\ Len(b) = Len(r) /\ \A k \in 1 .. Len(r) : b[k] = r[k].id
  BY IdsTyped
<1>3. /\ u \in Seq(CardIds) /\ Len(u) = Len(q) + Len(r)
      /\ \A k \in 1 .. Len(q) + Len(r) : u[k] = (q \o r)[k].id
  BY <1>1, IdsTyped
<1> HIDE DEF u, a, b
<1>4. /\ a \o b \in Seq(CardIds) /\ Len(a \o b) = Len(q) + Len(r)
      /\ \A k \in 1 .. Len(q) + Len(r) : (a \o b)[k] = IF k <= Len(q) THEN a[k] ELSE b[k - Len(q)]
  <2>1. /\ a \o b \in Seq(CardIds) /\ Len(a \o b) = Len(a) + Len(b)
        /\ \A k \in 1 .. Len(a) + Len(b) : (a \o b)[k] = IF k <= Len(a) THEN a[k] ELSE b[k - Len(a)]
    <3>1. a \in Seq(CardIds) /\ b \in Seq(CardIds)
      BY <1>2
    <3>2. QED
      BY ONLY <3>1, JoinedAt
  <2>2. Len(a) = Len(q) /\ Len(a) + Len(b) = Len(q) + Len(r)
    BY <1>2
  <2>3. QED
    BY ONLY <2>1, <2>2
<1>5. ASSUME NEW k \in 1 .. Len(q) + Len(r) PROVE u[k] = (a \o b)[k]
  <2>1. CASE k <= Len(q)
    <3>1. k \in 1 .. Len(q)
      BY <1>1, <2>1
    <3>2. QED
      BY <1>1, <1>2, <1>3, <1>4, <2>1, <3>1
  <2>2. CASE ~(k <= Len(q))
    <3>1. k - Len(q) \in 1 .. Len(r)
      BY <1>1, <2>2
    <3>2. QED
      BY <1>1, <1>2, <1>3, <1>4, <2>2, <3>1
  <2>3. QED
    BY <2>1, <2>2
<1>6. u = a \o b
  BY <1>3, <1>4, <1>5, SameSequence
<1>7. QED
  BY <1>6 DEF u, a, b

\* The ids that are left when one is removed.
LEMMA IdsRemoved ==
  ASSUME NEW q \in Seq(Cards), NEW p \in 1 .. Len(q)
  PROVE  IdsOf(RV!RemoveAt(q, p)) = RV!RemoveAt(IdsOf(q), p)
<1> DEFINE r == RV!RemoveAt(q, p)
           a == IdsOf(q)
           b == RV!RemoveAt(a, p)
           u == IdsOf(r)
<1>1. /\ r \in Seq(Cards) /\ Len(r) = Len(q) - 1
      /\ \A k \in 1 .. Len(q) - 1 : r[k] = IF k < p THEN q[k] ELSE q[k + 1]
  BY RemovedAt
<1>2. a \in Seq(CardIds) /\ Len(a) = Len(q) /\ \A k \in 1 .. Len(q) : a[k] = q[k].id
  BY IdsTyped
<1> HIDE DEF a, r
<1>3. /\ b \in Seq(CardIds) /\ Len(b) = Len(q) - 1
      /\ \A k \in 1 .. Len(q) - 1 : b[k] = IF k < p THEN a[k] ELSE a[k + 1]
  <2>1. p \in 1 .. Len(a)
    BY <1>2
  <2>2. /\ b \in Seq(CardIds) /\ Len(b) = Len(a) - 1
        /\ \A k \in 1 .. Len(a) - 1 : b[k] = IF k < p THEN a[k] ELSE a[k + 1]
    BY <1>2, <2>1, RemovedAt
  <2>3. QED
    BY <1>2, <2>2
<1>4. u \in Seq(CardIds) /\ Len(u) = Len(q) - 1 /\ \A k \in 1 .. Len(q) - 1 : u[k] = r[k].id
  BY <1>1, IdsTyped
<1> HIDE DEF b, u
<1>5. ASSUME NEW k \in 1 .. Len(q) - 1 PROVE u[k] = b[k]
  <2>1. k \in 1 .. Len(q) /\ k + 1 \in 1 .. Len(q)
    OBVIOUS
  <2>2. QED
    BY <1>1, <1>2, <1>3, <1>4, <2>1
<1>6. u = b
  BY <1>3, <1>4, <1>5, SameSequence
<1>7. QED
  BY <1>6 DEF u, b, a, r

\* New cards are put in at the end of both.
LEMMA EnqueueKeeps ==
  ASSUME ReviewInv, NEW cards \in Seq(Cards), RV!Enqueue(cards)
  PROVE  ReviewInv'
<1> DEFINE ids == IdsOf(cards)
<1>1. /\ queue' = queue \o cards /\ put' = put \o ids /\ UNCHANGED <<clock, held, taken>>
  BY DEF RV!Enqueue, IdsOf
<1>2. ids \in Seq(CardIds)
  BY IdsTyped
<1> HIDE DEF ids
<1>3. IdsOf(queue \o cards) = IdsOf(queue) \o ids /\ IdsOf(queue) \in Seq(CardIds)
  BY IdsJoined, IdsTyped DEF ReviewInv, ReviewTyped, ids
<1>4. ReviewTyped'
  BY <1>1, <1>2 DEF ReviewInv, ReviewTyped
<1>5. Balanced'
  <2> SUFFICES ASSUME NEW id PROVE Count(IdsOf(queue'), id) + Count(taken', id) = Count(put', id)
    BY DEF Balanced
  <2>1. put \in Seq(CardIds) /\ taken \in Seq(CardIds)
    BY DEF ReviewInv, ReviewTyped
  <2>2. Count(IdsOf(queue) \o ids, id) = Count(IdsOf(queue), id) + Count(ids, id)
    BY <1>2, <1>3, CountJoined
  <2>3. Count(put \o ids, id) = Count(put, id) + Count(ids, id)
    BY <1>2, <2>1, CountJoined
  <2>4. Count(IdsOf(queue), id) + Count(taken, id) = Count(put, id)
    BY DEF ReviewInv, Balanced
  <2>5. Count(IdsOf(queue), id) \in Nat /\ Count(taken, id) \in Nat /\ Count(put, id) \in Nat /\ Count(ids, id) \in Nat
    BY <1>2, <1>3, <2>1, CountTyped
  <2>6. QED
    BY <1>1, <1>3, <2>2, <2>3, <2>4, <2>5
<1>6. QED
  BY <1>4, <1>5 DEF ReviewInv

\* A review replaces a card by one with the same id, or nothing.
LEMMA GradeKeeps == ASSUME RV!ReviewAssumption, ReviewInv, NEW r \in Reviewers, RV!Grade(r) PROVE ReviewInv'
<1>1. PICK grade \in {"Again", "Hard", "Good", "Easy"} : RV!UpdateCard(RV!Graded(held[r], grade))
  BY DEF RV!Grade
<1> DEFINE c == RV!Graded(held[r], grade)
           p == RV!Position(c.id)
<1>2. held[r] \in Cards /\ queue \in Seq(Cards) /\ clock \in Times
  BY DEF ReviewInv, ReviewTyped, RV!Grade
<1>3. c \in Cards
  BY <1>2, GradedTyped
<1>4. held' = [held EXCEPT ![r] = None] /\ UNCHANGED <<clock, put, taken>>
  BY DEF RV!Grade
<1>5. queue' = IF p = 0 THEN queue ELSE [queue EXCEPT ![p] = c]
  BY <1>1 DEF RV!UpdateCard
<1> HIDE DEF c
<1> DEFINE id == c.id
<1>6. p = 0 \/ (p \in 1 .. Len(queue) /\ queue[p].id = c.id)
  <2> HIDE DEF id
  <2>1. \/ RV!Position(id) = 0 /\ \A k \in 1 .. Len(queue) : queue[k].id # id
        \/ RV!Position(id) \in 1 .. Len(queue) /\ queue[RV!Position(id)].id = id
    BY <1>2, PositionFacts
  <2>2. QED
    BY <2>1 DEF id
<1> HIDE DEF p
<1>7. queue' \in Seq(Cards) /\ IdsOf(queue') = IdsOf(queue)
  <2>1. CASE p = 0
    BY <1>2, <1>5, <2>1
  <2>2. CASE p \in 1 .. Len(queue) /\ queue[p].id = c.id
    <3>1. p # 0 /\ queue' = [queue EXCEPT ![p] = c]
      BY <1>2, <1>5, <2>2
    <3>2. queue' \in Seq(Cards) /\ DOMAIN queue' = DOMAIN queue
      BY <1>2, <1>3, <2>2, <3>1
    <3>3. \A k \in DOMAIN queue : queue'[k].id = queue[k].id
      BY <1>2, <2>2, <3>1
    <3>4. QED
      BY <3>2, <3>3 DEF IdsOf
  <2>3. QED
    BY <1>6, <2>1, <2>2
<1>8. QED
  BY <1>4, <1>7 DEF ReviewInv, ReviewTyped, Balanced

\* A card that is removed is counted among those taken out.
LEMMA RemoveKeeps == ASSUME ReviewInv, NEW id, RV!RemoveCard(id) PROVE ReviewInv'
<1> DEFINE p == RV!Position(id)
<1>1. /\ p # 0 /\ queue' = RV!RemoveAt(queue, p) /\ taken' = Append(taken, id)
      /\ UNCHANGED <<clock, held, put>>
  BY DEF RV!RemoveCard
<1>2. queue \in Seq(Cards) /\ put \in Seq(CardIds) /\ taken \in Seq(CardIds)
  BY DEF ReviewInv, ReviewTyped
<1>3. p \in 1 .. Len(queue) /\ queue[p].id = id
  BY <1>1, <1>2, PositionFacts
<1> HIDE DEF p
<1>4. id \in CardIds /\ queue' \in Seq(Cards)
  <2>1. queue[p] \in Cards
    BY <1>2, <1>3
  <2>2. queue[p].id \in CardIds
    BY <2>1 DEF Cards
  <2>3. RV!RemoveAt(queue, p) \in Seq(Cards)
    BY <1>2, <1>3, RemovedAt
  <2>4. QED
    BY <1>1, <1>3, <2>2, <2>3
<1>5. /\ IdsOf(queue) \in Seq(CardIds) /\ Len(IdsOf(queue)) = Len(queue) /\ IdsOf(queue)[p] = id
  BY <1>2, <1>3, IdsTyped
<1>6. IdsOf(queue') = RV!RemoveAt(IdsOf(queue), p)
  BY <1>1, <1>2, <1>3, IdsRemoved
<1>7. Balanced'
  <2> SUFFICES ASSUME NEW x PROVE Count(IdsOf(queue'), x) + Count(taken', x) = Count(put', x)
    BY DEF Balanced
  <2>1. Count(IdsOf(queue), x) = Count(IdsOf(queue'), x) + IF id = x THEN 1 ELSE 0
    BY <1>3, <1>5, <1>6, CountRemoved
  <2>2. Count(taken', x) = Count(taken, x) + IF id = x THEN 1 ELSE 0
    BY <1>1, <1>2, <1>4, CountAppended
  <2>3. Count(IdsOf(queue), x) + Count(taken, x) = Count(put, x)
    BY DEF ReviewInv, Balanced
  <2>4. IdsOf(queue') \in Seq(CardIds)
    BY <1>3, <1>5, <1>6, CountRemoved
  <2>5. Count(IdsOf(queue'), x) \in Nat /\ Count(taken, x) \in Nat
    BY <1>2, <2>4, CountTyped
  <2>6. put' = put
    BY <1>1
  <2>7. QED
    BY <2>1, <2>2, <2>3, <2>5, <2>6
<1>8. ReviewTyped'
  BY <1>1, <1>2, <1>4 DEF ReviewInv, ReviewTyped
<1>9. QED
  BY <1>7, <1>8 DEF ReviewInv


\* A numbered list of cards is one of cards, whatever the text.
LEMMA NumberedTyped ==
  ASSUME RV!ReviewAssumption, clock \in Times, NEW name, NEW n \in 1 .. MaxFound,
         \A k \in 1 .. MaxFound : name \o <<k - 1>> \in CardIds
  PROVE  RV!Numbered(name, n) \in Seq(Cards)
<1> DEFINE id(k) == name \o <<k - 1>>
<1>0. MaxFound \in Nat /\ n \in Nat /\ \A k \in 1 .. n : k \in 1 .. MaxFound
  BY DEF RV!ReviewAssumption
<1>1. \A x \in CardIds : RV!Card(x, "Medium") \in Cards
  BY CardTyped
<1>2. \A k \in 1 .. n : RV!Card(id(k), "Medium") \in Cards
  BY <1>0, <1>1
<1>3. RV!Numbered(name, n) = [k \in 1 .. n |-> RV!Card(id(k), "Medium")]
  BY DEF RV!Numbered
<1>4. RV!Numbered(name, n) \in [1 .. n -> Cards]
  BY <1>2, <1>3
<1>5. \A m \in Nat : \A f \in [1 .. m -> Cards] : f \in Seq(Cards)
  OBVIOUS
<1>6. QED
  BY ONLY <1>0, <1>4, <1>5

\* How many of the cards that are due come before one.
Rank(t, k) == RV!Cardinality({j \in RV!Due(t) : RV!Earlier(j, k)})

\* The cards that are due come in an order, and each place of it is somebody's.
LEMMA DueRanked ==
  ASSUME queue \in Seq(Cards), NEW t \in Nat
  PROVE  /\ IsFiniteSet(RV!Due(t)) /\ Cardinality(RV!Due(t)) \in Nat /\ RV!Due(t) \subseteq 1 .. Len(queue)
         /\ \A j, k \in RV!Due(t) : j = k \/ RV!Earlier(j, k) \/ RV!Earlier(k, j)
         /\ \A j, k \in RV!Due(t) : RV!Earlier(j, k) => Rank(t, j) < Rank(t, k)
         /\ \A k \in RV!Due(t) : Rank(t, k) \in 0 .. Cardinality(RV!Due(t)) - 1
         /\ \A n \in 0 .. Cardinality(RV!Due(t)) - 1 : \E k \in RV!Due(t) : Rank(t, k) = n
<1> DEFINE D == RV!Due(t)
           N == Cardinality(D)
           Before(k) == {j \in D : RV!Earlier(j, k)}
<1>1. D \in SUBSET (1 .. Len(queue)) /\ \A k \in D : queue[k].due \in Nat /\ k \in Nat
  <2>1. \A c \in Cards : c.due \in Nat
    BY DEF Cards
  <2>2. \A k \in 1 .. Len(queue) : queue[k] \in Cards /\ k \in Nat
    OBVIOUS
  <2>3. DOMAIN queue = 1 .. Len(queue)
    OBVIOUS
  <2>4. QED
    BY <2>1, <2>2, <2>3 DEF RV!Due
<1>2. IsFiniteSet(D) /\ N \in Nat
  <2>1. IsFiniteSet(1 .. Len(queue))
    BY FS_Interval
  <2>2. QED
    BY <1>1, <2>1, FS_Subset, FS_CardinalityType
<1>3. \A j, k \in D : j = k \/ RV!Earlier(j, k) \/ RV!Earlier(k, j)
  BY <1>1 DEF RV!Earlier
<1>4. \A k \in D : ~RV!Earlier(k, k)
  BY <1>1 DEF RV!Earlier
<1>5. \A i, j, k \in D : RV!Earlier(i, j) /\ RV!Earlier(j, k) => RV!Earlier(i, k)
  BY <1>1 DEF RV!Earlier
<1>6. \A k : Rank(t, k) = Cardinality(Before(k))
  BY CardsCountedAlike DEF Rank
<1> HIDE DEF D
<1>7. ASSUME NEW k \in D PROVE IsFiniteSet(Before(k)) /\ Rank(t, k) \in Nat /\ Rank(t, k) \in 0 .. N - 1
  <2>1. Before(k) \in SUBSET D /\ Before(k) # D
    BY <1>4
  <2>2. IsFiniteSet(Before(k))
    BY <1>2, <2>1, FS_Subset
  <2>3. Cardinality(Before(k)) <= N /\ (N = Cardinality(Before(k)) => D = Before(k))
    BY <1>2, <2>1, FS_Subset
  <2>4. Cardinality(Before(k)) \in Nat
    BY <2>2, FS_CardinalityType
  <2>5. QED
    BY <1>2, <1>6, <2>1, <2>2, <2>3, <2>4
<1>8. ASSUME NEW j \in D, NEW k \in D, RV!Earlier(j, k) PROVE Rank(t, j) < Rank(t, k)
  <2>1. Before(j) \in SUBSET Before(k)
    BY <1>5, <1>8
  <2>2. j \in Before(k) /\ j \notin Before(j)
    BY <1>4, <1>8
  <2>3. /\ Cardinality(Before(j)) <= Cardinality(Before(k))
        /\ Cardinality(Before(k)) = Cardinality(Before(j)) => Before(k) = Before(j)
    BY <1>7, <2>1, FS_Subset
  <2>4. Rank(t, j) \in Nat /\ Rank(t, k) \in Nat
    BY <1>7
  <2>5. QED
    BY <1>6, <2>2, <2>3, <2>4
<1> HIDE DEF N
<1>9. ASSUME NEW n \in 0 .. N - 1 PROVE \E k \in D : Rank(t, k) = n
  <2> DEFINE rank == [k \in D |-> Rank(t, k)]
             P == 0 .. N - 1
  <2>1. IsFiniteSet(P) /\ Cardinality(P) = N
    BY <1>2, FS_Interval
  <2>2. rank \in [D -> P]
    BY <1>7
  <2>3. \A j, k \in D : rank[j] = rank[k] => j = k
    <3> SUFFICES ASSUME NEW j \in D, NEW k \in D, Rank(t, j) = Rank(t, k) PROVE j = k
      OBVIOUS
    <3>1. Rank(t, j) \in Nat /\ Rank(t, k) \in Nat
      BY <1>7
    <3>2. ~(Rank(t, j) < Rank(t, k)) /\ ~(Rank(t, k) < Rank(t, j))
      BY <3>1
    <3>3. QED
      BY <1>3, <1>8, <3>2
  <2> HIDE DEF rank, P
  <2>4. rank \in Injection(D, P)
    BY <2>2, <2>3 DEF Injection, IsInjective
  <2>5. Cardinality(D) = Cardinality(P)
    BY <2>1 DEF N
  <2>6. rank \in Surjection(D, P)
    BY <1>2, <2>1, <2>4, <2>5, FS_Injection, FS_Surjection
  <2>7. n \in P
    BY DEF P
  <2>8. PICK k \in D : rank[k] = n
    BY <2>6, <2>7 DEF Surjection
  <2>9. QED
    BY <2>8 DEF rank
<1>10. QED
  BY <1>1, <1>2, <1>3, <1>7, <1>8, <1>9 DEF D, N

\* Whom the cards that are due are handed out by: the n-th is the one n - 1 come before.
LEMMA HandedInOrder ==
  ASSUME queue \in Seq(Cards), NEW t \in Nat, NEW limit \in Nat
  PROVE  LET h == RV!NextDue(t, limit)
             N == Cardinality(RV!Due(t))
         IN  /\ Len(h) = IF limit < N THEN limit ELSE N
             /\ DOMAIN h = 1 .. Len(h)
             /\ \A n \in DOMAIN h : \E k \in RV!Due(t) : h[n] = queue[k] /\ Rank(t, k) = n - 1
<1> DEFINE D == RV!Due(t)
           N == Cardinality(D)
           many == RV!Cardinality(D)
           L == IF limit < many THEN limit ELSE many
           sorted == [n \in 1 .. L |-> CHOOSE k \in D : Rank(t, k) = n - 1]
           h == [n \in 1 .. L |-> queue[sorted[n]]]
<1>1. N \in Nat /\ \A n \in 0 .. N - 1 : \E k \in D : Rank(t, k) = n
  BY DueRanked
<1>2. many = N
  BY CardsCountedAlike
<1>3. RV!NextDue(t, limit) = h
  BY DEF RV!NextDue, Rank
<1> HIDE DEF D, N, many
<1>4. L \in Nat /\ \A n \in 1 .. L : n - 1 \in 0 .. N - 1
  BY <1>1, <1>2
<1>5. \A n \in 1 .. L : sorted[n] \in D /\ Rank(t, sorted[n]) = n - 1
  BY <1>1, <1>4
<1> HIDE DEF sorted, L
<1>6. DOMAIN h = 1 .. L /\ Len(h) = L /\ \A n \in 1 .. L : h[n] = queue[sorted[n]]
  BY <1>4
<1> HIDE DEF h
<1>7. \A n \in DOMAIN h : \E k \in D : h[n] = queue[k] /\ Rank(t, k) = n - 1
  BY <1>5, <1>6
<1>8. QED
  BY <1>2, <1>3, <1>6, <1>7 DEF D, N, L

\* A reviewer takes a card of the queue.
LEMMA TakeKeeps ==
  ASSUME RV!ReviewAssumption, ReviewInv, NEW r \in Reviewers, RV!Take(r) PROVE ReviewInv'
<1> DEFINE h == RV!NextDue(clock, 1)
<1>1. h # <<>> /\ held' = [held EXCEPT ![r] = h[1]] /\ UNCHANGED <<queue, clock, put, taken>>
  BY DEF RV!Take
<1>2. queue \in Seq(Cards) /\ clock \in Nat /\ held \in [Reviewers -> Cards \cup {None}]
  BY DEF ReviewInv, ReviewTyped, RV!ReviewAssumption
<1> DEFINE N == Cardinality(RV!Due(clock))
<1>3. N \in Nat /\ RV!Due(clock) \subseteq 1 .. Len(queue)
  BY <1>2, DueRanked
<1>4. /\ Len(h) = (IF 1 < N THEN 1 ELSE N)
      /\ DOMAIN h = 1 .. Len(h)
      /\ \A n \in DOMAIN h : \E k \in RV!Due(clock) : h[n] = queue[k] /\ Rank(clock, k) = n - 1
  BY <1>2, HandedInOrder
<1>5. h = [n \in 1 .. Len(h) |-> h[n]]
  BY <1>4 DEF RV!NextDue
<1> HIDE DEF h, N
<1>6. 1 \in DOMAIN h
  <2>1. Len(h) \in {0, 1}
    BY <1>3, <1>4
  <2>2. CASE Len(h) = 0
    BY <1>1, <1>5, <2>2
  <2>3. CASE Len(h) = 1
    BY <1>4, <2>3
  <2>4. QED
    BY <2>1, <2>2, <2>3
<1>7. PICK k \in RV!Due(clock) : h[1] = queue[k]
  BY <1>4, <1>6
<1>8. h[1] \in Cards
  BY <1>2, <1>3, <1>7
<1>9. QED
  BY <1>1, <1>2, <1>8 DEF ReviewInv, ReviewTyped, Balanced

\* The inductive invariant holds of every behaviour of the queue.
LEMMA QueueInvariant == ASSUME RV!ReviewAssumption PROVE RV!ReviewSpec => []ReviewInv
<1>1. RV!ReviewInit => ReviewInv
  <2> SUFFICES ASSUME RV!ReviewInit PROVE ReviewInv
    OBVIOUS
  <2>1. /\ queue = <<>> /\ clock \in Times /\ held = [r \in Reviewers |-> None]
        /\ put = <<>> /\ taken = <<>>
    BY DEF RV!ReviewInit
  <2>2. IdsOf(<<>>) = <<>>
    BY DEF IdsOf
  <2>3. \A x : Count(<<>>, x) = 0
    BY FS_EmptySet DEF Count, PlacesOf
  <2>4. QED
    BY <2>1, <2>2, <2>3 DEF ReviewInv, ReviewTyped, Balanced
<1>2. ReviewInv /\ [RV!ReviewNext]_(RV!reviewVars) => ReviewInv'
  <2> SUFFICES ASSUME ReviewInv, [RV!ReviewNext]_(RV!reviewVars) PROVE ReviewInv'
    OBVIOUS
  <2>0. clock \in Times
    BY DEF ReviewInv, ReviewTyped
  <2>1. ASSUME NEW i \in Carded, RV!CardOfItem(i) PROVE ReviewInv'
    <3> DEFINE id == <<"card", i>>
               c == RV!Card(id, RV!Difficulty(CardKind[i]))
    <3>1. id \in CardIds
      BY DEF CardIds
    <3>2. RV!Difficulty(CardKind[i]) \in {"Easy", "Medium", "Hard", "Critical"}
      BY DEF RV!Difficulty
    <3>3. c \in Cards
      <4> HIDE DEF id
      <4>1. QED
        BY <2>0, <3>1, <3>2, CardTyped
    <3>4. RV!Enqueue(<<c>>)
      BY <2>1 DEF RV!CardOfItem
    <3> HIDE DEF c
    <3>5. <<c>> \in Seq(Cards)
      BY <3>3
    <3>6. QED
      BY <3>4, <3>5, EnqueueKeeps
  <2>2. ASSUME RV!CardsOfWiki PROVE ReviewInv'
    <3>1. PICK n \in 1 .. MaxFound : RV!Enqueue(RV!Numbered(<<"wiki", clock>>, n))
      BY <2>2 DEF RV!CardsOfWiki
    <3>2. \A k \in 1 .. MaxFound : <<"wiki", clock>> \o <<k - 1>> \in CardIds
      BY <2>0 DEF CardIds
    <3>3. RV!Numbered(<<"wiki", clock>>, n) \in Seq(Cards)
      BY <2>0, <3>2, NumberedTyped
    <3>4. QED
      BY <3>1, <3>3, EnqueueKeeps
  <2>3. ASSUME NEW s \in Titles, RV!CardsOfSession(s) PROVE ReviewInv'
    <3>1. PICK n \in 1 .. MaxFound : RV!Enqueue(RV!Numbered(<<"session", s>>, n))
      BY <2>3 DEF RV!CardsOfSession
    <3>2. \A k \in 1 .. MaxFound : <<"session", s>> \o <<k - 1>> \in CardIds
      BY DEF CardIds
    <3>3. RV!Numbered(<<"session", s>>, n) \in Seq(Cards)
      BY <2>0, <3>2, NumberedTyped
    <3>4. QED
      BY <3>1, <3>3, EnqueueKeeps
  <2>4. ASSUME NEW r \in Reviewers, RV!Take(r) PROVE ReviewInv'
    BY <2>4, TakeKeeps
  <2>5. ASSUME NEW r \in Reviewers, RV!Grade(r) PROVE ReviewInv'
    BY <2>5, GradeKeeps
  <2>6. ASSUME NEW id, RV!RemoveCard(id) PROVE ReviewInv'
    BY <2>6, RemoveKeeps
  <2>7. CASE RV!Pass
    BY <2>7 DEF RV!Pass, ReviewInv, ReviewTyped, Balanced
  <2>8. CASE UNCHANGED RV!reviewVars
    BY <2>8 DEF RV!reviewVars, ReviewInv, ReviewTyped, Balanced
  <2>9. QED
    BY <2>1, <2>2, <2>3, <2>4, <2>5, <2>6, <2>7, <2>8 DEF RV!ReviewNext
<1>3. QED
  BY <1>1, <1>2, PTL DEF RV!ReviewSpec

\* CardsCounted: a card that was removed is not brought back by the review of a copy,
\* and no review makes a card disappear, however many cards have the same id.
THEOREM QueueCountsCards == ASSUME RV!ReviewAssumption PROVE RV!ReviewSpec => []RV!CardsCounted
<1>1. ReviewInv => RV!CardsCounted
  <2> SUFFICES ASSUME ReviewInv, NEW id
               PROVE  RV!Often([k \in DOMAIN queue |-> queue[k].id], id)
                        = RV!Often(put, id) - RV!Often(taken, id)
    BY DEF RV!CardsCounted
  <2>1. \A s : RV!Often(s, id) = Count(s, id)
    BY CardsCountedAlike DEF RV!Often, Count, PlacesOf
  <2>2. Count(IdsOf(queue), id) + Count(taken, id) = Count(put, id)
    BY DEF ReviewInv, Balanced
  <2>3. queue \in Seq(Cards) /\ put \in Seq(CardIds) /\ taken \in Seq(CardIds)
    BY DEF ReviewInv, ReviewTyped
  <2>4. IdsOf(queue) \in Seq(CardIds)
    BY <2>3, IdsTyped
  <2>5. Count(IdsOf(queue), id) \in Nat /\ Count(taken, id) \in Nat /\ Count(put, id) \in Nat
    BY <2>3, <2>4, CountTyped
  <2>6. Count(IdsOf(queue), id) = Count(put, id) - Count(taken, id)
    BY <2>2, <2>5
  <2>7. QED
    BY <2>1, <2>6 DEF IdsOf
<1>2. QED
  BY <1>1, QueueInvariant, PTL

\* EarliestFirst: whatever the order in which reviews have rescheduled the cards, nobody
\* is handed one while one that was due earlier is left out.
THEOREM QueueIsFair == ASSUME RV!ReviewAssumption PROVE RV!ReviewSpec => []RV!EarliestFirst
<1>1. ReviewInv => RV!EarliestFirst
  <2> SUFFICES ASSUME ReviewInv, NEW n \in 0 .. Len(queue)
               PROVE  LET handed == RV!NextDue(clock, n) IN
                        /\ \A c \in RV!ToSet(queue) \ RV!ToSet(handed), d \in RV!ToSet(handed) : c.due >= d.due
                        /\ Len(handed) < n => \A c \in RV!ToSet(queue) \ RV!ToSet(handed) : c.due > clock
    BY DEF RV!EarliestFirst
  <2> DEFINE h == RV!NextDue(clock, n)
             D == RV!Due(clock)
             N == Cardinality(D)
  <2>1. queue \in Seq(Cards) /\ clock \in Nat
    BY DEF ReviewInv, ReviewTyped, RV!ReviewAssumption
  <2>2. n \in Nat /\ DOMAIN queue = 1 .. Len(queue) /\ \A k \in DOMAIN queue : queue[k].due \in Nat
    <3>1. \A c \in Cards : c.due \in Nat
      BY DEF Cards
    <3>2. QED
      BY <2>1, <3>1
  <2>3. /\ N \in Nat /\ D \subseteq DOMAIN queue
        /\ \A j, k \in D : j = k \/ RV!Earlier(j, k) \/ RV!Earlier(k, j)
        /\ \A j, k \in D : RV!Earlier(j, k) => Rank(clock, j) < Rank(clock, k)
        /\ \A k \in D : Rank(clock, k) \in 0 .. N - 1
    BY <2>1, <2>2, DueRanked
  <2>4. \A k \in DOMAIN queue : k \in D <=> clock >= queue[k].due
    BY DEF RV!Due
  <2>5. /\ Len(h) = (IF n < N THEN n ELSE N) /\ DOMAIN h = 1 .. Len(h)
        /\ \A m \in DOMAIN h : \E k \in D : h[m] = queue[k] /\ Rank(clock, k) = m - 1
    BY <2>1, <2>2, HandedInOrder
  <2>6. \A c : c \in RV!ToSet(queue) <=> \E k \in DOMAIN queue : c = queue[k]
    BY DEF RV!ToSet
  <2>7. \A c : c \in RV!ToSet(h) <=> \E m \in DOMAIN h : c = h[m]
    BY DEF RV!ToSet
  <2>8. \A j, k \in D : RV!Earlier(j, k) => queue[j].due <= queue[k].due
    BY <2>2, <2>3 DEF RV!Earlier
  <2> HIDE DEF h, D, N
  <2>9. ASSUME NEW k \in D, Rank(clock, k) < Len(h) PROVE queue[k] \in RV!ToSet(h)
    <3> DEFINE m == Rank(clock, k) + 1
    <3>1. m \in DOMAIN h
      BY <2>2, <2>3, <2>5, <2>9
    <3>2. PICK j \in D : h[m] = queue[j] /\ Rank(clock, j) = m - 1
      BY <2>5, <3>1
    <3>3. Rank(clock, j) = Rank(clock, k) /\ Rank(clock, j) \in Int
      BY <2>3, <3>2
    <3>4. j = k
      BY <2>3, <3>3
    <3>5. QED
      BY <2>7, <3>1, <3>2, <3>4
  <2>10. ASSUME NEW c \in RV!ToSet(queue) \ RV!ToSet(h), NEW d \in RV!ToSet(h) PROVE c.due >= d.due
    <3>1. PICK k \in DOMAIN queue : c = queue[k]
      BY <2>6
    <3>2. PICK m \in DOMAIN h : d = h[m]
      BY <2>7
    <3>3. PICK j \in D : d = queue[j] /\ Rank(clock, j) = m - 1
      BY <2>5, <3>2
    <3>4. queue[j].due \in Nat /\ queue[k].due \in Nat /\ clock >= queue[j].due
      BY <2>2, <2>3, <2>4
    <3>5. CASE k \notin D
      <4>1. ~(clock >= queue[k].due)
        BY <2>4, <3>5
      <4>2. QED
        BY <2>1, <3>1, <3>3, <3>4, <4>1
    <3>6. CASE k \in D
      <4>1. ~(Rank(clock, k) < Len(h))
        BY <2>9, <3>1, <3>6
      <4>2. Rank(clock, j) < Len(h) /\ Rank(clock, j) \in Nat /\ Rank(clock, k) \in Nat
        BY <2>2, <2>3, <2>5, <3>2, <3>3, <3>6
      <4>3. Len(h) \in Nat
        BY <2>2, <2>3, <2>5
      <4>4. Rank(clock, j) < Rank(clock, k)
        BY <4>1, <4>2, <4>3
      <4>5. ~(Rank(clock, k) < Rank(clock, j)) /\ j # k
        BY <4>2, <4>4
      <4>6. RV!Earlier(j, k)
        BY <2>3, <3>6, <4>5
      <4>7. QED
        BY <2>8, <3>1, <3>3, <3>4, <3>6, <4>6
    <3>7. QED
      BY <3>5, <3>6
  <2>11. ASSUME Len(h) < n, NEW c \in RV!ToSet(queue) \ RV!ToSet(h) PROVE c.due > clock
    <3>1. PICK k \in DOMAIN queue : c = queue[k]
      BY <2>6
    <3>2. Len(h) = N
      BY <2>2, <2>3, <2>5, <2>11
    <3>3. k \notin D
      <4> SUFFICES ASSUME k \in D PROVE FALSE
        OBVIOUS
      <4>1. Rank(clock, k) < Len(h)
        BY <2>3, <3>2
      <4>2. QED
        BY <2>9, <3>1, <4>1
    <3>4. ~(clock >= queue[k].due) /\ queue[k].due \in Nat
      BY <2>2, <2>4, <3>3
    <3>5. QED
      BY <2>1, <3>1, <3>4
  <2>12. QED
    BY <2>10, <2>11 DEF h
<1>2. QED
  BY <1>1, QueueInvariant, PTL

------------------------------------------------------------------------------
(* The composition *)

\* A behaviour of the composition is one of a single service.
LEMMA OneService == [Next]_vars => scene' = scene
BY DEF Next, vars, Patches, Index, Expiring, Ingest, Memories, ProjectNotes, Clusters, Reviews

\* Commits form one line, wherever patches are committed.
THEOREM KnowledgeInOneLine == Spec => []OneLine
<1>1. Init /\ scene = "patches" => WP!Init
  BY DEF Init
<1>2. scene = "patches" /\ [Next]_vars => [WP!Next]_(WP!vars)
  BY DEF Next, vars, Patches, Index, Expiring, Ingest, Memories, ProjectNotes, Clusters, Reviews, patchVars,
      WP!vars, WP!store
<1>3. [Next]_vars => (scene = "patches" <=> (scene = "patches")')
  BY OneService
<1>4. WP!Spec => []WP!OneLine
  BY CommitsFormOneLine, KnowledgeAssumption DEF KnowledgeAssumption
<1>5. QED
  BY <1>1, <1>2, <1>3, <1>4, PTL DEF Spec, WP!Spec, OneLine

\* Stored claims cite what is stored, wherever patches are committed.
THEOREM KnowledgeBacksClaims == Spec => []ClaimsBacked
<1>1. Init /\ scene = "patches" => WP!Init
  BY DEF Init
<1>2. scene = "patches" /\ [Next]_vars => [WP!Next]_(WP!vars)
  BY DEF Next, vars, Patches, Index, Expiring, Ingest, Memories, ProjectNotes, Clusters, Reviews, patchVars,
      WP!vars, WP!store
<1>3. [Next]_vars => (scene = "patches" <=> (scene = "patches")')
  BY OneService
<1>4. WP!Spec => []WP!ClaimsBacked
  BY StoredClaimsBacked, KnowledgeAssumption DEF KnowledgeAssumption
<1>5. QED
  BY <1>1, <1>2, <1>3, <1>4, PTL DEF Spec, WP!Spec, ClaimsBacked

\* A withdrawn source stays out, wherever documents are indexed.
THEOREM KnowledgeForgetsWithdrawn == Spec => []WithdrawnStaysOut
<1>1. Init /\ scene = "index" => IX!Init
  BY DEF Init
<1>2. scene = "index" /\ [Next]_vars => [IX!Next]_(IX!vars)
  BY DEF Next, vars, Patches, Index, Expiring, Ingest, Memories, ProjectNotes, Clusters, Reviews, indexVars,
      IX!vars
<1>3. [Next]_vars => (scene = "index" <=> (scene = "index")')
  BY OneService
<1>4. IX!Spec => []IX!WithdrawnStaysOut
  BY IndexForgetsWithdrawn
<1>5. QED
  BY <1>1, <1>2, <1>3, <1>4, PTL DEF Spec, IX!Spec, WithdrawnStaysOut

\* A session is found exactly while it is active, wherever sessions are kept.
THEOREM KnowledgeOfSessions == Spec => []SessionsAgree
<1>1. Init /\ scene = "sessions" => SX!Init
  BY DEF Init
<1>2. scene = "sessions" /\ [Next]_vars => [SX!Next]_(SX!vars)
  BY DEF Next, vars, Patches, Index, Expiring, Ingest, Memories, ProjectNotes, Clusters, Reviews, sessionVars,
      SX!vars
<1>3. [Next]_vars => (scene = "sessions" <=> (scene = "sessions")')
  BY OneService
<1>4. SX!Spec => []SX!SessionsAgree
  BY SessionStoresAgree, KnowledgeAssumption DEF KnowledgeAssumption
<1>5. QED
  BY <1>1, <1>2, <1>3, <1>4, PTL DEF Spec, SX!Spec, SessionsAgree

\* What is reported as stored is whole, wherever sources are imported.
THEOREM KnowledgeIsWhole == Spec => []StoredIsWhole
<1>1. Init /\ scene = "ingest" => SI!Init
  BY DEF Init
<1>2. scene = "ingest" /\ [Next]_vars => [SI!Next]_(SI!vars)
  BY DEF Next, vars, Patches, Index, Expiring, Ingest, Memories, ProjectNotes, Clusters, Reviews, ingestVars,
      SI!vars
<1>3. [Next]_vars => (scene = "ingest" <=> (scene = "ingest")')
  BY OneService
<1>4. SI!Spec => []SI!StoredIsWhole
  BY IngestStoresWhole, KnowledgeAssumption DEF KnowledgeAssumption
<1>5. QED
  BY <1>1, <1>2, <1>3, <1>4, PTL DEF Spec, SI!Spec, StoredIsWhole

\* A disputed note stays out, wherever notes are kept.
THEOREM KnowledgeOfDisputes == Spec => []DisputedStaysOut
<1>1. Init /\ scene = "notes" => NS!NotesInit
  BY DEF Init
<1>2. scene = "notes" /\ [Next]_vars => [NS!NotesNext]_(NS!noteVars)
  BY DEF Next, vars, Patches, Index, Expiring, Ingest, Memories, ProjectNotes, Clusters, Reviews, noteVars,
      NS!noteVars
<1>3. [Next]_vars => (scene = "notes" <=> (scene = "notes")')
  BY OneService
<1>4. NS!NotesSpec => []NS!DisputedStaysOut
  BY NotesStayDisputed, KnowledgeAssumption DEF KnowledgeAssumption
<1>5. QED
  BY <1>1, <1>2, <1>3, <1>4, PTL DEF Spec, NS!NotesSpec, DisputedStaysOut

\* Within a stay, what memory gave up stays given up and what came unchecked was checked,
\* and what should be spared is, wherever memories are kept.
THEOREM KnowledgeOfMemory == Spec => []MemoryHolds
<1>1. Init /\ scene = "memory" => MS!MemoryInit
  BY DEF Init
<1>2. scene = "memory" /\ [Next]_vars => [MS!MemoryNext]_(MS!memoryVars)
  BY DEF Next, vars, Patches, Index, Expiring, Ingest, Memories, ProjectNotes, Clusters, Reviews, memoryVars,
      MS!memoryVars
<1>3. [Next]_vars => (scene = "memory" <=> (scene = "memory")')
  BY OneService
<1>4. MS!MemorySpec => [](MS!DeadStayDead /\ MS!EveryStayChecked /\ MS!SparesTheActive)
  BY MemoryKeepsItsDead, KnowledgeAssumption DEF KnowledgeAssumption
<1>5. QED
  BY <1>1, <1>2, <1>3, <1>4, PTL DEF Spec, MS!MemorySpec, MemoryHolds

\* Every item is in one topic and later ones join the closest, wherever topics are made.
THEOREM KnowledgeOfTopics == Spec => []TopicsHold
<1>1. Init /\ scene = "topics" => TC!TopicsInit
  BY DEF Init
<1>2. scene = "topics" /\ [Next]_vars => [TC!TopicsNext]_(TC!topicVars)
  BY DEF Next, vars, Patches, Index, Expiring, Ingest, Memories, ProjectNotes, Clusters, Reviews, topicVars,
      TC!topicVars
<1>3. [Next]_vars => (scene = "topics" <=> (scene = "topics")')
  BY OneService
<1>4. TC!TopicsSpec => [](TC!TopicsPartition /\ TC!JoinsTheClosest)
  BY ClustersHold, KnowledgeAssumption DEF KnowledgeAssumption
<1>5. QED
  BY <1>1, <1>2, <1>3, <1>4, PTL DEF Spec, TC!TopicsSpec, TopicsHold

\* No review brings a removed card back and the longest overdue comes first, wherever
\* cards are reviewed.
THEOREM KnowledgeOfReviews == Spec => []ReviewsHold
<1>1. Init /\ scene = "review" => RV!ReviewInit
  BY DEF Init
<1>2. scene = "review" /\ [Next]_vars => [RV!ReviewNext]_(RV!reviewVars)
  BY DEF Next, vars, Patches, Index, Expiring, Ingest, Memories, ProjectNotes, Clusters, Reviews, reviewVars,
      RV!reviewVars
<1>3. [Next]_vars => (scene = "review" <=> (scene = "review")')
  BY OneService
<1>4. RV!ReviewSpec => []RV!CardsCounted
  BY QueueCountsCards, KnowledgeAssumption DEF KnowledgeAssumption
<1>5. RV!ReviewSpec => []RV!EarliestFirst
  BY QueueIsFair, KnowledgeAssumption DEF KnowledgeAssumption
<1>6. QED
  BY <1>1, <1>2, <1>3, <1>4, <1>5, PTL DEF Spec, RV!ReviewSpec, ReviewsHold

==============================================================================
