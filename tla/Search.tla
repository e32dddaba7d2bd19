-------------------------------- MODULE Search --------------------------------
(***************************************************************************)
(* The candidate index (crates/seaki-index/src/lib.rs) and the queries of  *)
(* the core on it (crates/seaki-core/src/lib.rs).  Ranking is abstracted:  *)
(* every document here matches the query, and all fit under the limit.     *)
(***************************************************************************)
EXTENDS Naturals

CONSTANTS
  Documents,  \* [id, scope, source, citation, about, degraded, text]: "citation" is
              \* its id or None, "about" the source the citation names, "text" FALSE
              \* for an empty body
  Scopes,     \* a workspace with an account
  None

VARIABLES
  indexed,     \* document -> [visibility, source]: what the index holds
  generation,  \* scope -> its status, "none" before the first
  withdrawn    \* history: the <<scope, source>> tombstoned since the last rebuild

vars == <<indexed, generation, withdrawn>>

Init ==
  /\ indexed = [d \in {} |-> None]
  /\ generation = [s \in Scopes |-> "none"]
  /\ withdrawn = {}

------------------------------------------------------------------------------
(* Queries *)

In(scope) == {d \in DOMAIN indexed : d.scope = scope}

\* Mutant: the visibility of the document alone.
ShownByVisibility(d) == indexed[d].visibility = "visible"

\* is_candidate_visible
Shown(d) == indexed[d].visibility = "visible" /\ indexed[d].source = "active"

Candidates(scope) == {d \in In(scope) : Shown(d)}

\* authorize_candidates: of the ids a client names, what may be shown now.
Authorized(scope, asked) ==
  {d \in In(scope) \cap asked : Shown(d) /\ d.citation # None /\ d.about = d.source}

\* compose_answer: the candidates are searched for again and cut down to the ids
\* the client sent, if it sent any.
Answer(scope, asked) ==
  LET wanted == IF asked = {} THEN Candidates(scope) ELSE Candidates(scope) \cap asked
      used == {d \in Authorized(scope, wanted) : d.text}
      refs == {d \in used : ~d.degraded}
  IN [text |-> used, refs |-> refs,
      status |-> IF refs = {} THEN "no_access"
                 ELSE IF generation[scope] = "fresh" THEN "composed" ELSE "degraded"]

\* resolve_citation: the first visible document with the citation decides (ids are
\* unique in the index).
Resolved(scope, citation) ==
  LET with == {d \in Candidates(scope) : d.citation = citation} IN
  {d \in with : (\A e \in with : d.id <= e.id) /\ d.about = d.source}

------------------------------------------------------------------------------
(* The index *)

Sources == {d.source : d \in Documents}

\* replace_scope: what the scope held is dropped.  Documents of another scope are
\* an error and nothing changes, so only D within the scope matter.
ReplaceScope(scope) ==
  /\ \E D \in SUBSET {d \in Documents : d.scope = scope} :
       indexed' = [d \in (DOMAIN indexed \ In(scope)) \cup D |->
                     IF d \in D THEN [visibility |-> "visible", source |-> "active"]
                     ELSE indexed[d]]
  /\ generation' = [generation EXCEPT ![scope] = "fresh"]
  /\ withdrawn' = {w \in withdrawn : w[1] # scope}

MarkStatus(scope, status) ==
  /\ generation[scope] # "none"
  /\ generation' = [generation EXCEPT ![scope] = status]

\* mark_visibility, of a document the index need not hold.
MarkVisibility(scope) ==
  /\ \E d \in Documents, v \in {"visible", "restricted", "tombstoned"} :
       /\ d.scope = scope
       /\ indexed' = IF d \in DOMAIN indexed
                       THEN [indexed EXCEPT ![d].visibility = v] ELSE indexed
       /\ MarkStatus(scope, IF v = "tombstoned" THEN "cleanup" ELSE "stale")
  /\ UNCHANGED withdrawn

\* mark_source_tombstoned
TombstoneSource(scope) ==
  /\ \E s \in Sources :
       /\ indexed' = [d \in DOMAIN indexed |->
            IF d.scope = scope /\ d.source = s
              THEN [visibility |-> "tombstoned", source |-> "tombstoned"] ELSE indexed[d]]
       /\ withdrawn' = withdrawn \cup {<<scope, s>>}
  /\ MarkStatus(scope, "cleanup")

\* mark_stale and mark_failed
MarkBad(scope) ==
  /\ \E status \in {"stale", "failed"} : MarkStatus(scope, status)
  /\ UNCHANGED <<indexed, withdrawn>>

Next ==
  \E s \in Scopes :
    \/ ReplaceScope(s)
    \/ MarkVisibility(s)
    \/ TombstoneSource(s)
    \/ MarkBad(s)

Spec == Init /\ [][Next]_vars

------------------------------------------------------------------------------
(* What is asked of it *)

\* After a source was tombstoned nothing of it is answered on or resolved in that
\* scope until the scope is rebuilt, even when the visibility of a document of its
\* is set again, and no answer claims to be from a fresh index ("after a tombstone
\* the index must be cleaned or marked", docs/architecture/wiki-source-citation.md:101).
WithdrawnStaysOut ==
  \A w \in withdrawn :
    LET answer == Answer(w[1], {}) IN
    /\ \A d \in answer.text : d.source # w[2]
    /\ \A d \in In(w[1]) : \A r \in Resolved(w[1], d.citation) : r.source # w[2]
    /\ answer.status # "composed"

=============================================================================
