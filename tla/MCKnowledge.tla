----------------------------- MODULE MCKnowledge -----------------------------
(* Small instances of the eight services of Knowledge for TLC. *)
EXTENDS Knowledge, TLC

CONSTANTS c1, c2, i1, i2, i3, m, n, p, q, r1, r2

------------------------------------------------------------------------------
(* Wiki patches: two patches of two pages, prepared again with other contents *)
(* and with citation ids that other claims use.                               *)

Claim(id, page, cites) == [id |-> id, page |-> page, cites |-> cites]
Cited(id, claim, from, to, framed) ==
  [id |-> id, claim |-> claim, source |-> "s1", from |-> from, to |-> to, framed |-> framed]
Proposal(patch, page, cl, ci) ==
  [patch |-> patch, page |-> page, claims |-> cl, citations |-> ci, home |-> "w", actor |-> "a"]

MCProposals == {
  Proposal("p1", "A", {Claim("c1", "A", {"x1"})}, {Cited("x1", "c1", 0, 1, TRUE)}),
  Proposal("p2", "B", {Claim("c2", "B", {"x1", "x2"})}, {Cited("x1", "c2", 0, 2, TRUE), Cited("x2", "c2", 1, 3, FALSE)}),
  Proposal("p1", "B", {Claim("c2", "B", {"x4"})}, {}),
  Proposal("p2", "A", {Claim("c1", "A", {"x3"})}, {Cited("x3", "c1", 1, 3, TRUE)})}

MCSources == {"s1"}
MCSizeOf == [s \in MCSources |-> 3]
MCHome == [s \in MCSources |-> "w"]
MCFrameOf == [s \in MCSources |-> [from |-> 0, to |-> 2]]

------------------------------------------------------------------------------
(* The index: two documents of one source, one of which cites another source. *)

Document(id, source, citation, about, degraded) ==
  [id |-> id, scope |-> "A", source |-> source, citation |-> citation, about |-> about,
   degraded |-> degraded, text |-> TRUE]

MCDocuments ==
  {Document(1, "s1", "c1", "s1", FALSE), Document(2, "s1", "c1", "s2", FALSE),
   Document(3, "s2", "c2", "s2", TRUE)}

------------------------------------------------------------------------------
(* Ingestion: two imports of one content, one of another, in and out of the *)
(* sandbox.                                                                 *)

MCImports == {i1, i2, i3}
MCContents == {c1, c2}
MCContentOf == i1 :> c1 @@ i2 :> c1 @@ i3 :> c2
MCKindOf == c1 :> "markdown" @@ c2 :> "binary"
MCSandboxed == {i1, i3}
MCPermitted == {i1}

------------------------------------------------------------------------------
(* Memory: three items that say the same and a store that holds two.  The     *)
(* third is proposed as Active, and only a session that ends brings it in.     *)

Item(id, as, wording, proposed, due) ==
  [id |-> id, status |-> as, content |-> "p", scope |-> "A", trust |-> 1, cited |-> FALSE,
   wording |-> wording, at |-> proposed, due |-> due]

MCItems ==
  {Item("a", "Proposed", "plain", 0, 9), Item("b", "Proposed", "plain", 1, 1),
   Item("c", "Active", "forbidden", 0, 9)}

------------------------------------------------------------------------------
(* Notes: two notes, two texts, one of which a claim speaks of. *)

MCNoteIds == {m, n}
MCTexts == {p, q}
MCClaimed == {q}

------------------------------------------------------------------------------
(* Topics: all lists of up to three items with keywords of three, similar from *)
(* one third on, and what comes later.                                         *)

MCArrivals == SUBSET {1, 2, 3}
MCLists == UNION {[1 .. k -> MCArrivals \ {{}}] : k \in 0 .. 3}
MCAbove == <<1, 3>>

------------------------------------------------------------------------------
(* Reviews: two reviewers, cards of one item, of a page and of a session. *)

MCReviewers == {r1, r2}
MCCardKind == "a" :> "SafetyRule" @@ "b" :> "UserPreference"

=============================================================================
