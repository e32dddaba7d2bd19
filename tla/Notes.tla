-------------------------------- MODULE Notes --------------------------------
(***************************************************************************)
(* The store of project notes and its part of the index                    *)
(* (crates/seaki-memory/src/note.rs).  The index is rebuilt only when      *)
(* somebody asks for it; whatever happens to a note in between, a search   *)
(* reads the index for the text and the store for the rest.                *)
(***************************************************************************)
EXTENDS Naturals

CONSTANTS
  NoteIds,    \* in the order they are given out, a note never comes back
  Texts,      \* what a note may say
  Claimed,    \* the texts that share a word with a claim of the wiki
  MaxEdits,   \* bound: changes of a note's text
  None

Status == {"Proposed", "Scanning", "SourceChecking", "Approved", "Active", "Conflict", "Stale"}
Note   == [text : Texts, status : Status]

\* What the theorem in KnowledgeProofs needs.
NotesAssumption == None \notin Note

VARIABLES
  notes,      \* note id -> [text, status], or None
  indexed,    \* note id -> the text its document holds, or None
  used,       \* the ids that were given out
  edits,
  disputed    \* history: the notes whose text a check found in conflict

noteVars == <<notes, indexed, used, edits, disputed>>

\* Mutant: a stale note is made Active again, as a memory item is.
RevivesStale(from) ==
  IF from = "Proposed" THEN {"Scanning"}
  ELSE IF from = "Scanning" THEN {"SourceChecking"}
  ELSE IF from = "SourceChecking" THEN {"Approved", "Conflict"}
  ELSE IF from \in {"Approved", "Stale"} THEN {"Active"}
  ELSE IF from \in {"Active", "Conflict"} THEN {"Stale"} ELSE {}

\* NoteStatus::can_transition_to
NoteAfter(from) ==
  IF from = "Proposed" THEN {"Scanning"}
  ELSE IF from = "Scanning" THEN {"SourceChecking"}
  ELSE IF from = "SourceChecking" THEN {"Approved", "Conflict"}
  ELSE IF from = "Approved" THEN {"Active"}
  ELSE IF from \in {"Active", "Conflict"} THEN {"Stale"} ELSE {}

NotesInit ==
  /\ notes = [n \in NoteIds |-> None] /\ indexed = [n \in NoteIds |-> None]
  /\ used = {} /\ edits = 0 /\ disputed = {}

CreateNote(n, text) ==
  /\ n \notin used /\ used' = used \cup {n}
  /\ notes' = [notes EXCEPT ![n] = [text |-> text, status |-> "Proposed"]]
  /\ UNCHANGED <<indexed, edits, disputed>>

\* update_note changes the text and keeps the status.
UpdateNote(n, text) ==
  /\ notes[n] # None /\ edits < MaxEdits /\ edits' = edits + 1
  /\ notes' = [notes EXCEPT ![n].text = text]
  /\ UNCHANGED <<indexed, used, disputed>>

DeleteNote(n) ==
  /\ notes[n] # None
  /\ notes' = [notes EXCEPT ![n] = None]
  /\ UNCHANGED <<indexed, used, edits, disputed>>

TransitionNote(n) ==
  /\ notes[n] # None
  /\ \E to \in NoteAfter(notes[n].status) : notes' = [notes EXCEPT ![n].status = to]
  /\ UNCHANGED <<indexed, used, edits, disputed>>

\* check_source_conflicts: from whatever status.
CheckSourceConflicts(n) ==
  /\ notes[n] # None /\ notes[n].text \in Claimed
  /\ notes' = [notes EXCEPT ![n].status = "Conflict"]
  /\ disputed' = disputed \cup {n}
  /\ UNCHANGED <<indexed, used, edits>>

RebuildIndex ==
  /\ indexed' = [n \in NoteIds |-> IF notes[n] = None THEN None ELSE notes[n].text]
  /\ UNCHANGED <<notes, used, edits, disputed>>

\* search_notes drops what the store does not know any more.
Shown(n) == notes[n] # None

\* What a search shows: the text of the index with the status of the store.
Results == {n \in NoteIds : indexed[n] # None /\ Shown(n)}

NotesNext ==
  \/ \E n \in NoteIds, text \in Texts : CreateNote(n, text)
  \/ \E n \in NoteIds, text \in Texts : UpdateNote(n, text)
  \/ \E n \in NoteIds : DeleteNote(n)
  \/ \E n \in NoteIds : TransitionNote(n)
  \/ \E n \in NoteIds : CheckSourceConflicts(n)
  \/ RebuildIndex

NotesSpec == NotesInit /\ [][NotesNext]_noteVars

------------------------------------------------------------------------------
(* What is asked of it *)

\* A note that was found in conflict with the wiki never becomes Active again, even
\* when its text is changed afterwards, and a search never shows a deleted note,
\* however old the index is.
DisputedStaysOut ==
  /\ \A n \in disputed : notes[n] # None => notes[n].status \in {"Conflict", "Stale"}
  /\ \A n \in Results : notes[n] # None

\* The text a search shows is the text of the note.
ShownIsCurrent == \A n \in Results : indexed[n] = notes[n].text

=============================================================================
