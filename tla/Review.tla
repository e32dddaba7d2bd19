-------------------------------- MODULE Review --------------------------------
(***************************************************************************)
(* Review cards (crates/seaki-memory: review_queue.rs, grading.rs,         *)
(* review_card.rs, card_generator.rs).  A reviewer takes copies of the     *)
(* cards that are due, grades a copy and puts it back: the queue may have  *)
(* changed in between.  Times are seconds; stability is in hundredths of a *)
(* day, rounded down where the code keeps a float.                         *)
(***************************************************************************)
EXTENDS Integers, SequencesExt

CONSTANTS
  Reviewers,
  Items,       \* memory items that may get a card
  KindOf,      \* item -> its MemoryKind
  Fitting,     \* the active items whose content is 10 to 512 bytes long
  Titles,      \* session ids
  Times,       \* the moments the clock may show
  MaxCalls,    \* bound: cards generated, reviews and removals
  MaxFound,    \* bound: cards found in one text
  None

\* What the proofs in KnowledgeProofs need.
ReviewAssumption == Times \subseteq Nat /\ MaxFound \in Nat

VARIABLES
  queue,       \* the cards, in the order they were enqueued
  clock,
  held,        \* reviewer -> the copy it took, or None
  requests,
  put, taken   \* history: the ids enqueued and removed, one after the other

reviewVars == <<queue, clock, held, requests, put, taken>>

\* CardDifficulty of a kind, and where a card of a difficulty starts.
Difficulty(kind) ==
  IF kind = "UserPreference" THEN "Easy"
  ELSE IF kind = "SafetyRule" THEN "Critical"
  ELSE IF kind = "DerivedFact" THEN "Hard" ELSE "Medium"

InitialStability ==
  [d \in {"Easy", "Medium", "Hard", "Critical"} |->
     IF d = "Easy" THEN 200 ELSE IF d = "Medium" THEN 100 ELSE IF d = "Hard" THEN 50 ELSE 30]

Seconds(stability) == stability * 864

Card(id, d) ==
  [id |-> id, difficulty |-> d, stability |-> InitialStability[d], count |-> 0,
   due |-> clock + Seconds(InitialStability[d])]

ReviewInit ==
  /\ queue = <<>> /\ clock \in Times /\ (\A t \in Times : clock <= t)
  /\ held = [r \in Reviewers |-> None] /\ requests = 0 /\ put = <<>> /\ taken = <<>>

Counted == requests < MaxCalls /\ requests' = requests + 1

Enqueue(cards) ==
  /\ queue' = queue \o cards
  /\ put' = put \o [k \in DOMAIN cards |-> cards[k].id]
  /\ UNCHANGED <<clock, held, taken>>

\* generate_from_store and from_memory_item: the card is named after the item.
CardOfItem(i) ==
  /\ i \in Fitting /\ Counted
  /\ Enqueue(<< Card(<<"card", i>>, Difficulty(KindOf[i])) >>)

\* from_wiki_text and from_session_summary: named after the second or the session
\* and numbered, the n-th card that fits whatever the text.
Numbered(name, n) == [k \in 1..n |-> Card(name \o <<k - 1>>, "Medium")]

CardsOfWiki == \E n \in 1..MaxFound : Counted /\ Enqueue(Numbered(<<"wiki", clock>>, n))

CardsOfSession(s) ==
  \E n \in 1..MaxFound : Counted /\ Enqueue(Numbered(<<"session", s>>, n))

\* The places of the cards that are due.
Due(t) == {k \in DOMAIN queue : t >= queue[k].due}

\* Mutant: they are left in the order of the queue.
EarlierInQueue(j, k) == j < k

\* sort_by_key: cards due at the same time stay in the order of the queue.
Earlier(j, k) ==
  queue[j].due < queue[k].due \/ (queue[j].due = queue[k].due /\ j < k)

\* next_due: the cards that are due, the longest overdue first.
NextDue(t, limit) ==
  LET Sorted(n) == CHOOSE k \in Due(t) : Cardinality({j \in Due(t) : Earlier(j, k)}) = n - 1
      many == Cardinality(Due(t))
  IN [n \in 1 .. (IF limit < many THEN limit ELSE many) |-> queue[Sorted(n)]]

Take(r) ==
  /\ held[r] = None /\ NextDue(clock, 1) # <<>>
  /\ held' = [held EXCEPT ![r] = NextDue(clock, 1)[1]]
  /\ UNCHANGED <<queue, clock, requests, put, taken>>

\* What a grade multiplies the stability with, in hundredths.
Multiplier(c, grade) ==
  IF grade = "Again" THEN (IF c.difficulty = "Critical" THEN 15 ELSE 30)
  ELSE IF grade = "Hard" THEN 80
  ELSE IF grade = "Good" THEN 150 + 10 * c.count
  ELSE (IF c.difficulty = "Easy" THEN 300 ELSE 250) + 20 * c.count

Clamped(s) == IF s < 1 THEN 1 ELSE IF s > 365000 THEN 365000 ELSE s

Graded(c, grade) ==
  LET s == Clamped((c.stability * Multiplier(c, grade)) \div 100)
  IN  [c EXCEPT !.stability = s, !.count = @ + 1,
                !.due = clock + (IF grade = "Again" THEN 600 ELSE Seconds(s))]

Position(id) == SelectInSeq(queue, LAMBDA c : c.id = id)

\* Mutant: a card that is not in the queue any more is put back.
UpdateOrEnqueue(c) ==
  queue' = IF Position(c.id) = 0 THEN Append(queue, c)
           ELSE [queue EXCEPT ![Position(c.id)] = c]

\* update_card: the first card of that id, or CardNotFound.
UpdateCard(c) ==
  queue' = IF Position(c.id) = 0 THEN queue ELSE [queue EXCEPT ![Position(c.id)] = c]

Grade(r) ==
  /\ held[r] # None /\ Counted
  /\ \E grade \in {"Again", "Hard", "Good", "Easy"} : UpdateCard(Graded(held[r], grade))
  /\ held' = [held EXCEPT ![r] = None] /\ UNCHANGED <<clock, put, taken>>

RemoveCard(id) ==
  /\ Position(id) # 0 /\ Counted
  /\ queue' = RemoveAt(queue, Position(id))
  /\ taken' = Append(taken, id) /\ UNCHANGED <<clock, held, put>>

Pass == clock' \in Times /\ clock' > clock /\ UNCHANGED <<queue, held, requests, put, taken>>

ReviewNext ==
  \/ \E i \in Items : CardOfItem(i)
  \/ CardsOfWiki
  \/ \E s \in Titles : CardsOfSession(s)
  \/ \E r \in Reviewers : Take(r)
  \/ \E r \in Reviewers : Grade(r)
  \/ \E c \in ToSet(queue) : RemoveCard(c.id)
  \/ Pass

ReviewSpec == ReviewInit /\ [][ReviewNext]_reviewVars

------------------------------------------------------------------------------
(* What is asked of it *)

Often(s, x) == Cardinality({k \in DOMAIN s : s[k] = x})

\* Of every id the queue holds as many cards as were put in and not taken out again:
\* a review that ends after its card was removed does not bring the card back, and no
\* review makes one of two cards with the same id disappear.
CardsCounted ==
  \A id \in ToSet(put) :
    Often([k \in DOMAIN queue |-> queue[k].id], id) = Often(put, id) - Often(taken, id)

\* Nobody is handed a card while one that was due earlier is left out, whatever the
\* order in which reviews have rescheduled the cards.
EarliestFirst ==
  \A n \in 0..Len(queue) : LET handed == NextDue(clock, n) IN
    /\ \A c \in ToSet(queue) \ ToSet(handed), d \in ToSet(handed) : c.due >= d.due
    /\ Len(handed) < n => \A c \in ToSet(queue) \ ToSet(handed) : c.due > clock

\* A review is never lost: the copy that is graded is the card of the queue.
EveryReviewCounts ==
  \A r \in Reviewers : held[r] # None /\ Position(held[r].id) # 0
     => \E k \in DOMAIN queue : queue[k] = held[r]

=============================================================================
