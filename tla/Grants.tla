-------------------------------- MODULE Grants --------------------------------
(***************************************************************************)
(* Grants and the policy engine (crates/seaki-policy/src/grant.rs and      *)
(* engine.rs, crates/seaki-channel/src/grant.rs).  A caller reads the clock *)
(* before it takes the store's lock; files change and time passes between. *)
(* A request either fits its grant in audience, workspace, operation and   *)
(* path, or does not.                                                      *)
(***************************************************************************)
EXTENDS Naturals, FiniteSets

CONSTANTS
  Ids,        \* grant ids
  GrantOf,    \* id -> [kind, subject, uses, from, until]: kind is "file", "generic",
              \* "action" (channel action) or "resource" (channel resource)
  Callers,
  Requests,   \* [kind, id, actor, fits, place]: id may be None, place is "inside",
              \* "denied" or "outside" the workspace (for "harmless": needs no grant)
  MaxVersion, \* bound on the content of the file
  MaxIssues,  \* bound on how often the channel's store issues an id
  MaxTime,    \* bound on the clock
  None

\* Uses are counted, and a request that goes to a store names a grant of it: only one
\* for a file or a generic effect may come without an id.
GrantsAssumption ==
  /\ \A i \in Ids : GrantOf[i].uses \in Nat
  /\ \A r \in Requests : r.id \in Ids \/ (r.id = None /\ r.kind \in {"file", "generic"})
  /\ None \notin Nat

VARIABLES
  left,      \* uses_remaining of each id, None while there is no such grant
  resource,  \* the content each file grant was issued for
  version,   \* the content of the file now
  approved,  \* the content each file grant was approved for
  now,
  asking,    \* what each caller asks: its request and the clock it read, or None
  issued,    \* history: how often each id was issued
  spent,     \* history: the uses allowed since
  misused    \* history: whether an allowed use was of another's grant, or other content

vars == <<left, resource, version, approved, now, asking, issued, spent, misused>>

Init ==
  /\ left = [i \in Ids |-> None]
  /\ resource = [i \in Ids |-> None]
  /\ approved = [i \in Ids |-> None]
  /\ version = 0 /\ now = 0
  /\ asking = [c \in Callers |-> None]
  /\ issued = [i \in Ids |-> 0] /\ spent = [i \in Ids |-> 0]
  /\ misused = FALSE

Kind(i) == GrantOf[i].kind

------------------------------------------------------------------------------
(* Issuing *)

Granted(i) ==
  /\ left' = [left EXCEPT ![i] = GrantOf[i].uses]
  /\ issued' = [issued EXCEPT ![i] = @ + 1]
  /\ spent' = [spent EXCEPT ![i] = 0]
  /\ UNCHANGED <<version, approved, now, asking, misused>>

\* The policy's stores refuse an id they know.
Unknown(i) == left[i] = None

\* Somebody approves the reading of the file as it is.
Approve(i) ==
  /\ Kind(i) = "file" /\ Unknown(i)
  /\ approved' = [approved EXCEPT ![i] = version]
  /\ UNCHANGED <<left, resource, version, now, asking, issued, spent, misused>>

\* Mutant: a grant is issued for what the file holds now, whatever was approved.
ScopeHashIgnored(i) == approved[i] # None

\* The hash the approval was given for is that of the file as it is now.
ScopeHashFits(i) == approved[i] = version

IssueFile(i) ==
  /\ Kind(i) = "file" /\ Unknown(i)
  /\ ScopeHashFits(i)
  /\ resource' = [resource EXCEPT ![i] = version]
  /\ Granted(i)

IssueGeneric(i) ==
  Kind(i) = "generic" /\ Unknown(i) /\ Granted(i) /\ UNCHANGED resource

IssueAction(i) ==
  Kind(i) = "action" /\ Unknown(i) /\ Granted(i) /\ UNCHANGED resource

\* The channel's store replaces a grant it knows.
IssueResource(i) ==
  Kind(i) = "resource" /\ issued[i] < MaxIssues /\ Granted(i) /\ UNCHANGED resource

------------------------------------------------------------------------------
(* Using *)

\* A caller turns to the engine, which reads the clock.
Ask(c, r) ==
  /\ asking[c] = None
  /\ asking' = [asking EXCEPT ![c] = [request |-> r, at |-> now]]
  /\ UNCHANGED <<left, resource, version, approved, now, issued, spent, misused>>

Answered(c) == asking' = [asking EXCEPT ![c] = None]

\* The engine decides without the store: a path the workspace allows or denies,
\* a request for a file outside without a grant, an effect that needs none.
Undisputed(r) ==
  \/ r.kind = "file" /\ (r.place # "outside" \/ r.id = None)
  \/ r.kind = "generic" /\ r.place = "harmless"

\* has_valid_generic_grant: without an id any grant of the actor's will do, and
\* it is not used up.
Standing(r) == r.kind = "generic" /\ r.id = None

DecideUndisputed(c) ==
  /\ asking[c] # None
  /\ Undisputed(asking[c].request) \/ Standing(asking[c].request)
  /\ Answered(c)
  /\ UNCHANGED <<left, resource, version, approved, now, issued, spent, misused>>

ToStore(c) ==
  /\ asking[c] # None
  /\ ~Undisputed(asking[c].request) /\ ~Standing(asking[c].request)
  /\ Answered(c)
  /\ UNCHANGED <<resource, version, approved, now, issued>>

\* Every consume asks for a grant that exists, has not expired and is not used up,
\* all but the one for actions for the subject and the scope of the grant.
Usable(r, at) == left[r.id] # None /\ at < GrantOf[r.id].until /\ left[r.id] > 0
Suits(r) == GrantOf[r.id].subject = r.actor /\ r.fits
Begun(r, at) == at >= GrantOf[r.id].from

\* Mutant: the file is not looked at again.
SameContentTrusted(i) == TRUE

\* A file grant is for the content it was issued for.
SameContent(i) == resource[i] = version

TakesFile(r, at) == Usable(r, at) /\ Suits(r) /\ Begun(r, at) /\ SameContent(r.id)
TakesGeneric(r, at) == Usable(r, at) /\ Suits(r) /\ Begun(r, at)
TakesAction(r, at) == Usable(r, at)
TakesResource(r, at) == Usable(r, at) /\ Suits(r)

Takes(r, at) ==
  /\ Kind(r.id) = r.kind
  /\ \/ r.kind = "file" /\ TakesFile(r, at)
     \/ r.kind = "generic" /\ TakesGeneric(r, at)
     \/ r.kind = "action" /\ TakesAction(r, at)
     \/ r.kind = "resource" /\ TakesResource(r, at)

\* Checked and counted under one lock.
Consume(c) ==
  LET r == asking[c].request IN
  /\ ToStore(c)
  /\ Takes(r, asking[c].at)
  /\ left' = [left EXCEPT ![r.id] = @ - 1]
  /\ spent' = [spent EXCEPT ![r.id] = @ + 1]
  /\ misused' = \/ misused
                \/ Kind(r.id) # "action" /\ GrantOf[r.id].subject # r.actor
                \/ Kind(r.id) = "file" /\ version # approved[r.id]

Refuse(c) ==
  /\ ToStore(c)
  /\ ~Takes(asking[c].request, asking[c].at)
  /\ UNCHANGED <<left, spent, misused>>

------------------------------------------------------------------------------

FileChanges == version < MaxVersion /\ version' = version + 1
               /\ UNCHANGED <<left, resource, approved, now, asking, issued, spent, misused>>

Tick == now < MaxTime /\ now' = now + 1
        /\ UNCHANGED <<left, resource, version, approved, asking, issued, spent, misused>>

Next ==
  \/ \E i \in Ids :
       \/ Approve(i)
       \/ IssueFile(i)
       \/ IssueGeneric(i)
       \/ IssueAction(i)
       \/ IssueResource(i)
  \/ \E c \in Callers :
       \/ \E r \in Requests : Ask(c, r)
       \/ DecideUndisputed(c)
       \/ Consume(c)
       \/ Refuse(c)
  \/ FileChanges
  \/ Tick

Spec == Init /\ [][Next]_vars

------------------------------------------------------------------------------
(* What is asked of grants *)

\* However many callers race for it, a grant is used at most as often as it was
\* given, counting every time its id was issued where an id may be issued once, by
\* its subject and, for a file, with the content that was approved.
GrantBound ==
  /\ \A i \in Ids : left[i] # None => spent[i] + left[i] = GrantOf[i].uses
  /\ \A i \in Ids : Kind(i) # "resource" => issued[i] <= 1
  /\ ~misused

=============================================================================
