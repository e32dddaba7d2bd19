--------------------------------- MODULE Guards ---------------------------------
(***************************************************************************)
(* What stands between the system and the world: Grants, Broker,           *)
(* Quarantine, Provider, Paths and SandboxRun.  They share no state, so    *)
(* their steps commute and a behaviour is one of a single service: scene   *)
(* says which, the variables of the others stay None.                      *)
(***************************************************************************)
EXTENDS Naturals, Sequences, FiniteSets

CONSTANT None

VARIABLE scene

------------------------------------------------------------------------------
(* Grants *)

CONSTANTS Ids, GrantOf, Callers, Requests, MaxVersion, MaxIssues, GrantTime

VARIABLES left, resource, version, approved, hour, asking, issued, spent, misused

grantVars == <<left, resource, version, approved, hour, asking, issued, spent, misused>>
GrantsIdle ==
  /\ left = None /\ resource = None /\ version = None /\ approved = None /\ hour = None
  /\ asking = None /\ issued = None /\ spent = None /\ misused = None

GR == INSTANCE Grants WITH MaxTime <- GrantTime, now <- hour

------------------------------------------------------------------------------
(* Broker *)

CONSTANTS Plugins, Scopes, Allowed, Tokens, Ttl, MaxIssued, Every, MaxTime

VARIABLES secrets, live, wanted, resolving, now, revoked, shown

brokerVars == <<secrets, live, wanted, resolving, now, revoked, shown>>
BrokerIdle ==
  /\ secrets = None /\ live = None /\ wanted = None /\ resolving = None
  /\ now = None /\ revoked = None /\ shown = None

BR == INSTANCE Broker WITH issued <- live, asking <- wanted

------------------------------------------------------------------------------
(* Quarantine *)

CONSTANTS Workers, Attachments, Contents, SizeOf, Unsafe, MimeOf, MaxCalls

VARIABLES files, step, job, size, hash, outcome, audit, calls, touched

quarantineVars == <<files, step, job, size, hash, outcome, audit, calls, touched>>
QuarantineIdle ==
  /\ files = None /\ step = None /\ job = None /\ size = None /\ hash = None
  /\ outcome = None /\ audit = None /\ calls = None /\ touched = None

QA == INSTANCE Quarantine WITH at <- step, verdict <- outcome

------------------------------------------------------------------------------
(* Provider *)

CONSTANTS Senders, MaxTokens, MaxSends

VARIABLES cache, valid, given, at, fetched, token, retried, verdict, sends, delivered

providerVars == <<cache, valid, given, at, fetched, token, retried, verdict, sends, delivered>>
ProviderIdle ==
  /\ cache = None /\ valid = None /\ given = None /\ at = None /\ fetched = None
  /\ token = None /\ retried = None /\ verdict = None /\ sends = None /\ delivered = None

PR == INSTANCE Provider

------------------------------------------------------------------------------
(* Paths *)

CONSTANTS Nodes, LinkSets, Asked, Workspace, DenyRoots, Hidden, Cas, Temp, Input, MaxLinks

VARIABLES links, asked, answer

pathVars == <<links, asked, answer>>
PathsIdle == links = None /\ asked = None /\ answer = None

FS == INSTANCE Paths WITH verdict <- answer

------------------------------------------------------------------------------
(* SandboxRun *)

CONSTANT Habits

VARIABLES habits, runner, timer, lock, timedOut, child, input, open, result

sandboxVars == <<habits, runner, timer, lock, timedOut, child, input, open, result>>
SandboxIdle ==
  /\ habits = None /\ runner = None /\ timer = None /\ lock = None /\ timedOut = None
  /\ child = None /\ input = None /\ open = None /\ result = None

SB == INSTANCE SandboxRun

------------------------------------------------------------------------------

\* What the proofs take the constants to be.
ASSUME GuardsAssumption ==
  /\ GR!GrantsAssumption
  /\ BR!BrokerAssumption
  /\ QA!QuarantineAssumption
  /\ PR!ProviderAssumption
  /\ FS!PathAssumption

Init ==
  \/ /\ scene = "grants" /\ GR!Init /\ BrokerIdle /\ QuarantineIdle
     /\ ProviderIdle /\ PathsIdle /\ SandboxIdle
  \/ /\ scene = "secrets" /\ GrantsIdle /\ BR!BrokerInit /\ QuarantineIdle
     /\ ProviderIdle /\ PathsIdle /\ SandboxIdle
  \/ /\ scene = "quarantine" /\ GrantsIdle /\ BrokerIdle /\ QA!QuarantineInit
     /\ ProviderIdle /\ PathsIdle /\ SandboxIdle
  \/ /\ scene = "provider" /\ GrantsIdle /\ BrokerIdle /\ QuarantineIdle
     /\ PR!ProviderInit /\ PathsIdle /\ SandboxIdle
  \/ /\ scene = "paths" /\ GrantsIdle /\ BrokerIdle /\ QuarantineIdle
     /\ ProviderIdle /\ FS!PathInit /\ SandboxIdle
  \/ /\ scene = "sandbox" /\ GrantsIdle /\ BrokerIdle /\ QuarantineIdle
     /\ ProviderIdle /\ PathsIdle /\ SB!Init

Granting == /\ scene = "grants" /\ GR!Next
            /\ UNCHANGED <<scene, brokerVars, quarantineVars, providerVars, pathVars, sandboxVars>>
Brokering == /\ scene = "secrets" /\ BR!BrokerNext
             /\ UNCHANGED <<scene, grantVars, quarantineVars, providerVars, pathVars, sandboxVars>>
Quarantining == /\ scene = "quarantine" /\ QA!QuarantineNext
                /\ UNCHANGED <<scene, grantVars, brokerVars, providerVars, pathVars, sandboxVars>>
Sending == /\ scene = "provider" /\ PR!ProviderNext
           /\ UNCHANGED <<scene, grantVars, brokerVars, quarantineVars, pathVars, sandboxVars>>
Resolving == /\ scene = "paths" /\ FS!Evaluate
             /\ UNCHANGED <<scene, grantVars, brokerVars, quarantineVars, providerVars, sandboxVars>>
Running == /\ scene = "sandbox" /\ SB!Next
           /\ UNCHANGED <<scene, grantVars, brokerVars, quarantineVars, providerVars, pathVars>>

Next ==
  \/ Granting
  \/ Brokering
  \/ Quarantining
  \/ Sending
  \/ Resolving
  \/ Running

vars == <<scene, grantVars, brokerVars, quarantineVars, providerVars, pathVars, sandboxVars>>

Spec == Init /\ [][Next]_vars

------------------------------------------------------------------------------
(* What is asked of them, of each where it is the one *)

\* Grants: a grant is used at most as often as it was given, by its subject and for
\* the content that was approved, however many callers race for it.
GrantBound == scene = "grants" => GR!GrantBound

\* Broker: a revoked token gives no secret away, and tokens keep to their manifest.
RevokedStaysRevoked == scene = "secrets" => BR!RevokedStaysRevoked

\* Quarantine: what is called clean was checked in full and is what was checked.
CleanIsWhole == scene = "quarantine" => QA!CleanIsWhole

\* Provider: one send hands the message over at most once, and Ok means it did.
DeliveredOnce == scene = "provider" => PR!DeliveredOnce

\* Where paths are resolved, the limit of links is not met on the way.
LimitNotMet == scene = "paths" => FS!LimitNotMet

\* Paths: no link leads a read, a write or an append out of its directory.
StaysInside == scene = "paths" => FS!StaysInside

\* SandboxRun: a timeout is told as one, and no child outlives the call.
SandboxSettles == scene = "sandbox" => SB!SandboxSettles

=============================================================================
