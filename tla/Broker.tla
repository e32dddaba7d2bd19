-------------------------------- MODULE Broker --------------------------------
(***************************************************************************)
(* The secret broker of the channel plugins (crates/seaki-channel/src/     *)
(* broker/secret.rs).  A plugin gets a token for a scope it may use        *)
(* (seaki_host_get_secret in plugin/runtime.rs); the host resolves it.     *)
(* The broker has two mutexes, for its secrets and for its tokens; what is *)
(* one action here runs under one of them, or under both.                  *)
(***************************************************************************)
EXTENDS Naturals, FiniteSets

CONSTANTS
  Plugins, Scopes, Allowed,  \* Allowed[p]: the scopes in p's manifest
  Tokens,      \* the tokens that may be made, each one once
  Ttl,
  MaxIssued,   \* MAX_ISSUED_TOKENS
  Every,       \* how often expired tokens are cleaned up (100)
  MaxTime,     \* bound on the clock
  None

\* There is room for a token.
BrokerAssumption == MaxIssued \in Nat \ {0}

VARIABLES
  secrets,     \* the scopes that have a secret
  issued,      \* token -> [scope, due, for], or None
  asking,      \* plugin -> the scope it asked for between the two locks, or None
  resolving,   \* [token, entry] while the host resolves and holds the tokens' lock, or None
  now,
  revoked,     \* history: the tokens that revoke_token removed
  shown        \* history: the tokens that were resolved to a secret, each with
               \* what was wrong with it then

brokerVars == <<secrets, issued, asking, resolving, now, revoked, shown>>

BrokerInit ==
  /\ secrets = {} /\ issued = [t \in Tokens |-> None]
  /\ asking = [p \in Plugins |-> None] /\ resolving = None /\ now = 0
  /\ revoked = {} /\ shown = {}

Live == {t \in Tokens : issued[t] # None}

\* Mutant: the tokens' lock is given back before the secret is read.
FreeAtOnce == TRUE

\* Nobody holds the lock of the tokens.
TokensFree == resolving = None

RegisterSecret(s) ==
  /\ secrets' = secrets \cup {s} /\ s \notin secrets
  /\ UNCHANGED <<issued, asking, resolving, now, revoked, shown>>

MayUse(p, s) == s \in Allowed[p]

\* request_token up to the first unlock.
RequestToken(p, s) ==
  /\ asking[p] = None /\ MayUse(p, s) /\ s \in secrets
  /\ asking' = [asking EXCEPT ![p] = s]
  /\ UNCHANGED <<secrets, issued, resolving, now, revoked, shown>>

\* What is left after the cleanup of expired tokens, when it is due.
CleanedUp ==
  IF Cardinality(Live) % Every = 0 \/ Cardinality(Live) >= MaxIssued
  THEN {t \in Live : now <= issued[t].due} ELSE Live

\* request_token from there: over the limit, any tokens are dropped.
IssueToken(p, t) ==
  /\ asking[p] # None /\ TokensFree
  /\ t \notin Live \cup revoked /\ ~\E e \in shown : e.token = t
  /\ \E kept \in SUBSET CleanedUp :
       /\ IF Cardinality(CleanedUp) < MaxIssued THEN kept = CleanedUp
          ELSE Cardinality(kept) = MaxIssued - 1
       /\ issued' = [u \in Tokens |->
            IF u = t THEN [scope |-> asking[p], due |-> now + Ttl, for |-> p]
            ELSE IF u \in kept THEN issued[u] ELSE None]
  /\ asking' = [asking EXCEPT ![p] = None]
  /\ UNCHANGED <<secrets, resolving, now, revoked, shown>>

\* resolve_token takes the lock; an expired token is removed and the call fails.
ResolveExpired(t) ==
  /\ TokensFree /\ t \in Live /\ now > issued[t].due
  /\ issued' = [issued EXCEPT ![t] = None]
  /\ UNCHANGED <<secrets, asking, resolving, now, revoked, shown>>

ResolveToken(t) ==
  /\ resolving = None /\ t \in Live /\ now <= issued[t].due
  /\ resolving' = [token |-> t, entry |-> issued[t]]
  /\ UNCHANGED <<secrets, issued, asking, now, revoked, shown>>

\* It reads the secret and gives both locks back.
ReadSecret ==
  /\ resolving # None /\ resolving' = None
  /\ LET e == resolving.entry IN
     shown' = IF e.scope \notin secrets THEN shown
              ELSE shown \cup {[token |-> resolving.token,
                                wasRevoked |-> resolving.token \in revoked,
                                allowed |-> e.scope \in Allowed[e.for]]}
  /\ UNCHANGED <<secrets, issued, asking, now, revoked>>

RevokeToken(t) ==
  /\ TokensFree /\ t \in Live
  /\ issued' = [issued EXCEPT ![t] = None] /\ revoked' = revoked \cup {t}
  /\ UNCHANGED <<secrets, asking, resolving, now, shown>>

Tick ==
  /\ now < MaxTime /\ now' = now + 1
  /\ UNCHANGED <<secrets, issued, asking, resolving, revoked, shown>>

BrokerNext ==
  \/ \E s \in Scopes : RegisterSecret(s)
  \/ \E p \in Plugins, s \in Scopes : RequestToken(p, s)
  \/ \E p \in Plugins, t \in Tokens : IssueToken(p, t)
  \/ \E t \in Tokens : ResolveExpired(t)
  \/ \E t \in Tokens : ResolveToken(t)
  \/ ReadSecret
  \/ \E t \in Tokens : RevokeToken(t)
  \/ Tick

BrokerSpec == BrokerInit /\ [][BrokerNext]_brokerVars

------------------------------------------------------------------------------
(* What is asked of it *)

\* Once revoke_token has returned, its token never gives a secret away, not even to a
\* resolve_token that had begun before; a token only ever opens a scope of its plugin's
\* manifest; and there are never more tokens than the limit.
RevokedStaysRevoked ==
  /\ \A e \in shown : ~e.wasRevoked /\ e.allowed
  /\ Cardinality(Live) <= MaxIssued

=============================================================================
