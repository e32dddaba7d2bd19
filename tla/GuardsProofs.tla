----------------------------- MODULE GuardsProofs -----------------------------
(***************************************************************************)
(* Proofs about what stands between the system and the world: Broker,      *)
(* Grants, Quarantine, Provider, SandboxRun and Paths, for every value of  *)
(* their constants.  A theorem on the behaviours of each service alone     *)
(* comes first, what it says of their composition in Guards last.          *)
(***************************************************************************)
EXTENDS Guards, FiniteSetTheorems, SequenceTheorems, WellFoundedInduction, TLAPS

------------------------------------------------------------------------------
(* Broker *)

\* Every token that lives is for a scope of its plugin's manifest and was not revoked.
TokensKept ==
  /\ DOMAIN live = Tokens
  /\ \A t \in Tokens : live[t] # None =>
       t \notin revoked /\ live[t].scope \in Allowed[live[t].for]

\* Between its two locks, request_token knows that the plugin may have the scope.
AskedForOwn ==
  /\ wanted \in [Plugins -> Scopes \cup {None}]
  /\ \A p \in Plugins : wanted[p] # None => wanted[p] \in Allowed[p]

\* While resolve_token holds the lock its token stays as it was read.
ResolvedIsLive ==
  resolving # None => resolving.token \in BR!Live /\ resolving.entry = live[resolving.token]
\* The tokens stay within the limit.
FewTokens == IsFiniteSet(BR!Live) /\ Cardinality(BR!Live) <= MaxIssued

\* Nothing that was resolved should not have been.
ShownRightly == \A e \in shown : ~e.wasRevoked /\ e.allowed

\* The inductive invariant: without what the two callers between two steps know, the
\* next step could issue a foreign scope or show a token that was revoked meanwhile.
BrokerInv == TokensKept /\ AskedForOwn /\ ResolvedIsLive /\ FewTokens /\ ShownRightly

\* What Broker counts with is what the theorems on finite sets are about.
LEMMA CountedAlike == \A S : BR!Cardinality(S) = Cardinality(S)
BY DEF BR!Cardinality, Cardinality

\* Removing tokens keeps the limit (resolve_token of an expired one, revoke_token).
LEMMA FewerTokens ==
  ASSUME BR!BrokerAssumption, FewTokens, BR!Live' \subseteq BR!Live
  PROVE  FewTokens'
<1>1. IsFiniteSet(BR!Live) /\ Cardinality(BR!Live) \in Nat /\ Cardinality(BR!Live) <= MaxIssued
  BY FS_CardinalityType DEF FewTokens
<1>2. IsFiniteSet(BR!Live') /\ Cardinality(BR!Live') <= Cardinality(BR!Live)
  BY <1>1, FS_Subset
<1>3. Cardinality(BR!Live') \in Nat
  BY <1>2, FS_CardinalityType
<1>4. QED
  BY <1>1, <1>2, <1>3 DEF FewTokens, BR!BrokerAssumption

\* One more than fewer than the limit keeps it (request_token after its cleanup).
LEMMA OneMoreToken ==
  ASSUME BR!BrokerAssumption, NEW kept, NEW t, IsFiniteSet(kept), Cardinality(kept) < MaxIssued,
         BR!Live' \subseteq kept \cup {t}
  PROVE  FewTokens'
<1>1. Cardinality(kept) \in Nat /\ IsFiniteSet(kept \cup {t}) 
  BY FS_CardinalityType, FS_AddElement
<1>2. Cardinality(kept \cup {t}) \in Nat /\ Cardinality(kept \cup {t}) <= MaxIssued
  BY <1>1, FS_AddElement, FS_CardinalityType DEF BR!BrokerAssumption
<1>3. IsFiniteSet(BR!Live') /\ Cardinality(BR!Live') <= Cardinality(kept \cup {t})
  BY <1>1, FS_Subset
<1>4. Cardinality(BR!Live') \in Nat
  BY <1>3, FS_CardinalityType
<1>5. QED
  BY <1>2, <1>3, <1>4 DEF FewTokens, BR!BrokerAssumption

\* A revoked token gives no secret away, a token opens only a scope of its plugin's
\* manifest and the tokens never exceed the limit, for any plugins, tokens and limit.
THEOREM BrokerKeepsSecrets ==
  ASSUME BR!BrokerAssumption
  PROVE  BR!BrokerSpec => []BR!RevokedStaysRevoked
<1>1. BR!BrokerInit => BrokerInv
  <2> SUFFICES ASSUME BR!BrokerInit PROVE BrokerInv
    OBVIOUS
  <2>1. BR!Live = {}
    BY DEF BR!Live, BR!BrokerInit
  <2>2. FewTokens
    BY <2>1, FS_EmptySet DEF FewTokens, BR!BrokerAssumption
  <2>3. QED
    BY <2>1, <2>2 DEF BrokerInv, ShownRightly, BR!BrokerInit, TokensKept, AskedForOwn, ResolvedIsLive
<1>2. BrokerInv /\ [BR!BrokerNext]_BR!brokerVars => BrokerInv'
  <2> SUFFICES ASSUME BrokerInv, [BR!BrokerNext]_BR!brokerVars PROVE BrokerInv'
    OBVIOUS
  <2> USE DEF BrokerInv, ShownRightly, BR!BrokerAssumption
  <2>1. CASE UNCHANGED BR!brokerVars
    BY <2>1 DEF BR!brokerVars, TokensKept, AskedForOwn, ResolvedIsLive, FewTokens, BR!Live
  <2>2. ASSUME NEW s \in Scopes, BR!RegisterSecret(s) PROVE BrokerInv'
    BY <2>2 DEF BR!RegisterSecret, TokensKept, AskedForOwn, ResolvedIsLive, FewTokens, BR!Live
  <2>3. ASSUME NEW p \in Plugins, NEW s \in Scopes, BR!RequestToken(p, s) PROVE BrokerInv'
    BY <2>3 DEF BR!RequestToken, BR!MayUse, TokensKept, AskedForOwn, ResolvedIsLive, FewTokens, BR!Live
  <2>4. ASSUME NEW p \in Plugins, NEW t \in Tokens, BR!IssueToken(p, t) PROVE BrokerInv'
    <3> DEFINE Fresh == [scope |-> wanted[p], due |-> now + Ttl, for |-> p]
    <3>1. PICK kept \in SUBSET BR!CleanedUp :
            /\ (Cardinality(BR!CleanedUp) < MaxIssued /\ kept = BR!CleanedUp) \/ Cardinality(kept) = MaxIssued - 1
            /\ live' = [u \in Tokens |-> IF u = t THEN Fresh ELSE IF u \in kept THEN live[u] ELSE None]
      BY <2>4, CountedAlike DEF BR!IssueToken
    <3>2. Cardinality(kept) < MaxIssued
      BY <3>1
    <3>3. kept \subseteq BR!Live
      BY DEF BR!CleanedUp
    <3>4. IsFiniteSet(kept) 
      BY <3>3, FS_Subset DEF FewTokens
    <3>5. BR!Live' \subseteq kept \cup {t}
      BY <3>1 DEF BR!Live
    <3>6. FewTokens'
      BY <3>2, <3>4, <3>5, OneMoreToken
    <3>7. resolving' = None /\ shown' = shown /\ revoked' = revoked /\ t \notin revoked
      BY <2>4 DEF BR!IssueToken, BR!TokensFree
    <3>8. AskedForOwn' /\ wanted[p] \in Allowed[p]
      BY <2>4 DEF BR!IssueToken, AskedForOwn
    <3>9. TokensKept'
      <4>1. DOMAIN live' = Tokens
        BY <3>1
      <4>2. ASSUME NEW u \in Tokens, live'[u] # None, u # t
          PROVE u \notin revoked /\ live'[u].scope \in Allowed[live'[u].for]
        BY <4>2, <3>1, <3>3 DEF TokensKept
      <4>3. live'[t] = Fresh
        BY <3>1
      <4>4. t \notin revoked /\ live'[t].scope \in Allowed[live'[t].for]
        BY <4>3, <3>7, <3>8
      <4>5. QED
        BY <4>1, <4>2, <4>4, <3>7 DEF TokensKept
    <3>10. QED
      BY <3>6, <3>7, <3>9, <3>8 DEF ResolvedIsLive
  <2>5. ASSUME NEW t \in Tokens, BR!ResolveExpired(t) \/ BR!RevokeToken(t) PROVE BrokerInv'
    <3>1. /\ live' = [live EXCEPT ![t] = None] /\ revoked' \subseteq revoked \cup {t}
          /\ resolving' = None /\ UNCHANGED <<wanted, shown>>
      BY <2>5 DEF BR!ResolveExpired, BR!RevokeToken, BR!TokensFree
    <3>2. BR!Live' \subseteq BR!Live
      BY <3>1 DEF BR!Live, TokensKept
    <3>3. FewTokens'
      BY <3>2, FewerTokens
    <3>4. TokensKept'
      BY <3>1 DEF TokensKept
    <3>5. QED
      BY <3>1, <3>3, <3>4 DEF AskedForOwn, ResolvedIsLive
  <2>6. ASSUME NEW t \in Tokens, BR!ResolveToken(t) PROVE BrokerInv'
    BY <2>6 DEF BR!ResolveToken, TokensKept, AskedForOwn, ResolvedIsLive, FewTokens, BR!Live
  <2>7. CASE BR!ReadSecret
    <3>1. TokensKept' /\ AskedForOwn' /\ FewTokens' /\ ResolvedIsLive'
      BY <2>7 DEF BR!ReadSecret, TokensKept, AskedForOwn, ResolvedIsLive, FewTokens, BR!Live
    <3>2. resolving.token \in Tokens /\ resolving.token \notin revoked /\ resolving.entry.scope \in Allowed[resolving.entry.for]
      BY <2>7 DEF BR!ReadSecret, TokensKept, ResolvedIsLive, BR!Live
    <3>3. \A e \in shown' : ~e.wasRevoked /\ e.allowed
      <4> SUFFICES ASSUME NEW e \in shown', e \notin shown PROVE ~e.wasRevoked /\ e.allowed
        BY DEF ShownRightly
      <4>1. /\ e.wasRevoked = (resolving.token \in revoked)
            /\ e.allowed = (resolving.entry.scope \in Allowed[resolving.entry.for])
        BY <2>7 DEF BR!ReadSecret
      <4>2. QED
        BY <3>2, <4>1
    <3>4. QED
      BY <3>1, <3>3
  <2>8. CASE BR!Tick
    BY <2>8 DEF BR!Tick, TokensKept, AskedForOwn, ResolvedIsLive, FewTokens, BR!Live
  <2>9. QED
    BY <2>1, <2>2, <2>3, <2>4, <2>5, <2>6, <2>7, <2>8 DEF BR!BrokerNext
<1>3. BrokerInv => BR!RevokedStaysRevoked
  BY CountedAlike DEF BrokerInv, ShownRightly, FewTokens, BR!RevokedStaysRevoked
<1>4. QED
  BY <1>1, <1>2, <1>3, PTL DEF BR!BrokerSpec
------------------------------------------------------------------------------
(* Grants *)

GrantTypes ==
  /\ left \in [Ids -> Nat \cup {None}] /\ spent \in [Ids -> Nat] /\ issued \in [Ids -> Nat]
  /\ approved \in [Ids -> Nat \cup {None}] /\ resource \in [Ids -> Nat \cup {None}]
  /\ asking \in [Callers -> [request : Requests, at : Nat] \cup {None}]
  /\ version \in Nat /\ hour \in Nat

\* The policy's stores issue an id once, and know it from then on.
IssuedOnce ==
  \A i \in Ids : GR!Kind(i) # "resource" => issued[i] <= 1 /\ (left[i] = None <=> issued[i] = 0)

\* A file grant that was issued is for the content that was approved, to this day: the
\* approval cannot be changed any more once the id is known.
IssuedAsApproved ==
  \A i \in Ids : GR!Kind(i) = "file" /\ left[i] # None => resource[i] = approved[i]

\* The inductive invariant.
GrantsInv == GrantTypes /\ IssuedOnce /\ IssuedAsApproved /\ GR!GrantBound

\* A grant is used at most as often as it was given, by its subject and for the content
\* that was approved, for any number of callers that race for it.
THEOREM GrantsAreBounded ==
  ASSUME GR!GrantsAssumption
  PROVE  GR!Spec => []GR!GrantBound
<1>1. GR!Init => GrantsInv
  BY DEF GR!GrantsAssumption, GrantsInv, GrantTypes, IssuedOnce, IssuedAsApproved, GR!Init,
      GR!GrantBound, GR!Kind
<1>2. GrantsInv /\ [GR!Next]_GR!vars => GrantsInv'
  <2> SUFFICES ASSUME GrantsInv, GR!Next PROVE GrantsInv'
    BY DEF GrantsInv, GrantTypes, IssuedOnce, IssuedAsApproved, GR!vars, GR!GrantBound, GR!Kind
  <2> USE DEF GR!GrantsAssumption, GrantsInv, GrantTypes, IssuedOnce, IssuedAsApproved, GR!GrantBound,
      GR!Kind
  <2>1. ASSUME NEW i \in Ids, GR!Approve(i) PROVE GrantsInv'
    BY <2>1 DEF GR!Approve, GR!Unknown
  <2>2. ASSUME NEW i \in Ids, GR!IssueFile(i) PROVE GrantsInv'
    BY <2>2 DEF GR!IssueFile, GR!Unknown, GR!Granted, GR!ScopeHashFits
  <2>3. ASSUME NEW i \in Ids, GR!IssueGeneric(i) PROVE GrantsInv'
    BY <2>3 DEF GR!IssueGeneric, GR!Unknown, GR!Granted
  <2>4. ASSUME NEW i \in Ids, GR!IssueAction(i) PROVE GrantsInv'
    BY <2>4 DEF GR!IssueAction, GR!Unknown, GR!Granted
  <2>5. ASSUME NEW i \in Ids, GR!IssueResource(i) PROVE GrantsInv'
    BY <2>5 DEF GR!IssueResource, GR!Granted
  <2>6. ASSUME NEW c \in Callers, NEW r \in Requests, GR!Ask(c, r) PROVE GrantsInv'
    BY <2>6 DEF GR!Ask
  <2>7. ASSUME NEW c \in Callers, GR!DecideUndisputed(c) PROVE GrantsInv'
    BY <2>7 DEF GR!DecideUndisputed, GR!Answered
  <2>8. ASSUME NEW c \in Callers, GR!Consume(c) PROVE GrantsInv'
    <3> DEFINE r == asking[c].request
    <3>1. r \in Requests /\ r.id \in Ids
      BY <2>8 DEF GR!Consume, GR!ToStore, GR!Undisputed, GR!Standing
    <3>2. left[r.id] # None /\ left[r.id] > 0
      BY <2>8 DEF GR!Consume, GR!Takes, GR!TakesFile, GR!TakesGeneric, GR!TakesAction, GR!TakesResource,
          GR!Usable
    <3>3. left[r.id] \in Nat /\ left[r.id] - 1 \in Nat
      BY <3>1, <3>2
    <3>4. GR!Kind(r.id) # "action" => GrantOf[r.id].subject = r.actor
      BY <2>8 DEF GR!Consume, GR!Takes, GR!TakesFile, GR!TakesGeneric, GR!TakesAction, GR!TakesResource,
          GR!Suits
    <3>5. GR!Kind(r.id) = "file" => version = approved[r.id]
      <4>1. GR!Kind(r.id) = "file" => version = resource[r.id]
        BY <2>8 DEF GR!Consume, GR!Takes, GR!TakesFile, GR!TakesGeneric, GR!TakesAction,
            GR!TakesResource, GR!SameContent
      <4>2. QED
        BY <3>1, <3>2, <4>1
    <3>6. ~misused'
      BY <2>8, <3>4, <3>5 DEF GR!Consume
    <3>7. /\ left' = [left EXCEPT ![r.id] = left[r.id] - 1]
          /\ spent' = [spent EXCEPT ![r.id] = spent[r.id] + 1]
          /\ asking' = [asking EXCEPT ![c] = None]
          /\ UNCHANGED <<resource, version, approved, hour, issued>>
      BY <2>8 DEF GR!Consume, GR!ToStore, GR!Answered
    <3> HIDE DEF r
    <3>8. left' \in [Ids -> Nat \cup {None}] /\ spent' \in [Ids -> Nat]
      BY <3>1, <3>3, <3>7
    <3>9. \A i \in Ids : left'[i] # None => spent'[i] + left'[i] = GrantOf[i].uses
      BY <3>1, <3>2, <3>3, <3>7, <3>8
    <3>10. \A i \in Ids : left'[i] = None <=> left[i] = None
      BY <3>1, <3>2, <3>3, <3>7
    <3>11. QED
      BY <3>6, <3>7, <3>8, <3>9, <3>10
  <2>9. ASSUME NEW c \in Callers, GR!Refuse(c) PROVE GrantsInv'
    BY <2>9 DEF GR!Refuse, GR!ToStore, GR!Answered
  <2>10. CASE GR!FileChanges
    BY <2>10 DEF GR!FileChanges
  <2>11. CASE GR!Tick
    BY <2>11 DEF GR!Tick
  <2>12. QED
    BY <2>1, <2>2, <2>3, <2>4, <2>5, <2>6, <2>7, <2>8, <2>9, <2>10, <2>11 DEF GR!Next
<1>3. GrantsInv => GR!GrantBound
  BY DEF GrantsInv
<1>4. QED
  BY <1>1, <1>2, <1>3, PTL DEF GR!Spec
------------------------------------------------------------------------------
(* Quarantine *)

\* The name of a file of the quarantine directory: a key, a separator and a version.
Join(a, x, b) == a \o <<x>> \o b

\* What joining three parts gives, place by place.
MadeOf(s, a, x, b) ==
  /\ Len(s) = Len(a) + 1 + Len(b)
  /\ \A k \in 1 .. Len(a) : s[k] = a[k]
  /\ s[Len(a) + 1] = x
  /\ \A k \in 1 .. Len(b) : s[Len(a) + 1 + k] = b[k]

\* Joining keeps every part at its place (the file name of quarantine.rs).
LEMMA JoinParts ==
  ASSUME NEW P, NEW a \in Seq(P), NEW x \in P, NEW b \in Seq(P)
  PROVE  MadeOf(Join(a, x, b), a, x, b)
<1> DEFINE u == a \o <<x>>
<1>1. /\ u \in Seq(P) /\ Len(u) = Len(a) + 1 /\ u[Len(a) + 1] = x
      /\ \A k \in 1 .. Len(a) : u[k] = a[k]
  OBVIOUS
<1> HIDE DEF u
<1>2. /\ u \o b \in Seq(P) /\ Len(u \o b) = Len(u) + Len(b)
      /\ \A k \in 1 .. Len(u) : (u \o b)[k] = u[k]
      /\ \A k \in 1 .. Len(b) : (u \o b)[Len(u) + k] = b[k]
  BY <1>1
<1>3. QED
  BY <1>1, <1>2 DEF u, Join, MadeOf

\* A name can be taken apart in one way only when what follows the separator has none.
LEMMA JoinedOnce ==
  ASSUME NEW P, NEW x \in P, NEW a \in Seq(P), NEW c \in Seq(P),
         NEW b \in Seq(P \ {x}), NEW d \in Seq(P \ {x}),
         Join(a, x, b) = Join(c, x, d)
  PROVE  a = c /\ b = d
<1> DEFINE s == Join(a, x, b)
<1>1. a \in Seq(P) /\ b \in Seq(P) /\ c \in Seq(P) /\ d \in Seq(P) /\ x \in P
  BY SeqMonotonic
<1>2. (\A k \in 1 .. Len(b) : b[k] # x) /\ (\A k \in 1 .. Len(d) : d[k] # x)
  <2>1. (\A k \in 1 .. Len(b) : b[k] \in P \ {x}) /\ (\A k \in 1 .. Len(d) : d[k] \in P \ {x})
    BY ElementOfSeq
  <2>2. QED
    BY <2>1
<1>3. /\ Len(a) \in Nat /\ Len(b) \in Nat /\ Len(c) \in Nat /\ Len(d) \in Nat
  OBVIOUS
<1>4. MadeOf(s, a, x, b)
  BY ONLY <1>1, JoinParts
<1>5. MadeOf(s, c, x, d)
  <2>1. s = Join(c, x, d)
    OBVIOUS
  <2> HIDE DEF s
  <2>2. QED
    BY ONLY <1>1, <2>1, JoinParts
<1> HIDE DEF s
<1>6. /\ Len(s) = Len(a) + 1 + Len(b)
      /\ \A k \in 1 .. Len(a) : s[k] = a[k]
      /\ s[Len(a) + 1] = x
      /\ \A k \in 1 .. Len(b) : s[Len(a) + 1 + k] = b[k]
  BY ONLY <1>4 DEF MadeOf
<1>7. /\ Len(s) = Len(c) + 1 + Len(d)
      /\ \A k \in 1 .. Len(c) : s[k] = c[k]
      /\ s[Len(c) + 1] = x
      /\ \A k \in 1 .. Len(d) : s[Len(c) + 1 + k] = d[k]
  BY ONLY <1>5 DEF MadeOf
<1>8. ~(Len(a) < Len(c))
  <2> SUFFICES ASSUME Len(a) < Len(c) PROVE FALSE
    OBVIOUS
  <2>1. Len(c) - Len(a) \in 1 .. Len(b) /\ Len(a) + 1 + (Len(c) - Len(a)) = Len(c) + 1
    BY <1>3, <1>6, <1>7
  <2>2. s[Len(c) + 1] = b[Len(c) - Len(a)]
    BY ONLY <2>1, <1>3, <1>6
  <2>3. QED
    BY <2>1, <2>2, <1>7, <1>2
<1>9. ~(Len(c) < Len(a))
  <2> SUFFICES ASSUME Len(c) < Len(a) PROVE FALSE
    OBVIOUS
  <2>1. Len(a) - Len(c) \in 1 .. Len(d) /\ Len(c) + 1 + (Len(a) - Len(c)) = Len(a) + 1
    BY <1>3, <1>6, <1>7
  <2>2. s[Len(a) + 1] = d[Len(a) - Len(c)]
    BY ONLY <2>1, <1>3, <1>7
  <2>3. QED
    BY <2>1, <2>2, <1>6, <1>2
<1>10. Len(a) = Len(c) /\ Len(b) = Len(d)
  BY <1>3, <1>6, <1>7, <1>8, <1>9
<1>11. \A k \in 1 .. Len(a) : a[k] = c[k]
  BY <1>6, <1>7, <1>10
<1>12. \A k \in 1 .. Len(b) : b[k] = d[k]
  BY <1>6, <1>7, <1>10
<1>13. a = c
  BY <1>10, <1>11, SeqEqual
<1>14. b = d
  BY <1>1, <1>10, <1>12, SeqEqual
<1>15. QED
  BY <1>13, <1>14

\* Two attachments share a file only when they are the same version of the same file.
LEMMA DestOfOne ==
  ASSUME QA!QuarantineAssumption, NEW a \in Attachments, NEW b \in Attachments,
         QA!Dest(a) = QA!Dest(b)
  PROVE  QA!Same(a, b)
<1>1. /\ QA!Separator \in STRING
      /\ a.key \in Seq(STRING) /\ a.version \in Seq(STRING \ {QA!Separator})
      /\ b.key \in Seq(STRING) /\ b.version \in Seq(STRING \ {QA!Separator})
  BY DEF QA!QuarantineAssumption
<1>2. Join(a.key, QA!Separator, a.version) = Join(b.key, QA!Separator, b.version) /\ a.ext = b.ext
  BY DEF QA!Dest, Join
<1>3. a.key = b.key /\ a.version = b.version
  <2>1. PICK P, x, s, t, u, v : /\ P = STRING /\ x = QA!Separator
                                /\ s = a.key /\ t = a.version /\ u = b.key /\ v = b.version
    OBVIOUS
  <2>2. /\ x \in P /\ s \in Seq(P) /\ u \in Seq(P) /\ t \in Seq(P \ {x}) /\ v \in Seq(P \ {x})
        /\ Join(s, x, t) = Join(u, x, v)
    BY ONLY <1>1, <1>2, <2>1
  <2>3. s = u /\ t = v
    BY ONLY <2>2, JoinedOnce
  <2>4. QED
    BY <2>1, <2>3
<1>4. QED
  BY <1>2, <1>3 DEF QA!Same

\* What CleanIsWhole says of one worker's last call.
WholeAt(w) ==
  /\ \A k \in DOMAIN audit[w] : audit[w][k][2]
  /\ Len(audit[w]) = 4
  /\ job[w].hash # None => hash[w] = job[w].hash
  /\ ~touched[w] =>
       /\ files[QA!Dest(job[w])] = hash[w]
       /\ SizeOf[hash[w]] = size[w]
       /\ job[w].size # 0 => size[w] = job[w].size

\* What is known of a worker at each step.  While nobody downloads to its file again,
\* what it observed is what the file still holds.
WorkerInv(w) ==
  /\ step[w] # "rest" => job[w] \in Attachments /\ outcome[w] # "Clean"
  /\ step[w] = "download" => audit[w] = <<>>
  /\ step[w] \in {"size", "hash", "check"} => audit[w] = << <<"Download", TRUE>> >>
  /\ step[w] \in {"hash", "check"} /\ ~touched[w] => size[w] = SizeOf[files[QA!Dest(job[w])]]
  /\ step[w] = "check" /\ ~touched[w] => hash[w] = files[QA!Dest(job[w])]
  /\ outcome[w] = "Clean" => job[w] \in Attachments /\ WholeAt(w)

\* Of the types, those the steps need.
QuarantineTypes ==
  /\ step \in [Workers -> {"rest", "download", "size", "hash", "check"}]
  /\ job \in [Workers -> Attachments \cup {None}]
  /\ DOMAIN files = QA!Paths
  /\ DOMAIN size = Workers /\ DOMAIN hash = Workers /\ DOMAIN outcome = Workers
  /\ DOMAIN audit = Workers
  /\ touched \in [Workers -> BOOLEAN]

\* The inductive invariant.
QuarantineInv == QuarantineTypes /\ \A w \in Workers : WorkerInv(w)

\* A joined sequence is as long as its parts together.
LEMMA LenOfJoin ==
  ASSUME NEW P, NEW a \in Seq(P), NEW b \in Seq(P)
  PROVE  a \o b \in Seq(P) /\ Len(a \o b) = Len(a) + Len(b)
  OBVIOUS

\* The records of an attachment that passes every check.
Passed == { <<"Download", TRUE>>, <<"HashCheck", TRUE>>, <<"MimeCheck", TRUE>>, <<"MalwareScan", TRUE>> }

\* The records of the download and of three passed checks are four, and all passed.
LEMMA FourRecords ==
  LET r == << <<"Download", TRUE>> >>
             \o << <<"HashCheck", TRUE>>, <<"MimeCheck", TRUE>>, <<"MalwareScan", TRUE>> >>
  IN  Len(r) = 4 /\ \A k \in DOMAIN r : r[k][2]
<1> DEFINE a == << <<"Download", TRUE>> >>
           b == << <<"HashCheck", TRUE>>, <<"MimeCheck", TRUE>>, <<"MalwareScan", TRUE>> >>
           r == a \o b
<1>1. a \in Seq(Passed) /\ b \in Seq(Passed)
  BY DEF Passed
<1>2. Len(a) = 1 /\ Len(b) = 3
  OBVIOUS
<1>3. \A p \in Passed : p[2]
  <2>1. /\ <<"Download", TRUE>>[2] = TRUE /\ <<"HashCheck", TRUE>>[2] = TRUE
        /\ <<"MimeCheck", TRUE>>[2] = TRUE /\ <<"MalwareScan", TRUE>>[2] = TRUE
    OBVIOUS
  <2>2. QED
    BY <2>1, Zenon DEF Passed
<1> HIDE DEF a, b
<1>4. r \in Seq(Passed) /\ Len(r) = Len(a) + Len(b)
  BY ONLY <1>1, LenOfJoin
<1> HIDE DEF r
<1>5. Len(r) = 4
  BY ONLY <1>4, <1>2
<1>6. \A k \in DOMAIN r : r[k][2]
  BY ONLY <1>4, <1>3
<1>7. QED
  BY <1>5, <1>6 DEF r, a, b

\* When size, type and hash agree, Check completes the records of a clean attachment.
LEMMA CleanRecords ==
  ASSUME NEW w, audit[w] = << <<"Download", TRUE>> >>, QA!SizeAgrees(w), QA!MimeAgrees(w), QA!HashAgrees(w)
  PROVE  LET r == audit[w] \o QA!Records(w) IN Len(r) = 4 /\ \A k \in DOMAIN r : r[k][2]
<1>1. QA!Records(w) = << <<"HashCheck", TRUE>>, <<"MimeCheck", TRUE>>, <<"MalwareScan", TRUE>> >>
  BY DEF QA!Records
<1>2. QED
  BY <1>1, FourRecords

\* An attachment is called clean only after every check passed, and is what was checked
\* as long as no download of the same version of the same file comes after its own, for
\* any workers and attachments.
THEOREM QuarantineIsWhole ==
  ASSUME QA!QuarantineAssumption
  PROVE  QA!QuarantineSpec => []QA!CleanIsWhole
<1>1. QA!QuarantineInit => QuarantineInv
  BY DEF QA!QuarantineInit, QuarantineInv, QuarantineTypes, WorkerInv, QA!QuarantineAssumption
<1>2. QuarantineInv /\ [QA!QuarantineNext]_QA!quarantineVars => QuarantineInv'
  <2> SUFFICES ASSUME QuarantineInv, [QA!QuarantineNext]_QA!quarantineVars PROVE QuarantineInv'
    OBVIOUS
  <2> USE DEF QuarantineInv
  <2>1. CASE UNCHANGED QA!quarantineVars
    BY <2>1 DEF QA!quarantineVars, QuarantineTypes, WorkerInv, WholeAt
  <2>2. ASSUME NEW w \in Workers, NEW a \in Attachments, QA!Process(w, a) PROVE QuarantineInv'
    <3>1. QuarantineTypes'
      BY <2>2 DEF QA!Process, QuarantineTypes, QA!Return
    <3>2. ASSUME NEW v \in Workers, v # w PROVE WorkerInv(v)'
      BY <2>2, <3>2 DEF QA!Process, QuarantineTypes, QA!Return, WorkerInv, WholeAt
    <3>3. WorkerInv(w)'
      BY <2>2 DEF QA!Process, QuarantineTypes, QA!Return, WorkerInv, QA!QuarantineAssumption
    <3>4. QED
      BY <3>1, <3>2, <3>3
  <2>3. ASSUME NEW w \in Workers, QA!Download(w) PROVE QuarantineInv'
    <3>1. job[w] \in Attachments /\ job' = job /\ size' = size /\ hash' = hash
      BY <2>3 DEF QA!Download, WorkerInv
    <3>2. QuarantineTypes'
      <4>1. DOMAIN files' = QA!Paths
        BY <2>3 DEF QA!Download, QuarantineTypes
      <4>2. touched' \in [Workers -> BOOLEAN]
        BY <2>3 DEF QA!Download, QuarantineTypes
      <4>3. step' \in [Workers -> {"rest", "download", "size", "hash", "check"}]
            /\ DOMAIN outcome' = Workers /\ DOMAIN audit' = Workers
        <5>1. CASE QA!Record(w, "Download", TRUE) /\ QA!Goto(w, "size")
          BY <5>1 DEF QuarantineTypes, QA!Record, QA!Goto
        <5>2. CASE QA!Record(w, "Download", FALSE) /\ QA!Return(w, "IOError")
          BY <5>2 DEF QuarantineTypes, QA!Record, QA!Return
        <5>3. QED
          BY <5>1, <5>2, <2>3 DEF QA!Download
      <4>4. QED
        BY <3>1, <4>1, <4>2, <4>3 DEF QuarantineTypes
    <3>3. ASSUME NEW v \in Workers, v # w PROVE WorkerInv(v)'
      <4>1. /\ step'[v] = step[v] /\ job' = job /\ size' = size /\ hash' = hash
            /\ outcome'[v] = outcome[v] /\ audit'[v] = audit[v]
        BY <2>3, <3>3 DEF QA!Download, QuarantineTypes, QA!Return, QA!Goto, QA!Record
      <4>2. touched'[v] = (touched[v] \/ (job[v] # None /\ QA!Same(job[v], job[w])))
        BY <2>3, <3>3 DEF QA!Download
      <4>3. ASSUME job[v] \in Attachments, ~touched'[v]
            PROVE ~touched[v] /\ files'[QA!Dest(job[v])] = files[QA!Dest(job[v])]
        <5>1. ~touched[v] /\ ~QA!Same(job[v], job[w])
          BY <4>2, <4>3 DEF QA!QuarantineAssumption
        <5>2. QA!Dest(job[v]) # QA!Dest(job[w])
          BY <5>1, <4>3, <3>1, DestOfOne
        <5>3. PICK c \in Contents : files' = [files EXCEPT ![QA!Dest(job[w])] = c]
          BY <2>3 DEF QA!Download
        <5>4. QED
          BY <5>1, <5>2, <5>3
      <4>4. WorkerInv(v)
        OBVIOUS
      <4>5. QED
        BY <4>1, <4>3, <4>4 DEF WorkerInv, WholeAt
    <3>4. WorkerInv(w)'
      <4>1. WorkerInv(w) /\ step[w] = "download" /\ job' = job
        BY <2>3 DEF QA!Download
      <4>2. audit[w] = <<>> /\ outcome[w] # "Clean"
        BY <4>1 DEF WorkerInv
      <4>3. \/ step'[w] = "size" /\ audit'[w] = << <<"Download", TRUE>> >> /\ outcome'[w] = outcome[w]
            \/ step'[w] = "rest" /\ outcome'[w] = "IOError"
        <5>1. CASE QA!Record(w, "Download", TRUE) /\ QA!Goto(w, "size")
          <6>1. Append(<<>>, <<"Download", TRUE>>) = << <<"Download", TRUE>> >>
            OBVIOUS
          <6>2. audit'[w] = Append(<<>>, <<"Download", TRUE>>)
            BY <5>1, <4>2 DEF QuarantineTypes, QA!Record
          <6>3. QED
            BY <5>1, <6>1, <6>2 DEF QuarantineTypes, QA!Goto
        <5>2. CASE QA!Record(w, "Download", FALSE) /\ QA!Return(w, "IOError")
          BY <5>2 DEF QuarantineTypes, QA!Record, QA!Return
        <5>3. QED
          BY <5>1, <5>2, <2>3 DEF QA!Download
      <4>4. QED
        BY <3>2, <4>1, <4>2, <4>3 DEF WorkerInv
    <3>5. QED
      BY <3>2, <3>3, <3>4
  <2>4. ASSUME NEW w \in Workers, QA!ObserveSize(w) PROVE QuarantineInv'
    BY <2>4 DEF QA!ObserveSize, QuarantineTypes, QA!Goto, WorkerInv, WholeAt
  <2>5. ASSUME NEW w \in Workers, QA!ObserveHash(w) PROVE QuarantineInv'
    BY <2>5 DEF QA!ObserveHash, QuarantineTypes, QA!Goto, WorkerInv, WholeAt
  <2>6. ASSUME NEW w \in Workers, QA!Check(w) PROVE QuarantineInv'
    <3>1. QuarantineTypes'
      BY <2>6 DEF QA!Check, QuarantineTypes, QA!Return
    <3>2. ASSUME NEW v \in Workers, v # w PROVE WorkerInv(v)'
      BY <2>6, <3>2 DEF QA!Check, QuarantineTypes, QA!Return, WorkerInv, WholeAt
    <3>3. WorkerInv(w)'
      <4>1. /\ job[w] \in Attachments /\ job' = job /\ step'[w] = "rest"
            /\ UNCHANGED <<files, size, hash, touched>>
            /\ audit[w] = << <<"Download", TRUE>> >>
            /\ audit'[w] = audit[w] \o QA!Records(w)
        BY <2>6 DEF QA!Check, QA!Return, QuarantineTypes, WorkerInv
      <4>2. ASSUME outcome'[w] = "Clean" PROVE QA!SizeAgrees(w) /\ QA!MimeAgrees(w) /\ QA!HashAgrees(w)
        BY <2>6, <4>2 DEF QA!Check, QA!Return, QuarantineTypes
      <4>3. ASSUME outcome'[w] = "Clean" PROVE WholeAt(w)'
        <5>1. Len(audit'[w]) = 4 /\ \A k \in DOMAIN audit'[w] : audit'[w][k][2]
          BY <4>1, <4>2, <4>3, CleanRecords
        <5>2. /\ job'[w].hash # None => hash'[w] = job'[w].hash
              /\ job'[w].size # 0 => size'[w] = job'[w].size
          BY <4>1, <4>2, <4>3 DEF QA!SizeAgrees, QA!HashAgrees
        <5>3. ~touched[w] => size[w] = SizeOf[files[QA!Dest(job[w])]] /\ hash[w] = files[QA!Dest(job[w])]
          BY <2>6 DEF QA!Check, WorkerInv
        <5>4. QED
          BY <4>1, <5>1, <5>2, <5>3 DEF WholeAt
      <4>4. QED
        BY <4>1, <4>3 DEF WorkerInv
    <3>4. QED
      BY <3>1, <3>2, <3>3
  <2>7. QED
    BY <2>1, <2>2, <2>3, <2>4, <2>5, <2>6 DEF QA!QuarantineNext
<1>3. QuarantineInv => QA!CleanIsWhole
  BY DEF QuarantineInv, WorkerInv, WholeAt, QA!CleanIsWhole
<1>4. QED
  BY <1>1, <1>2, <1>3, PTL DEF QA!QuarantineSpec
------------------------------------------------------------------------------
(* Provider *)

\* A call that has not returned has handed nothing over: the only retry follows an
\* answer that says the message was not taken.
SendInv(s) ==
  /\ at[s] # "rest" => delivered[s] = 0 /\ verdict[s] = None
  /\ delivered[s] \in {0, 1}
  /\ verdict[s] = "Ok" => delivered[s] = 1

\* The inductive invariant.
ProviderInv ==
  /\ at \in [Senders -> {"rest", "get", "fetch", "send"}]
  /\ DOMAIN delivered = Senders /\ DOMAIN verdict = Senders
  /\ \A s \in Senders : SendInv(s)

\* One call of send hands its message over at most once, and says Ok only when it did,
\* for any number of senders that share, refresh and invalidate the token.
THEOREM ProviderDelivers ==
  ASSUME PR!ProviderAssumption
  PROVE  PR!ProviderInit /\ [][PR!ProviderNext]_PR!providerVars => []PR!DeliveredOnce
<1>1. PR!ProviderInit => ProviderInv
  BY DEF PR!ProviderInit, PR!ProviderAssumption, ProviderInv, SendInv
<1>2. ProviderInv /\ [PR!ProviderNext]_PR!providerVars => ProviderInv'
  <2> SUFFICES ASSUME ProviderInv, [PR!ProviderNext]_PR!providerVars PROVE ProviderInv'
    OBVIOUS
  <2> USE DEF ProviderInv, SendInv, PR!ProviderAssumption
  <2>1. CASE UNCHANGED PR!providerVars
    BY <2>1 DEF PR!providerVars
  <2>2. ASSUME NEW s \in Senders, PR!Send(s) PROVE ProviderInv'
    BY <2>2 DEF PR!Send
  <2>3. ASSUME NEW s \in Senders, PR!UseCached(s) PROVE ProviderInv'
    BY <2>3 DEF PR!UseCached
  <2>4. ASSUME NEW s \in Senders, PR!Ask(s) PROVE ProviderInv'
    BY <2>4 DEF PR!Ask
  <2>5. ASSUME NEW s \in Senders, PR!Fetched(s) PROVE ProviderInv'
    BY <2>5 DEF PR!Fetched
  <2>6. ASSUME NEW s \in Senders, PR!NoToken(s) PROVE ProviderInv'
    BY <2>6 DEF PR!NoToken, PR!Return
  <2>7. ASSUME NEW s \in Senders, PR!DoSend(s) PROVE ProviderInv'
    <3>1. PICK o \in PR!Outcomes(s) :
            /\ delivered' = [delivered EXCEPT ![s] = @ + (IF o.took THEN 1 ELSE 0)]
            /\ \/ /\ o.says = "Expired" 
                  /\ at' = [at EXCEPT ![s] = "get"] /\ UNCHANGED verdict
               \/ PR!Return(s, IF o.says = "Expired" THEN "Rejected" ELSE o.says)
      BY <2>7 DEF PR!DoSend, PR!TriesAgain
    <3>2. /\ o.took = TRUE \/ o.took = FALSE
          /\ o.says = "Ok" => o.took = TRUE
          /\ o.says = "Expired" => o.took = FALSE
      BY DEF PR!Outcomes
    <3>3. delivered[s] = 0
      BY <2>7 DEF PR!DoSend
    <3>4. delivered' = [delivered EXCEPT ![s] = IF o.took THEN 1 ELSE 0]
      BY <3>1, <3>2, <3>3
    <3>5. CASE o.says = "Expired" /\ at' = [at EXCEPT ![s] = "get"] /\ UNCHANGED verdict
      BY <3>2, <3>4, <3>5, <2>7 DEF PR!DoSend
    <3>6. CASE PR!Return(s, IF o.says = "Expired" THEN "Rejected" ELSE o.says)
      BY <3>2, <3>4, <3>6 DEF PR!Return
    <3>7. QED
      BY <3>1, <3>5, <3>6
  <2>8. ASSUME NEW t \in valid, PR!Expire(t) PROVE ProviderInv'
    BY <2>8 DEF PR!Expire
  <2>9. QED
    BY <2>1, <2>2, <2>3, <2>4, <2>5, <2>6, <2>7, <2>8 DEF PR!ProviderNext
<1>3. ProviderInv => PR!DeliveredOnce
  BY DEF ProviderInv, SendInv, PR!DeliveredOnce
<1>4. QED
  BY <1>1, <1>2, <1>3, PTL

------------------------------------------------------------------------------
(* SandboxRun *)

\* The inductive invariant: the timeout thread raises its flag before it can kill, is
\* through only when the child has ended, and the running thread returns only then.
ChildInv ==
  /\ child = "killed" => timedOut
  /\ timer \in {"asleep", "locking", "done"}
  /\ timer # "asleep" => timedOut = TRUE
  /\ timer = "done" => ~SB!Alive
  /\ runner = "done" /\ result # "io" =>
       /\ ~SB!Alive
       /\ child = "killed" => result = "timeout"
       /\ child = "exited" => result = "finished"

\* A killed child is reported as timed out, one that exited is reported with its code,
\* and when both threads are through no child is left, in every interleaving of them.
THEOREM SandboxTells == SB!Init /\ [][SB!Next]_SB!vars => []SB!SandboxSettles
<1>1. SB!Init => ChildInv
  BY DEF SB!Init, ChildInv, SB!Alive
<1>2. ChildInv /\ [SB!Next]_SB!vars => ChildInv'
  <2> SUFFICES ASSUME ChildInv, [SB!Next]_SB!vars PROVE ChildInv'
    OBVIOUS
  <2> USE DEF ChildInv, SB!Alive
  <2>1. CASE UNCHANGED SB!vars
    BY <2>1 DEF SB!vars
  <2>2. CASE SB!Runner
    BY <2>2 DEF SB!Runner, SB!Lock, SB!Fed, SB!FeedFails, SB!Drain, SB!LockToWait, SB!Waited, SB!Outcome
  <2>3. CASE SB!Timer
    BY <2>3 DEF SB!Timer, SB!Wake, SB!Kill
  <2>4. CASE SB!Child
    BY <2>4 DEF SB!Child, SB!TakesInput, SB!ClosesOutput, SB!Ends
  <2>5. QED
    BY <2>1, <2>2, <2>3, <2>4 DEF SB!Next
<1>3. ChildInv => SB!SandboxSettles
  BY DEF ChildInv, SB!SandboxSettles, SB!TimeoutTold, SB!NothingLeft
<1>4. QED
  BY <1>1, <1>2, <1>3, PTL

------------------------------------------------------------------------------
(* Numbers and recursion *)

\* A nonempty set of naturals has a least element.
LEMMA Least == ASSUME NEW T, T \subseteq Nat, T # {} PROVE \E n \in T : \A m \in T : n <= m
<1>1. \E n \in T : \A m \in T : ~(<<m, n>> \in OpToRel(<, Nat))
  BY NatLessThanWellFounded, WFMin
<1>2. ASSUME NEW n \in Nat, NEW m \in Nat, m < n PROVE <<m, n>> \in OpToRel(<, Nat)
  BY <1>2 DEF OpToRel
<1>3. \E n \in T : \A m \in T : ~(m < n)
  BY Zenon, <1>1, <1>2
<1>4. QED
  BY <1>3

\* A set of numbers no larger than m has a greatest.
LEMMA Greatest ==
  ASSUME NEW m \in Nat, NEW T, T \subseteq 1 .. m, T # {}
  PROVE  \E n \in T : \A k \in T : k <= n
<1> DEFINE U == {n \in Nat : m - n \in T}
<1>1. \A k \in T : m - k \in U
  BY m \in Nat, T \subseteq 1 .. m
<1>2. U \subseteq Nat /\ U # {}
  BY <1>1
<1>3. PICK n \in U : \A k \in U : n <= k
  <2> HIDE DEF U
  <2>1. QED
    BY <1>2, Least
<1>4. \A k \in T : k <= m - n
  <2>1. ASSUME NEW k \in T PROVE k <= m - n
    <3>1. k \in Nat /\ n <= m - k /\ n \in Nat
      BY <1>1, <1>3
    <3>2. QED
      BY ONLY m \in Nat, <3>1
  <2>2. QED
    BY <2>1
<1>5. m - n \in T
  BY <1>3
<1>6. QED
  BY <1>4, <1>5

\* A set of numbers that begins with 0 and has the next of each is all of them.
LEMMA StepByStep ==
  ASSUME NEW m \in Nat, NEW T, 0 \in T, \A k \in 1 .. m : k - 1 \in T => k \in T
  PROVE  \A k \in 0 .. m : k \in T
<1> DEFINE bad == {k \in 0 .. m : k \notin T}
<1>1. SUFFICES ASSUME bad # {} PROVE FALSE
  OBVIOUS
<1>2. PICK n \in bad : \A k \in bad : n <= k
  <2>1. bad \subseteq Nat
    OBVIOUS
  <2>2. QED
    BY <1>1, <2>1, Least
<1>3. n \in 1 .. m /\ n - 1 \in 0 .. m /\ ~(n <= n - 1)
  BY <1>2
<1>4. n - 1 \in T
  BY <1>2, <1>3
<1>5. QED
  BY <1>2, <1>3, <1>4

\* A function on 0 .. m that each value of determines the next.
FollowsFrom(f, a, after, m) == f = [k \in 0 .. m |-> IF k = 0 THEN a ELSE after[k][f[k - 1]]]

\* There is one from every beginning.
LEMMA Recursion ==
  ASSUME NEW S, NEW a \in S, NEW m \in Nat, NEW after \in [1 .. m -> [S -> S]]
  PROVE  \E f \in [0 .. m -> S] : FollowsFrom(f, a, after, m)
<1> DEFINE T == {n \in 0 .. m : \E f \in [0 .. n -> S] : FollowsFrom(f, a, after, n)}
<1>1. 0 \in T
  <2>1. [k \in 0 .. 0 |-> a] \in [0 .. 0 -> S] /\ FollowsFrom([k \in 0 .. 0 |-> a], a, after, 0)
    BY DEF FollowsFrom
  <2>2. QED
    BY <2>1
<1>2. ASSUME NEW n \in 1 .. m, n - 1 \in T PROVE n \in T
  <2>1. PICK f \in [0 .. n - 1 -> S] : FollowsFrom(f, a, after, n - 1)
    BY <1>2
  <2>0. n \in Nat /\ n # 0 /\ after[n] \in [S -> S] /\ n - 1 \in 0 .. n - 1
    OBVIOUS
  <2> DEFINE g == [k \in 0 .. n |-> IF k = n THEN after[n][f[n - 1]] ELSE f[k]]
  <2>2. \A k \in 0 .. n - 1 : f[k] = IF k = 0 THEN a ELSE after[k][f[k - 1]]
    BY <2>1 DEF FollowsFrom
  <2>3. \A k \in 0 .. n - 1 : k \in 0 .. n /\ k # n /\ g[k] = f[k]
    BY <2>0
  <2>4. g[n] = after[n][f[n - 1]] /\ f[n - 1] \in S /\ after[n][f[n - 1]] \in S
    BY <2>0, <2>1
  <2>5. g \in [0 .. n -> S]
    <3>1. \A k \in 0 .. n : k # n => k \in 0 .. n - 1
      BY <2>0
    <3>2. QED
      BY <2>1, <2>4, <3>1
  <2>6. ASSUME NEW k \in 0 .. n PROVE g[k] = IF k = 0 THEN a ELSE after[k][g[k - 1]]
    <3>1. CASE k = n
      <4>1. g[k - 1] = f[n - 1]
        BY <2>0, <2>3, <3>1
      <4>2. QED
        BY <2>0, <2>3, <2>4, <3>1, <4>1
    <3>2. CASE k = 0
      BY <2>0, <2>2, <2>3, <3>2
    <3>3. CASE k # n /\ k # 0
      <4>1. k \in 0 .. n - 1 /\ k - 1 \in 0 .. n - 1
        BY <2>0, <3>3
      <4>2. g[k] = f[k] /\ g[k - 1] = f[k - 1]
        BY <2>3, <4>1
      <4>3. QED
        BY <2>2, <3>3, <4>1, <4>2
    <3>4. QED
      BY <3>1, <3>2, <3>3
  <2>7. g = [k \in 0 .. n |-> g[k]]
    OBVIOUS
  <2>8. FollowsFrom(g, a, after, n)
    <3> HIDE DEF g
    <3>1. QED
      BY <2>6, <2>7 DEF FollowsFrom
  <2>9. QED
    BY <2>5, <2>8
<1>3. m \in T
  <2> HIDE DEF T
  <2>1. \A k \in 1 .. m : k - 1 \in T => k \in T
    BY <1>2
  <2>2. \A k \in 0 .. m : k \in T
    BY <1>1, <2>1, StepByStep
  <2>3. QED
    BY <2>2
<1>4. QED
  BY <1>3

------------------------------------------------------------------------------
(* Paths *)

\* What is somewhere: a real place, a link, or nothing.
Places == Nodes \cup DOMAIN links \cup {None}

\* Where one name leads from a place.
NextPlace(from, name) ==
  IF from \notin Nodes THEN None
  ELSE IF name = ".." THEN IF from = <<>> THEN <<>> ELSE FS!Front(from)
  ELSE IF Append(from, name) \in Nodes \cup DOMAIN links THEN Append(from, name) ELSE None

\* The beginning of a real path is real, and no real path is a link.
LEMMA NodesAre ==
  ASSUME FS!PathAssumption, links \in LinkSets
  PROVE  /\ <<>> \in Nodes /\ None \notin Nodes /\ None \notin DOMAIN links
         /\ \A p \in Nodes : p \in FS!Names /\ p \notin DOMAIN links /\ \A k \in 0 .. Len(p) : SubSeq(p, 1, k) \in Nodes
         /\ \A p \in Nodes : p # <<>> => FS!Front(p) \in Nodes
         /\ DOMAIN links \subseteq FS!Names /\ \A l \in DOMAIN links : links[l] \in FS!Names
<1>1. /\ <<>> \in Nodes /\ Nodes \subseteq FS!Names /\ None \notin FS!Names
      /\ \A p \in Nodes : \A k \in DOMAIN p : SubSeq(p, 1, k) \in Nodes
      /\ links \in [DOMAIN links -> FS!Names] /\ \A l \in DOMAIN links : l \in FS!Names \ Nodes
  BY DEF FS!PathAssumption
<1>2. ASSUME NEW p \in Nodes, NEW k \in 0 .. Len(p) PROVE SubSeq(p, 1, k) \in Nodes
  <2>1. p \in Seq(STRING)
    BY <1>1 DEF FS!Names
  <2>2. CASE k = 0
    <3>1. SubSeq(p, 1, 0) = <<>>
      BY <2>1, SubSeqEmpty, LenProperties
    <3>2. QED
      BY <1>1, <2>2, <3>1
  <2>3. CASE k # 0
    <3>1. k \in DOMAIN p
      BY <2>1, <2>3, LenProperties
    <3>2. QED
      BY <1>1, <3>1
  <2>4. QED
    BY <2>2, <2>3
<1>3. ASSUME NEW p \in Nodes, p # <<>> PROVE FS!Front(p) \in Nodes
  <2>1. p \in Seq(STRING)
    BY <1>1 DEF FS!Names
  <2>2. Len(p) - 1 \in 0 .. Len(p)
    BY <1>3, <2>1, EmptySeq, LenProperties
  <2>3. QED
    BY <1>2, <2>2 DEF FS!Front
<1>4. QED
  BY <1>1, <1>2, <1>3

\* From a place one comes to a place.
LEMMA NextPlaceIs ==
  ASSUME FS!PathAssumption, links \in LinkSets, NEW from \in Places, NEW name
  PROVE  NextPlace(from, name) \in Places
BY NodesAre DEF NextPlace, Places

\* The places that the names of a path lead to.
AlongIs(way, path) ==
  /\ way = FS!Along(path) /\ way \in [0 .. Len(path) -> Places] /\ way[0] = <<>>
  /\ \A k \in 1 .. Len(path) : way[k] = NextPlace(way[k - 1], path[k])

\* There are such.
LEMMA AlongSteps ==
  ASSUME FS!PathAssumption, links \in LinkSets, NEW path \in FS!Names
  PROVE  AlongIs(FS!Along(path), path)
<1>1. PICK m \in Nat : m = Len(path)
  BY LenProperties DEF FS!Names
<1>2. PICK first \in Places : first = <<>>
  BY NodesAre DEF Places
<1> DEFINE next(k, a) == NextPlace(a, path[k])
           Up(f) == f = [k \in 0 .. m |-> IF k = 0 THEN first ELSE next(k, f[k - 1])]
           after == [k \in 1 .. m |-> [a \in Places |-> next(k, a)]]
           g == CHOOSE f : Up(f)
<1>3. \A k, a : a \in Places => next(k, a) \in Places
  BY NextPlaceIs
<1>4. \E f \in [0 .. m -> Places] : Up(f)
  <2> HIDE DEF next
  <2>1. after \in [1 .. m -> [Places -> Places]]
    BY <1>3
  <2>2. PICK f \in [0 .. m -> Places] : FollowsFrom(f, first, after, m)
    <3> HIDE DEF after
    <3>1. QED
      BY <1>1, <1>2, <2>1, Recursion
  <2>3. ASSUME NEW k \in 0 .. m, k # 0 PROVE after[k][f[k - 1]] = next(k, f[k - 1])
    <3>1. k \in 1 .. m /\ k - 1 \in 0 .. m
      BY <1>1, <2>3
    <3>2. f[k - 1] \in Places
      BY <3>1
    <3>3. QED
      BY <3>1, <3>2
  <2>4. Up(f)
    <3> HIDE DEF after
    <3>1. QED
      BY <2>2, <2>3 DEF FollowsFrom
  <2>5. QED
    BY <2>4
<1>5. Up(g)
  BY <1>4
<1>6. FS!Along(path) = g
  BY <1>1, <1>2 DEF FS!Along, NextPlace
<1> HIDE DEF g
<1>7. /\ g = [k \in 0 .. m |-> g[k]]
      /\ \A k \in 0 .. m : g[k] = IF k = 0 THEN first ELSE next(k, g[k - 1])
  <2> HIDE DEF next
  <2>1. QED
    BY <1>5
<1>8. g[0] = <<>> /\ \A k \in 1 .. m : k - 1 \in 0 .. m /\ g[k] = next(k, g[k - 1])
  <2>1. 0 \in 0 .. m /\ \A k \in 1 .. m : k \in 0 .. m /\ k # 0 /\ k - 1 \in 0 .. m
    BY <1>1
  <2> HIDE DEF next
  <2>2. QED
    BY <1>2, <1>7, <2>1
<1> DEFINE R == {k \in 0 .. m : g[k] \in Places}
<1>9. \A k \in 0 .. m : k \in R
  <2>1. 0 \in R
    BY <1>1, <1>2, <1>8
  <2>2. \A k \in 1 .. m : k - 1 \in R => k \in R
    <3>1. \A k \in 1 .. m : k \in 0 .. m
      BY <1>1
    <3> HIDE DEF next
    <3>2. QED
      BY <1>3, <1>8, <3>1
  <2> HIDE DEF R
  <2>3. QED
    BY <1>1, <2>1, <2>2, StepByStep
<1>10. g \in [0 .. m -> Places]
  <2>1. \A k \in 0 .. m : g[k] \in Places
    BY <1>9
  <2> HIDE DEF next
  <2>2. QED
    BY <1>7, <2>1
<1>11. QED
  BY <1>1, <1>6, <1>8, <1>10 DEF AlongIs

\* The places on a path that are links.
LinksOn(path) == {k \in 1 .. Len(path) : FS!Along(path)[k] \in DOMAIN links}

\* Where a path goes on from the link it meets.
GoesOn(path) ==
  LET k == CHOOSE m \in LinksOn(path) : TRUE
  IN links[FS!Along(path)[k]] \o SubSeq(path, k + 1, Len(path))

\* A path is resolved without a link, or from the link on, where `deeper` resolves what
\* is left.
Led(deeper, path) ==
  IF LinksOn(path) = {} THEN FS!Along(path)[Len(path)] ELSE deeper[GoesOn(path)]

\* From a link on a path of names is left, and without a link a path leads to a real place.
LEMMA LedIs ==
  ASSUME FS!PathAssumption, links \in LinkSets, NEW path \in FS!Names
  PROVE  /\ LinksOn(path) # {} => GoesOn(path) \in FS!Names
         /\ LinksOn(path) = {} => FS!Along(path)[Len(path)] \in Nodes \cup {None}
<1>1. PICK way : AlongIs(way, path)
  BY AlongSteps
<1>2. PICK m \in Nat : m = Len(path) /\ path \in Seq(STRING)
  BY LenProperties DEF FS!Names
<1>3. ASSUME LinksOn(path) # {} PROVE GoesOn(path) \in FS!Names
  <2>1. PICK k \in 1 .. m : k = (CHOOSE n \in LinksOn(path) : TRUE) /\ way[k] \in DOMAIN links
    BY <1>1, <1>2, <1>3 DEF LinksOn, AlongIs
  <2>2. links[way[k]] \in Seq(STRING)
    BY <2>1, NodesAre DEF FS!Names
  <2>3. SubSeq(path, k + 1, m) \in Seq(STRING)
    BY <1>2, SubSeqProperties
  <2>4. links[way[k]] \o SubSeq(path, k + 1, m) \in Seq(STRING)
    BY <2>2, <2>3, ConcatProperties
  <2>5. QED
    BY <1>1, <1>2, <2>1, <2>4 DEF GoesOn, AlongIs, FS!Names
<1>4. ASSUME LinksOn(path) = {} PROVE way[m] \in Nodes \cup {None}
  <2>1. CASE m = 0
    BY <1>1, <2>1, NodesAre DEF AlongIs
  <2>2. CASE m # 0
    <3>1. m \in 1 .. m /\ m \in 0 .. m
      BY <1>2, <2>2
    <3>2. way[m] \notin DOMAIN links
      BY <1>1, <1>2, <1>4, <3>1 DEF LinksOn, AlongIs
    <3>3. way[m] \in Places
      BY <1>1, <1>2, <3>1 DEF AlongIs
    <3>4. QED
      BY <3>2, <3>3 DEF Places
  <2>3. QED
    BY <2>1, <2>2
<1>5. QED
  BY <1>1, <1>2, <1>3, <1>4 DEF AlongIs

\* Every path leads to a real place or nowhere, and by its names if it meets no link.
LEMMA ResolvedIs ==
  ASSUME FS!PathAssumption, links \in LinkSets
  PROVE  \A path \in FS!Names :
           /\ FS!Canonical(path) \in Nodes \cup {None}
           /\ LinksOn(path) = {} => FS!Canonical(path) = FS!Along(path)[Len(path)]
<1>1. PICK m \in Nat : m = MaxLinks
  BY DEF FS!PathAssumption
<1>2. PICK S : S = [FS!Names -> Nodes \cup {None}]
  OBVIOUS
<1> DEFINE none == [path \in FS!Names |-> None]
           Deeper(f) == [path \in FS!Names |-> Led(f, path)]
           Up(f) == f = [fuel \in 0 .. m |-> [path \in FS!Names |->
                      LET way == FS!Along(path)
                          met == {k \in 1 .. Len(path) : way[k] \in DOMAIN links}
                      IN IF met = {} THEN way[Len(path)]
                         ELSE IF fuel = 0 THEN None
                         ELSE LET k == CHOOSE n \in met : TRUE IN
                              f[fuel - 1][links[way[k]] \o SubSeq(path, k + 1, Len(path))]]]
           after == [k \in 1 .. m |-> [f \in S |-> Deeper(f)]]
           g == CHOOSE f : Up(f)
<1>3. \A f \in S : Deeper(f) \in S
  <2>1. ASSUME NEW f \in S, NEW path \in FS!Names PROVE Led(f, path) \in Nodes \cup {None}
    BY <1>2, <2>1, LedIs DEF Led
  <2>2. QED
    BY <1>2, <2>1
<1>4. none \in S
  BY <1>2
<1>5. \E f \in [0 .. m -> S] : f = [k \in 0 .. m |-> IF k = 0 THEN Deeper(none) ELSE Deeper(f[k - 1])]
  <2> HIDE DEF none, Deeper
  <2>1. after \in [1 .. m -> [S -> S]]
    BY <1>3
  <2>2. PICK f \in [0 .. m -> S] : FollowsFrom(f, Deeper(none), after, m)
    <3> HIDE DEF after
    <3>1. QED
      BY <1>3, <1>4, <2>1, Recursion
  <2>3. ASSUME NEW k \in 0 .. m, k # 0 PROVE after[k][f[k - 1]] = Deeper(f[k - 1])
    <3>1. k \in 1 .. m /\ k - 1 \in 0 .. m
      BY <1>1, <2>3
    <3>2. f[k - 1] \in S
      BY <3>1
    <3>3. QED
      BY <3>1, <3>2
  <2>4. f = [k \in 0 .. m |-> IF k = 0 THEN Deeper(none) ELSE Deeper(f[k - 1])]
    <3> HIDE DEF after
    <3>1. QED
      BY <2>2, <2>3 DEF FollowsFrom
  <2>5. QED
    BY <2>4
<1>6. \A f : Up(f) <=> f = [k \in 0 .. m |-> IF k = 0 THEN Deeper(none) ELSE Deeper(f[k - 1])]
  <2> DEFINE Where(f, fuel, path) ==
               LET way == FS!Along(path)
                   met == {k \in 1 .. Len(path) : way[k] \in DOMAIN links}
               IN IF met = {} THEN way[Len(path)]
                  ELSE IF fuel = 0 THEN None
                  ELSE LET k == CHOOSE n \in met : TRUE IN
                       f[fuel - 1][links[way[k]] \o SubSeq(path, k + 1, Len(path))]
  <2>1. ASSUME NEW f, NEW fuel, NEW path \in FS!Names, fuel = 0
        PROVE  Where(f, fuel, path) = Led(none, path)
    <3>1. Where(f, fuel, path) = IF LinksOn(path) = {} THEN FS!Along(path)[Len(path)] ELSE None
      BY <2>1 DEF LinksOn
    <3>2. LinksOn(path) # {} => Led(none, path) = None
      BY LedIs DEF Led
    <3>3. LinksOn(path) = {} => Led(none, path) = FS!Along(path)[Len(path)]
      BY DEF Led
    <3> HIDE DEF Where, none
    <3>4. QED
      BY <3>1, <3>2, <3>3
  <2>2. ASSUME NEW f, NEW fuel, NEW path, fuel # 0
        PROVE  Where(f, fuel, path) = Led(f[fuel - 1], path)
    BY <2>2 DEF Led, LinksOn, GoesOn
  <2>3. ASSUME NEW f, NEW fuel
        PROVE  [path \in FS!Names |-> Where(f, fuel, path)]
                 = IF fuel = 0 THEN Deeper(none) ELSE Deeper(f[fuel - 1])
    <3> HIDE DEF Where, none
    <3>1. QED
      BY <2>1, <2>2
  <2>4. QED
    <3>1. \A f, fuel : [path \in FS!Names |-> Where(f, fuel, path)]
                         = IF fuel = 0 THEN Deeper(none) ELSE Deeper(f[fuel - 1])
      BY <2>3
    <3>2. \A f : Up(f) <=> f = [fuel \in 0 .. m |-> [path \in FS!Names |-> Where(f, fuel, path)]]
      OBVIOUS
    <3> HIDE DEF Deeper, none, Where, Up
    <3>3. QED
      BY <3>1, <3>2
<1>7. Up(g)
  <2>1. \E f : Up(f)
    <3> HIDE DEF Up, Deeper, none
    <3>1. QED
      BY <1>5, <1>6
  <2> HIDE DEF Up
  <2>2. QED
    BY <2>1
<1>8. FS!Resolved = g
  BY <1>1 DEF FS!Resolved
<1> HIDE DEF g
<1>9. /\ g = [k \in 0 .. m |-> g[k]]
      /\ \A k \in 0 .. m : g[k] = IF k = 0 THEN Deeper(none) ELSE Deeper(g[k - 1])
  <2>1. g = [k \in 0 .. m |-> IF k = 0 THEN Deeper(none) ELSE Deeper(g[k - 1])]
    <3> HIDE DEF Up, Deeper, none
    <3>1. QED
      BY <1>6, <1>7
  <2> HIDE DEF Up, Deeper, none
  <2>2. QED
    BY <2>1
<1> DEFINE R == {k \in 0 .. m : g[k] \in S}
<1>10. \A k \in 0 .. m : k \in R
  <2> HIDE DEF Deeper, none
  <2>1. 0 \in R
    BY <1>1, <1>3, <1>4, <1>9
  <2>2. \A k \in 1 .. m : k - 1 \in R => k \in R
    <3>1. \A k \in 1 .. m : k \in 0 .. m /\ k # 0
      BY <1>1
    <3>2. QED
      BY <1>3, <1>9, <3>1
  <2> HIDE DEF R
  <2>3. QED
    BY <1>1, <2>1, <2>2, StepByStep
<1>11. g[m] \in S /\ (g[m] = Deeper(none) \/ g[m] = Deeper(g[m - 1]))
  <2>1. m \in 0 .. m
    BY <1>1
  <2> HIDE DEF Deeper, none
  <2>2. QED
    BY <1>9, <1>10, <2>1
<1>12. \A f, path : path \in FS!Names /\ LinksOn(path) = {} => Deeper(f)[path] = FS!Along(path)[Len(path)]
  BY DEF Led
<1>13. \A path : FS!Canonical(path) = g[m][path]
  BY <1>1, <1>8 DEF FS!Canonical
<1>14. ASSUME NEW path \in FS!Names
       PROVE  /\ g[m][path] \in Nodes \cup {None}
              /\ LinksOn(path) = {} => g[m][path] = FS!Along(path)[Len(path)]
  <2> HIDE DEF Deeper, none
  <2>1. g[m] \in [FS!Names -> Nodes \cup {None}]
    BY <1>2, <1>11
  <2>2. QED
    BY <1>11, <1>12, <2>1
<1>15. QED
  BY <1>13, <1>14

\* A beginning of a sequence is the one before and the next element.
LEMMA NextBeginning ==
  ASSUME NEW S, NEW s \in Seq(S), NEW k \in 1 .. Len(s)
  PROVE  Append(SubSeq(s, 1, k - 1), s[k]) = SubSeq(s, 1, k)
<1>1. k \in Int /\ k - 1 \in Int /\ 1 \in 1 .. Len(s) /\ k \in 1 .. Len(s)
  BY LenProperties
<1>2. s[k] \in S /\ \A i \in 1 .. k - 1 : s[i] \in S
  BY ElementOfSeq, LenProperties
<1>3. SubSeq(s, 1, k - 1) \in Seq(S)
  BY <1>1, <1>2, SubSeqProperties
<1>4. Append(SubSeq(s, 1, k - 1), s[k]) = SubSeq(s, 1, k - 1) \o <<s[k]>>
  BY <1>2, <1>3, AppendIsConcat
<1>5. QED
  BY <1>1, <1>4, SubSeqRecursiveSecond

\* A real path leads to itself.
LEMMA RealStays ==
  ASSUME FS!PathAssumption, links \in LinkSets, NEW p \in Nodes
  PROVE  FS!Canonical(p) = p
<1>1. p \in FS!Names /\ p \in Seq(STRING) /\ \A k \in 0 .. Len(p) : SubSeq(p, 1, k) \in Nodes
  BY NodesAre DEF FS!Names
<1>2. PICK m \in Nat : m = Len(p)
  BY <1>1, LenProperties
<1>3. PICK way : AlongIs(way, p)
  BY <1>1, AlongSteps
<1>4. \A k \in 1 .. m : p[k] # ".."
  BY <1>1, <1>2, LenProperties DEF FS!PathAssumption
<1> DEFINE R == {k \in 0 .. m : way[k] = SubSeq(p, 1, k)}
<1>5. 0 \in R
  <2>1. SubSeq(p, 1, 0) = <<>> /\ 0 \in 0 .. m
    BY <1>2, SubSeqEmpty
  <2>2. way[0] = <<>>
    BY <1>3 DEF AlongIs
  <2>3. QED
    BY <2>1, <2>2
<1>6. ASSUME NEW k \in 1 .. m, k - 1 \in R PROVE k \in R
  <2>1. k \in 0 .. m /\ k - 1 \in 0 .. m
    BY <1>2
  <2>2. way[k - 1] = SubSeq(p, 1, k - 1) /\ way[k - 1] \in Nodes
    BY <1>1, <1>2, <1>6, <2>1
  <2>3. Append(SubSeq(p, 1, k - 1), p[k]) = SubSeq(p, 1, k)
    BY <1>1, <1>2, <2>1, NextBeginning
  <2>4. SubSeq(p, 1, k) \in Nodes
    BY <1>1, <1>2, <2>1
  <2>5. way[k] = NextPlace(way[k - 1], p[k])
    BY <1>2, <1>3 DEF AlongIs
  <2>6. way[k] = SubSeq(p, 1, k)
    BY <1>4, <2>2, <2>3, <2>4, <2>5 DEF NextPlace
  <2>7. QED
    BY <2>1, <2>6
<1>7. \A k \in 0 .. m : way[k] = SubSeq(p, 1, k)
  <2>1. \A k \in 0 .. m : k \in R
    <3> HIDE DEF R
    <3>1. QED
      BY <1>2, <1>5, <1>6, StepByStep
  <2>2. QED
    BY <2>1
<1>8. LinksOn(p) = {}
  <2>1. ASSUME NEW k \in 1 .. m PROVE way[k] \notin DOMAIN links
    <3>1. k \in 0 .. m
      OBVIOUS
    <3>2. QED
      BY <1>1, <1>2, <1>7, <3>1, NodesAre
  <2>2. QED
    BY <1>2, <1>3, <2>1 DEF LinksOn, AlongIs
<1>9. way[m] = p
  BY <1>1, <1>2, <1>7, SubSeqFull
<1>10. QED
  BY <1>1, <1>2, <1>3, <1>8, <1>9, ResolvedIs DEF AlongIs

\* The beginnings of a path that are links lead nowhere.
Settled(p) == \A k \in 1 .. Len(p) : SubSeq(p, 1, k) \in DOMAIN links => FS!Canonical(SubSeq(p, 1, k)) = None

\* create_dir_all makes of such a path the directory of that name, if any.
LEMMA MadeIs ==
  ASSUME FS!PathAssumption, links \in LinkSets, NEW p \in FS!Names, Settled(p)
  PROVE  FS!Made(p) \in {p, None}
<1>1. PICK m \in Nat : m = Len(p) /\ p \in Seq(STRING)
  BY LenProperties DEF FS!Names
<1>2. PICK S, first : S = FS!Names \cup {None} /\ first = <<>> /\ first \in S
  BY EmptySeq DEF FS!Names
<1> DEFINE next(k, a) == IF a = None THEN None
                         ELSE IF Append(a, p[k]) \in DOMAIN links THEN FS!Canonical(Append(a, p[k]))
                         ELSE Append(a, p[k])
           Up(f) == f = [k \in 0 .. m |-> IF k = 0 THEN first ELSE next(k, f[k - 1])]
           after == [k \in 1 .. m |-> [a \in S |-> next(k, a)]]
           g == CHOOSE f : Up(f)
<1>3. ASSUME NEW k \in 1 .. m, NEW a \in S PROVE next(k, a) \in S
  <2>1. CASE a = None
    BY <1>2, <2>1
  <2>2. CASE a # None
    <3>1. a \in Seq(STRING) /\ p[k] \in STRING
      BY <1>1, <1>2, <2>2, ElementOfSeq DEF FS!Names
    <3>2. Append(a, p[k]) \in FS!Names
      BY <3>1, AppendProperties DEF FS!Names
    <3>3. FS!Canonical(Append(a, p[k])) \in S
      BY <1>2, <3>2, ResolvedIs, NodesAre
    <3>4. QED
      BY <1>2, <2>2, <3>2, <3>3
  <2>3. QED
    BY <2>1, <2>2
<1>4. \E f \in [0 .. m -> S] : Up(f)
  <2> HIDE DEF next
  <2>1. after \in [1 .. m -> [S -> S]]
    BY <1>3
  <2>2. PICK f \in [0 .. m -> S] : FollowsFrom(f, first, after, m)
    <3> HIDE DEF after
    <3>1. QED
      BY <1>1, <1>2, <2>1, Recursion
  <2>3. ASSUME NEW k \in 0 .. m, k # 0 PROVE after[k][f[k - 1]] = next(k, f[k - 1])
    <3>1. k \in 1 .. m /\ k - 1 \in 0 .. m
      BY <1>1, <2>3
    <3>2. f[k - 1] \in S
      BY <3>1
    <3>3. QED
      BY <3>1, <3>2
  <2>4. Up(f)
    <3> HIDE DEF after
    <3>1. QED
      BY <2>2, <2>3 DEF FollowsFrom
  <2>5. QED
    BY <2>4
<1>5. Up(g)
  BY <1>4
<1>6. FS!Made(p) = g[m]
  BY <1>1, <1>2 DEF FS!Made
<1> HIDE DEF g
<1>7. g[0] = first /\ \A k \in 1 .. m : g[k] = next(k, g[k - 1])
  <2>1. 0 \in 0 .. m /\ \A k \in 1 .. m : k \in 0 .. m /\ k # 0
    BY <1>1
  <2> HIDE DEF next
  <2>2. \A k \in 0 .. m : g[k] = IF k = 0 THEN first ELSE next(k, g[k - 1])
    BY <1>5
  <2>3. QED
    BY <2>1, <2>2
<1> DEFINE R == {k \in 0 .. m : g[k] \in {SubSeq(p, 1, k), None}}
<1>8. 0 \in R
  <2>1. SubSeq(p, 1, 0) = <<>> /\ 0 \in 0 .. m
    BY <1>1, SubSeqEmpty
  <2>2. g[0] = <<>>
    BY <1>2, <1>7
  <2> HIDE DEF next
  <2>3. QED
    BY <2>1, <2>2
<1>9. ASSUME NEW k \in 1 .. m, k - 1 \in R PROVE k \in R
  <2>1. k \in 0 .. m /\ k - 1 \in 0 .. m /\ g[k - 1] \in {SubSeq(p, 1, k - 1), None}
    BY <1>1, <1>9
  <2>2. Append(SubSeq(p, 1, k - 1), p[k]) = SubSeq(p, 1, k)
    BY <1>1, <2>1, NextBeginning
  <2>3. SubSeq(p, 1, k) \in DOMAIN links => FS!Canonical(SubSeq(p, 1, k)) = None
    BY <1>1 DEF Settled
  <2>4. g[k] \in {SubSeq(p, 1, k), None}
    BY <1>7, <2>1, <2>2, <2>3
  <2>5. QED
    BY <2>1, <2>4
<1>10. g[m] \in {SubSeq(p, 1, m), None}
  <2>1. \A k \in 0 .. m : k \in R
    <3> HIDE DEF R
    <3>1. QED
      BY <1>1, <1>8, <1>9, StepByStep
  <2>2. m \in 0 .. m
    BY <1>1
  <2>3. QED
    BY <2>1, <2>2
<1>11. QED
  BY <1>1, <1>6, <1>10, SubSeqFull

\* A sequence that is not empty is what is before its last element and that.
LEMMA FrontAndLast ==
  ASSUME NEW S, NEW s \in Seq(S), s # <<>>
  PROVE  /\ Len(s) \in 1 .. Len(s) /\ FS!Front(s) = SubSeq(s, 1, Len(s) - 1) /\ FS!Front(s) \in Seq(S)
         /\ Append(FS!Front(s), FS!Last(s)) = s
<1>1. Len(s) \in Nat /\ Len(s) \in 1 .. Len(s) /\ Len(s) - 1 \in Int /\ 1 \in Int
  BY EmptySeq, LenProperties
<1>2. FS!Front(s) = SubSeq(s, 1, Len(s) - 1) /\ FS!Last(s) = s[Len(s)]
  BY DEF FS!Front, FS!Last
<1>3. \A i \in 1 .. Len(s) - 1 : s[i] \in S
  BY <1>1, ElementOfSeq
<1>4. SubSeq(s, 1, Len(s) - 1) \in Seq(S)
  BY <1>1, <1>3, SubSeqProperties
<1>5. Append(SubSeq(s, 1, Len(s) - 1), s[Len(s)]) = SubSeq(s, 1, Len(s))
  BY <1>1, NextBeginning
<1>6. QED
  BY <1>1, <1>2, <1>4, <1>5, SubSeqFull

\* A beginning of a beginning is one of the whole.
LEMMA BeginningOfBeginning ==
  ASSUME NEW S, NEW s \in Seq(S), NEW k \in 0 .. Len(s), NEW j \in 0 .. k
  PROVE  SubSeq(SubSeq(s, 1, k), 1, j) = SubSeq(s, 1, j)
<1>1. Len(s) \in Nat
  BY LenProperties
<1>2. CASE j = 0
  <2>1. SubSeq(SubSeq(s, 1, k), 1, 0) = <<>> /\ SubSeq(s, 1, 0) = <<>>
    BY SubSeqEmpty
  <2>2. QED
    BY <1>2, <2>1
<1>3. CASE j # 0
  <2>1. 1 \in 1 .. Len(s) /\ k \in 1 .. Len(s) /\ 1 \in 1 .. k - 1 + 1 /\ j \in 1 .. k - 1 + 1
    BY <1>1, <1>3
  <2>2. SubSeq(SubSeq(s, 1, k), 1, j) = SubSeq(s, 1 + 1 - 1, 1 + j - 1)
    BY <2>1, SubSeqOfSubSeq
  <2>3. 1 + 1 - 1 = 1 /\ 1 + j - 1 = j
    BY <2>1
  <2>4. QED
    BY <2>2, <2>3
<1>4. QED
  BY <1>2, <1>3

\* A link is in a real directory.
LEMMA LinkIn ==
  ASSUME FS!PathAssumption, links \in LinkSets, NEW p \in FS!Names, NEW k \in 1 .. Len(p),
         SubSeq(p, 1, k) \in DOMAIN links
  PROVE  SubSeq(p, 1, k - 1) \in Nodes
<1>1. PICK s : s = SubSeq(p, 1, k) /\ s \in Seq(STRING) /\ Len(s) = k
  <2>1. p \in Seq(STRING) /\ 1 \in Int /\ k \in Int /\ 1 <= k /\ k - 1 + 1 = k /\ \A i \in 1 .. k : p[i] \in STRING
    BY LenProperties, ElementOfSeq DEF FS!Names
  <2>2. SubSeq(p, 1, k) \in Seq(STRING) /\ Len(SubSeq(p, 1, k)) = k
    BY <2>1, SubSeqProperties
  <2>3. QED
    BY <2>2
<1>2. FS!Front(s) \in Nodes
  BY <1>1 DEF FS!PathAssumption
<1>3. FS!Front(s) = SubSeq(s, 1, k - 1)
  BY <1>1 DEF FS!Front
<1>4. k \in 0 .. Len(p) /\ k - 1 \in 0 .. k /\ p \in Seq(STRING)
  BY LenProperties DEF FS!Names
<1>5. SubSeq(s, 1, k - 1) = SubSeq(p, 1, k - 1)
  BY <1>1, <1>4, BeginningOfBeginning
<1>6. QED
  BY <1>2, <1>3, <1>5

\* The beginning of a path that begins with another is one of that.
LEMMA BeginningOfFirst ==
  ASSUME NEW S, NEW s \in Seq(S), NEW t \in Seq(S), NEW k \in 0 .. Len(s)
  PROVE  SubSeq(s \o t, 1, k) = SubSeq(s, 1, k)
<1>1. CASE k = 0
  <2>1. SubSeq(s \o t, 1, 0) = <<>> /\ SubSeq(s, 1, 0) = <<>>
    BY SubSeqEmpty
  <2>2. QED
    BY <1>1, <2>1
<1>2. CASE k # 0
  <2>1. 1 \in 1 .. Len(s) /\ k \in 1 .. Len(s)
    BY <1>2, LenProperties
  <2>2. QED
    BY <2>1, SubSeqOfConcat1
<1>3. QED
  BY <1>1, <1>2

\* What is appended to a real path is no way to a link if its first name leads nowhere.
LEMMA SettledTail ==
  ASSUME FS!PathAssumption, links \in LinkSets, NEW b \in Nodes, NEW t \in FS!Names, t # <<>>,
         FS!Canonical(Append(b, t[1])) = None
  PROVE  b \o t \in FS!Names /\ Settled(b \o t)
<1>1. PICK n \in Nat : n = Len(b) /\ b \in Seq(STRING)
  BY NodesAre, LenProperties DEF FS!Names
<1>2. PICK l \in Nat : l = Len(t) /\ l >= 1 /\ t \in Seq(STRING)
  BY EmptySeq DEF FS!Names
<1>3. PICK w \in Seq(STRING) : w = b \o t /\ Len(w) = n + l /\ w[n + 1] = t[1]
  <2>1. n + 1 \in 1 .. n + l /\ ~(n + 1 <= n) /\ n + 1 - n = 1
    BY <1>2
  <2>2. b \o t \in Seq(STRING) /\ Len(b \o t) = n + l
        /\ \A i \in 1 .. n + l : (b \o t)[i] = IF i <= n THEN b[i] ELSE t[i - n]
    BY <1>1, <1>2, ConcatProperties
  <2>3. (b \o t)[n + 1] = t[1]
    BY <2>1, <2>2
  <2>4. QED
    BY <2>2, <2>3
<1>4. ASSUME NEW k \in 0 .. n PROVE SubSeq(w, 1, k) = SubSeq(b, 1, k) /\ SubSeq(w, 1, k) \in Nodes
  <2>1. SubSeq(b \o t, 1, k) = SubSeq(b, 1, k)
    BY <1>1, <1>2, BeginningOfFirst
  <2>2. QED
    BY <1>1, <1>3, <2>1, NodesAre
<1>5. SubSeq(w, 1, n + 1) = Append(b, t[1])
  <2>1. n + 1 \in 1 .. Len(w) /\ (n + 1) - 1 = n /\ n \in 0 .. n
    BY <1>2, <1>3
  <2>2. Append(SubSeq(w, 1, (n + 1) - 1), w[n + 1]) = SubSeq(w, 1, n + 1)
    BY <2>1, NextBeginning
  <2>3. SubSeq(w, 1, n) = b
    BY <1>1, <1>4, <2>1, SubSeqFull
  <2>4. QED
    BY <1>3, <2>1, <2>2, <2>3
<1>6. SubSeq(w, 1, n + 1) \notin Nodes
  BY <1>5, RealStays, NodesAre
<1>7. ASSUME NEW k \in 1 .. Len(w), SubSeq(w, 1, k) \in DOMAIN links PROVE FS!Canonical(SubSeq(w, 1, k)) = None
  <2>1. k \in Nat /\ k - 1 \in 0 .. Len(w)
    BY <1>3
  <2>2. CASE k <= n
    <3>1. k \in 0 .. n
      BY <2>1, <2>2
    <3>2. QED
      BY <1>4, <1>7, <3>1, NodesAre
  <2>3. CASE k = n + 1
    BY <1>5, <2>3
  <2>4. CASE k > n + 1
    <3>1. n + 1 \in 0 .. k - 1
      BY <2>1, <2>4
    <3>2. PICK v \in Nodes : v = SubSeq(w, 1, k - 1)
      BY <1>3, <1>7, LinkIn DEF FS!Names
    <3>3. Len(v) = k - 1
      <4>1. \A i \in 1 .. k - 1 : w[i] \in STRING
        BY <1>3, <2>1, ElementOfSeq
      <4>2. 1 \in Int /\ k - 1 \in Int /\ 1 <= k - 1 /\ (k - 1) - 1 + 1 = k - 1
        BY <2>1, <2>4
      <4>3. QED
        BY <3>2, <4>1, <4>2, SubSeqProperties
    <3>4. SubSeq(v, 1, n + 1) \in Nodes
      BY <3>1, <3>2, <3>3, NodesAre
    <3>5. SubSeq(v, 1, n + 1) = SubSeq(w, 1, n + 1)
      BY <2>1, <3>1, <3>2, BeginningOfBeginning
    <3>6. QED
      BY <1>6, <3>4, <3>5
  <2>5. QED
    BY <1>1, <2>1, <2>2, <2>3, <2>4
<1>8. QED
  BY <1>3, <1>7 DEF Settled, FS!Names

\* On no way to the end of a path the limit of links is met.
NeverAtLimit(path) ==
  \A k \in 1 .. Len(path) :
    FS!Canonical(SubSeq(path, 1, k - 1)) # None =>
      FS!Canonical(SubSeq(path, 1, k)) = FS!Canonical(Append(FS!Canonical(SubSeq(path, 1, k - 1)), path[k]))

\* The beginnings of a path that lead somewhere up to the last that does.
LastThere(path, n) ==
  /\ n \in 0 .. Len(path) - 1
  /\ FS!Exists(SubSeq(path, 1, n))
  /\ \A k \in n + 1 .. Len(path) : ~FS!Exists(SubSeq(path, 1, k))

\* Some name of a path to nothing is the first that leads nowhere for good.
LEMMA SomeLastThere ==
  ASSUME FS!PathAssumption, links \in LinkSets, NEW path \in FS!Names, ~FS!Exists(path)
  PROVE  \E n \in 0 .. Len(path) - 1 : LastThere(path, n)
<1>1. PICK m \in Nat : m = Len(path) /\ path \in Seq(STRING)
  BY LenProperties DEF FS!Names
<1>2. FS!Exists(<<>>)
  BY NodesAre, RealStays DEF FS!Exists
<1>3. SubSeq(path, 1, 0) = <<>> /\ SubSeq(path, 1, m) = path
  BY <1>1, SubSeqEmpty, SubSeqFull
<1>4. m >= 1
  BY <1>1, <1>2, <1>3
<1> DEFINE T == {k \in 1 .. m : FS!Exists(SubSeq(path, 1, k - 1))}
<1>5. 1 \in T
  <2>1. 1 \in 1 .. m /\ 1 - 1 = 0
    BY <1>1, <1>4
  <2>2. QED
    BY <1>2, <1>3, <2>1
<1>6. PICK j \in T : \A k \in T : k <= j
  <2>1. T \subseteq 1 .. m
    OBVIOUS
  <2> HIDE DEF T
  <2>2. QED
    BY <1>1, <1>5, <2>1, Greatest
<1>7. j - 1 \in 0 .. m - 1 /\ FS!Exists(SubSeq(path, 1, j - 1))
  BY <1>1, <1>6
<1>8. ASSUME NEW k \in (j - 1) + 1 .. m PROVE ~FS!Exists(SubSeq(path, 1, k))
  <2>1. CASE k = m
    BY <1>3, <2>1
  <2>2. CASE k # m
    <3>1. k + 1 \in 1 .. m /\ (k + 1) - 1 = k /\ ~(k + 1 <= j)
      BY <1>1, <1>7, <2>2
    <3>2. k + 1 \notin T
      BY <1>6, <3>1
    <3>3. QED
      BY <3>1, <3>2
  <2>3. QED
    BY <2>1, <2>2
<1>9. QED
  BY <1>1, <1>7, <1>8 DEF LastThere

\* What canonicalize_write_target returns is no way to a link.
LEMMA TargetSettled ==
  ASSUME FS!PathAssumption, links \in LinkSets, NEW path \in FS!Names, NeverAtLimit(path)
  PROVE  FS!WriteTarget(path) \in FS!Names /\ Settled(FS!WriteTarget(path))
<1>1. PICK m \in Nat : m = Len(path) /\ path \in Seq(STRING)
  BY LenProperties DEF FS!Names
<1>2. CASE FS!Exists(path)
  <2>1. PICK p \in Nodes : p = FS!WriteTarget(path)
    BY <1>2, ResolvedIs DEF FS!WriteTarget, FS!Exists
  <2>2. p \in FS!Names /\ \A k \in 0 .. Len(p) : SubSeq(p, 1, k) \in Nodes
    BY NodesAre
  <2>3. Len(p) \in Nat
    BY <2>2, LenProperties DEF FS!Names
  <2>4. \A k \in 1 .. Len(p) : SubSeq(p, 1, k) \notin DOMAIN links
    <3>1. \A k \in 1 .. Len(p) : k \in 0 .. Len(p)
      BY <2>3
    <3>2. QED
      BY <2>2, <3>1, NodesAre
  <2>5. QED
    BY <2>1, <2>2, <2>4 DEF Settled
<1>3. CASE ~FS!Exists(path)
  <2>1. PICK n : /\ n = CHOOSE k \in 0 .. m - 1 : LastThere(path, k)
                 /\ n \in 0 .. m - 1 /\ LastThere(path, n)
    <3>1. \E k \in 0 .. m - 1 : LastThere(path, k)
      BY <1>1, <1>3, SomeLastThere
    <3>2. QED
      BY <3>1
  <2>2. PICK b \in Nodes : b = FS!Canonical(SubSeq(path, 1, n))
    <3>1. SubSeq(path, 1, n) \in FS!Names
      <4>1. \A i \in 1 .. n : path[i] \in STRING
        BY <1>1, <2>1, ElementOfSeq
      <4>2. 1 \in Int /\ n \in Int
        BY <2>1
      <4>3. QED
        BY <4>1, <4>2, SubSeqProperties DEF FS!Names
    <3>2. FS!Canonical(SubSeq(path, 1, n)) # None
      BY <2>1 DEF LastThere, FS!Exists
    <3>3. QED
      BY <3>1, <3>2, ResolvedIs
  <2>3. PICK t \in FS!Names : t = SubSeq(path, n + 1, m) /\ t # <<>> /\ t[1] = path[n + 1]
    <3>1. n + 1 \in Int /\ m \in Int /\ n + 1 <= m /\ m - (n + 1) + 1 >= 1 /\ (n + 1) + 1 - 1 = n + 1
      BY <2>1
    <3>2. \A i \in n + 1 .. m : path[i] \in STRING
      BY <1>1, <2>1, ElementOfSeq
    <3>3. /\ SubSeq(path, n + 1, m) \in Seq(STRING)
          /\ Len(SubSeq(path, n + 1, m)) = m - (n + 1) + 1
          /\ \A i \in 1 .. m - (n + 1) + 1 : SubSeq(path, n + 1, m)[i] = path[(n + 1) + i - 1]
      BY <3>1, <3>2, SubSeqProperties
    <3>4. 1 \in 1 .. m - (n + 1) + 1
      BY <3>1
    <3>5. SubSeq(path, n + 1, m)[1] = path[(n + 1) + 1 - 1]
      BY <3>3, <3>4
    <3>6. Len(SubSeq(path, n + 1, m)) # 0 /\ (n + 1) + 1 - 1 = n + 1
      BY <3>1, <3>3
    <3>7. SubSeq(path, n + 1, m) # <<>>
      BY <3>6, EmptySeq
    <3>8. SubSeq(path, n + 1, m)[1] = path[n + 1]
      BY <3>5, <3>6
    <3>9. QED
      BY <3>3, <3>7, <3>8 DEF FS!Names
  <2>4. FS!Canonical(Append(b, t[1])) = None
    <3>1. n + 1 \in 1 .. m /\ n + 1 \in n + 1 .. m /\ (n + 1) - 1 = n
      BY <2>1
    <3>2. FS!Canonical(SubSeq(path, 1, n + 1)) = None
      BY <1>1, <2>1, <3>1 DEF LastThere, FS!Exists
    <3>3. FS!Canonical(SubSeq(path, 1, n)) # None
      BY <2>1 DEF LastThere, FS!Exists
    <3>4. FS!Canonical(SubSeq(path, 1, n + 1)) = FS!Canonical(Append(FS!Canonical(SubSeq(path, 1, n)), path[n + 1]))
      BY <1>1, <3>1, <3>3 DEF NeverAtLimit
    <3>5. QED
      BY <2>2, <2>3, <3>2, <3>4
  <2>5. FS!WriteTarget(path) = b \o t
    <3>1. n = CHOOSE k \in 0 .. Len(path) - 1 :
                /\ FS!Exists(SubSeq(path, 1, k))
                /\ \A i \in k + 1 .. Len(path) : ~FS!Exists(SubSeq(path, 1, i))
      BY <1>1, <2>1 DEF LastThere
    <3>2. QED
      BY <1>1, <1>3, <2>2, <2>3, <3>1 DEF FS!WriteTarget
  <2>6. QED
    BY <2>2, <2>3, <2>4, <2>5, SettledTail
<1>4. QED
  BY <1>2, <1>3

\* What may be written is a path below the root, no way to a link, and not the input.
LEMMA PermittedIs ==
  ASSUME FS!PathAssumption, links \in LinkSets, asked \in Asked, FS!LimitNotMet,
         NEW root \in {Cas, Temp}, FS!Permitted(root) # None
  PROVE  \E to \in FS!Names : /\ to = FS!Permitted(root) /\ to # <<>> /\ Settled(to)
                              /\ FS!PathContains(root, to) /\ to # FS!Canonical(Input)
<1>1. PICK path : path = FS!Joined(root) /\ path # None /\ path = root \o asked
  BY DEF FS!Permitted, FS!Joined
<1>2. root \in Seq(STRING) /\ asked \in Seq(STRING)
  BY DEF FS!PathAssumption, FS!Names
<1>3. path \in FS!Names
  BY <1>1, <1>2, ConcatProperties DEF FS!Names
<1>4. NeverAtLimit(path)
  BY <1>1 DEF FS!LimitNotMet, NeverAtLimit
<1>5. PICK to \in FS!Names : to = FS!WriteTarget(path) /\ Settled(to)
  BY <1>3, <1>4, TargetSettled
<1>6. to = FS!Permitted(root) /\ FS!PathContains(root, to) /\ to # FS!Canonical(Input)
  BY <1>1, <1>5 DEF FS!Permitted
<1>7. root # <<>>
  BY DEF FS!PathAssumption
<1>8. to # <<>>
  <2>1. Len(root) <= Len(to) /\ Len(root) \in Nat \ {0}
    BY <1>2, <1>6, <1>7, EmptySeq DEF FS!PathContains, FS!IsPrefix
  <2>2. QED
    BY <2>1, EmptySeq
<1>9. QED
  BY <1>5, <1>6, <1>8

\* The directory of such a path is made where it is, if it is.
LEMMA DirectoryIs ==
  ASSUME FS!PathAssumption, links \in LinkSets, NEW to \in FS!Names, to # <<>>, Settled(to)
  PROVE  FS!Made(FS!Front(to)) \in {FS!Front(to), None} /\ Append(FS!Front(to), FS!Last(to)) = to
<1>1. to \in Seq(STRING)
  BY DEF FS!Names
<1>2. PICK dir, m : /\ m = Len(to) /\ m \in 1 .. m /\ dir = FS!Front(to) /\ dir = SubSeq(to, 1, m - 1)
                    /\ dir \in Seq(STRING) /\ Append(dir, FS!Last(to)) = to
  BY <1>1, FrontAndLast
<1>3. m \in Nat /\ m >= 1 /\ m - 1 \in 0 .. m
  BY <1>1, <1>2, LenProperties
<1>4. Len(dir) = m - 1
  <2>1. 1 \in Int /\ m - 1 \in Int /\ \A i \in 1 .. m - 1 : to[i] \in STRING
    BY <1>1, <1>2, <1>3, ElementOfSeq
  <2>2. Len(SubSeq(to, 1, m - 1)) = IF 1 <= m - 1 THEN (m - 1) - 1 + 1 ELSE 0
    BY <2>1, SubSeqProperties
  <2>3. QED
    BY <1>2, <1>3, <2>2
<1>5. ASSUME NEW k \in 1 .. Len(dir), SubSeq(dir, 1, k) \in DOMAIN links
      PROVE  FS!Canonical(SubSeq(dir, 1, k)) = None
  <2>1. k \in 0 .. m - 1 /\ k \in 1 .. Len(to)
    BY <1>2, <1>3, <1>4
  <2>2. SubSeq(dir, 1, k) = SubSeq(to, 1, k)
    BY <1>1, <1>2, <1>3, <2>1, BeginningOfBeginning
  <2>3. QED
    BY <1>5, <2>1, <2>2 DEF Settled
<1>6. Settled(dir)
  BY <1>5 DEF Settled
<1>7. FS!Made(dir) \in {dir, None}
  BY <1>2, <1>6, MadeIs DEF FS!Names
<1>8. QED
  BY <1>2, <1>7

\* The new file has the name that was asked for.
LEMMA CreatedNewIs ==
  ASSUME FS!PathAssumption, links \in LinkSets, NEW to \in FS!Names, to # <<>>, Settled(to),
         FS!CreatedNew(to) # None
  PROVE  FS!CreatedNew(to) = to /\ to \notin Nodes
BY DirectoryIs DEF FS!CreatedNew

\* So has the file that is replaced, unless its name is a dangling link.
LEMMA ReplacedIs ==
  ASSUME FS!PathAssumption, links \in LinkSets, NEW to \in FS!Names, to # <<>>, Settled(to),
         FS!Replaced(to) # None, ~FS!Dangling(to)
  PROVE  FS!Replaced(to) = to
<1>1. to \notin DOMAIN links
  <2>1. to \in Seq(STRING) /\ Len(to) \in 1 .. Len(to)
    BY FrontAndLast DEF FS!Names
  <2>2. SubSeq(to, 1, Len(to)) = to
    BY <2>1, SubSeqFull
  <2>3. to \in DOMAIN links => FS!Canonical(to) = None
    BY <2>1, <2>2 DEF Settled
  <2>4. QED
    BY <2>3 DEF FS!Dangling, FS!Exists
<1>2. QED
  BY <1>1, DirectoryIs DEF FS!Replaced

\* What is read, created and written is decided of paths as they are.
LEMMA EvaluatedInside ==
  ASSUME FS!PathAssumption, links \in LinkSets, asked \in Asked, FS!LimitNotMet, FS!Evaluate
  PROVE  FS!StaysInside'
<1>1. links' = links /\ asked' = asked
  BY DEF FS!Evaluate
<1>2. FS!Canonical(Input)' = FS!Canonical(Input)
  BY <1>1, SMTT(30) DEF FS!Canonical, FS!Resolved, FS!Along, FS!Front
<1>3. PICK read, fed, appended, written, dangling :
        /\ read = FS!WorkspaceRead /\ fed = FS!SandboxRead
        /\ appended = FS!AppendedTo /\ written = FS!WrittenTo
        /\ dangling = (FS!Permitted(Temp) # None /\ FS!Dangling(FS!Permitted(Temp)))
        /\ answer' = [read |-> read, input |-> fed, appended |-> appended,
                       written |-> written, dangling |-> dangling]
  BY DEF FS!Evaluate
<1>4. read # None => FS!PathContains(Workspace, read) /\ ~FS!IsDenied(read)
  BY <1>3 DEF FS!WorkspaceRead
<1>5. fed # None => fed = FS!Canonical(Input)
  BY <1>3 DEF FS!SandboxRead
<1>6. appended # None => FS!PathContains(Cas, appended) /\ appended \notin Nodes
  <2>1. SUFFICES ASSUME appended # None PROVE FS!PathContains(Cas, appended) /\ appended \notin Nodes
    OBVIOUS
  <2>2. FS!Permitted(Cas) # None /\ appended = FS!CreatedNew(FS!Permitted(Cas))
    BY <1>3, <2>1 DEF FS!AppendedTo
  <2>3. PICK to \in FS!Names : to = FS!Permitted(Cas) /\ to # <<>> /\ Settled(to) /\ FS!PathContains(Cas, to)
    BY <2>2, PermittedIs
  <2>4. QED
    BY <2>1, <2>2, <2>3, CreatedNewIs
<1>7. written # None /\ ~dangling => FS!PathContains(Temp, written) /\ written # FS!Canonical(Input)
  <2>1. SUFFICES ASSUME written # None, ~dangling
                 PROVE  FS!PathContains(Temp, written) /\ written # FS!Canonical(Input)
    OBVIOUS
  <2>2. FS!Permitted(Temp) # None /\ written = FS!Replaced(FS!Permitted(Temp))
    BY <1>3, <2>1 DEF FS!WrittenTo
  <2>3. PICK to \in FS!Names : /\ to = FS!Permitted(Temp) /\ to # <<>> /\ Settled(to)
                               /\ FS!PathContains(Temp, to) /\ to # FS!Canonical(Input)
    BY <2>2, PermittedIs
  <2>4. ~FS!Dangling(to)
    BY <1>3, <2>1, <2>2, <2>3
  <2>5. QED
    BY <2>1, <2>2, <2>3, <2>4, ReplacedIs
<1>8. QED
  BY <1>1, <1>2, <1>3, <1>4, <1>5, <1>6, <1>7 DEF FS!StaysInside, FS!IsDenied, FS!IsDefaultDenied, FS!PathContains, FS!IsPrefix

\* Whatever links there are, what is read, created and written is where it may be, as
\* long as the limit of links is not met on the way.
THEOREM PathsStayInside ==
  FS!PathAssumption => (FS!PathSpec => [](FS!LimitNotMet => FS!StaysInside))
<1> SUFFICES ASSUME FS!PathAssumption
             PROVE  FS!PathSpec => [](FS!LimitNotMet => FS!StaysInside)
  OBVIOUS
<1> DEFINE Inside == /\ links \in LinkSets /\ asked \in Asked
                     /\ FS!LimitNotMet => FS!StaysInside
<1>1. FS!PathInit => Inside
  BY DEF FS!PathInit, FS!StaysInside
<1>2. Inside /\ [FS!Evaluate]_FS!pathVars => Inside'
  <2> SUFFICES ASSUME Inside, [FS!Evaluate]_FS!pathVars, FS!LimitNotMet'
               PROVE  Inside'
    BY DEF FS!Evaluate, FS!pathVars
  <2>1. links' = links /\ asked' = asked
    BY DEF FS!Evaluate, FS!pathVars
  <2>2. ASSUME NEW path PROVE FS!Canonical(path)' = FS!Canonical(path)
    BY <2>1, SMTT(30) DEF FS!Canonical, FS!Resolved, FS!Along, FS!Front
  <2>3. FS!LimitNotMet
    BY <2>1, <2>2 DEF FS!LimitNotMet, FS!Joined
  <2>4. CASE FS!Evaluate
    BY <2>1, <2>3, <2>4, EvaluatedInside
  <2>5. CASE UNCHANGED FS!pathVars
    <3>1. answer' = answer
      BY <2>5 DEF FS!pathVars
    <3>2. FS!Canonical(Input)' = FS!Canonical(Input)
      BY <2>2
    <3>3. FS!StaysInside'
      BY <2>3, <3>1, <3>2 DEF FS!StaysInside, FS!IsDenied, FS!IsDefaultDenied, FS!PathContains, FS!IsPrefix
    <3>4. QED
      BY <2>1, <3>3
  <2>6. QED
    BY <2>4, <2>5
<1>3. QED
  BY <1>1, <1>2, PTL DEF FS!PathSpec

------------------------------------------------------------------------------
(* The composition *)

\* A behaviour of the composition is one of a single service.
LEMMA OneService == [Next]_vars => scene' = scene
BY DEF Next, vars, Granting, Brokering, Quarantining, Sending, Resolving, Running

\* A grant is used at most as often as it was given, wherever the grants are explored.
THEOREM GuardsBoundGrants == Spec => []GrantBound
<1>1. Init /\ scene = "grants" => GR!Init
  BY DEF Init
<1>2. scene = "grants" /\ [Next]_vars => [GR!Next]_GR!vars
  BY DEF Next, vars, Granting, Brokering, Quarantining, Sending, Resolving, Running, grantVars, GR!vars
<1>3. [Next]_vars => (scene = "grants" <=> (scene = "grants")')
  BY OneService
<1>4. GR!Spec => []GR!GrantBound
  BY GrantsAreBounded, GuardsAssumption DEF GuardsAssumption
<1>5. QED
  BY <1>1, <1>2, <1>3, <1>4, PTL DEF Spec, GR!Spec, GrantBound

\* A revoked token gives no secret away, wherever the broker is.
THEOREM GuardsKeepSecrets == Spec => []RevokedStaysRevoked
<1>1. Init /\ scene = "secrets" => BR!BrokerInit
  BY DEF Init
<1>2. scene = "secrets" /\ [Next]_vars => [BR!BrokerNext]_BR!brokerVars
  BY DEF Next, vars, Granting, Brokering, Quarantining, Sending, Resolving, Running, brokerVars, BR!brokerVars
<1>3. [Next]_vars => (scene = "secrets" <=> (scene = "secrets")')
  BY OneService
<1>4. BR!BrokerSpec => []BR!RevokedStaysRevoked
  BY BrokerKeepsSecrets, GuardsAssumption DEF GuardsAssumption
<1>5. QED
  BY <1>1, <1>2, <1>3, <1>4, PTL DEF Spec, BR!BrokerSpec, RevokedStaysRevoked

\* What is called clean was checked in full, wherever attachments are.
THEOREM GuardsCheckFiles == Spec => []CleanIsWhole
<1>1. Init /\ scene = "quarantine" => QA!QuarantineInit
  BY DEF Init
<1>2. scene = "quarantine" /\ [Next]_vars => [QA!QuarantineNext]_QA!quarantineVars
  BY DEF Next, vars, Granting, Brokering, Quarantining, Sending, Resolving, Running, quarantineVars, QA!quarantineVars
<1>3. [Next]_vars => (scene = "quarantine" <=> (scene = "quarantine")')
  BY OneService
<1>4. QA!QuarantineSpec => []QA!CleanIsWhole
  BY QuarantineIsWhole, GuardsAssumption DEF GuardsAssumption
<1>5. QED
  BY <1>1, <1>2, <1>3, <1>4, PTL DEF Spec, QA!QuarantineSpec, CleanIsWhole

\* One send hands its message over at most once, wherever the provider is.
THEOREM GuardsSendOnce == Spec => []DeliveredOnce
<1>1. Init /\ scene = "provider" => PR!ProviderInit
  BY DEF Init
<1>2. scene = "provider" /\ [Next]_vars => [PR!ProviderNext]_PR!providerVars
  BY DEF Next, vars, Granting, Brokering, Quarantining, Sending, Resolving, Running, providerVars, PR!providerVars
<1>3. [Next]_vars => (scene = "provider" <=> (scene = "provider")')
  BY OneService
<1>4. PR!ProviderInit /\ [][PR!ProviderNext]_PR!providerVars => []PR!DeliveredOnce
  BY ProviderDelivers, GuardsAssumption DEF GuardsAssumption
<1>5. QED
  BY <1>1, <1>2, <1>3, <1>4, PTL DEF Spec, DeliveredOnce

\* A timeout is told as one and no child outlives the call, wherever the sandbox is.
THEOREM GuardsTellTimeouts == Spec => []SandboxSettles
<1>1. Init /\ scene = "sandbox" => SB!Init
  BY DEF Init
<1>2. scene = "sandbox" /\ [Next]_vars => [SB!Next]_SB!vars
  BY DEF Next, vars, Granting, Brokering, Quarantining, Sending, Resolving, Running, sandboxVars, SB!vars
<1>3. [Next]_vars => (scene = "sandbox" <=> (scene = "sandbox")')
  BY OneService
<1>4. SB!Init /\ [][SB!Next]_SB!vars => []SB!SandboxSettles
  BY SandboxTells
<1>5. QED
  BY <1>1, <1>2, <1>3, <1>4, PTL DEF Spec, SandboxSettles

\* What is read, created and written is where it may be, wherever paths are resolved, as
\* long as the limit of links is not met on the way.
THEOREM GuardsStayInside == Spec => [](LimitNotMet => StaysInside)
<1>1. Init /\ scene = "paths" => FS!PathInit
  BY DEF Init
<1>2. scene = "paths" /\ [Next]_vars => [FS!Evaluate]_FS!pathVars
  BY DEF Next, vars, Granting, Brokering, Quarantining, Sending, Resolving, Running, pathVars, FS!pathVars
<1>3. [Next]_vars => (scene = "paths" <=> (scene = "paths")')
  BY OneService
<1>4. FS!PathSpec => [](FS!LimitNotMet => FS!StaysInside)
  BY PathsStayInside, GuardsAssumption DEF GuardsAssumption
<1>5. QED
  BY <1>1, <1>2, <1>3, <1>4, PTL DEF Spec, FS!PathSpec, LimitNotMet, StaysInside

=============================================================================
