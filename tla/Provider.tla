------------------------------- MODULE Provider -------------------------------
(***************************************************************************)
(* Sending to Feishu (crates/seaki-channel/src/feishu_http.rs).  Senders   *)
(* share a cached access token, whose lock nobody holds while a request is *)
(* under way.  The service, and the network, are external.                 *)
(***************************************************************************)
EXTENDS Naturals

CONSTANTS
  Senders,
  MaxTokens,   \* bound: access tokens the service gives out
  MaxSends,    \* bound: calls of send
  None

\* A sender that has returned nothing has not said Ok.
ProviderAssumption == None # "Ok"

VARIABLES
  cache,       \* the cached token, or None
  valid,       \* the tokens the service accepts
  given,       \* tokens given out so far
  at,          \* sender -> "rest", "get", "fetch", "send"
  fetched,     \* sender -> the token in the answer under way, or None
  token,       \* sender -> the token it sends with
  retried,     \* sender -> whether this is its second try
  verdict,     \* sender -> what its last send returned
  sends,
  delivered    \* history: sender -> messages the service took in its current call

providerVars == <<cache, valid, given, at, fetched, token, retried, verdict, sends, delivered>>

ProviderInit ==
  /\ cache = None /\ valid = {} /\ given = 0 /\ sends = 0
  /\ at = [s \in Senders |-> "rest"] /\ fetched = [s \in Senders |-> None]
  /\ token = [s \in Senders |-> None] /\ retried = [s \in Senders |-> FALSE]
  /\ verdict = [s \in Senders |-> None] /\ delivered = [s \in Senders |-> 0]

Send(s) ==
  /\ at[s] = "rest" /\ sends < MaxSends /\ sends' = sends + 1
  /\ at' = [at EXCEPT ![s] = "get"] /\ retried' = [retried EXCEPT ![s] = FALSE]
  /\ verdict' = [verdict EXCEPT ![s] = None] /\ delivered' = [delivered EXCEPT ![s] = 0]
  /\ UNCHANGED <<cache, valid, given, fetched, token>>

\* get, the fast path: the cached token, when it is not about to expire.
UseCached(s) ==
  /\ at[s] = "get" /\ cache # None
  /\ token' = [token EXCEPT ![s] = cache] /\ at' = [at EXCEPT ![s] = "send"]
  /\ UNCHANGED <<cache, valid, given, fetched, retried, verdict, sends, delivered>>

\* get, the slow path: it may also be taken because the cached token is near its end.
Ask(s) ==
  /\ at[s] = "get" /\ given < MaxTokens
  /\ given' = given + 1 /\ valid' = valid \cup {given'}
  /\ fetched' = [fetched EXCEPT ![s] = given'] /\ at' = [at EXCEPT ![s] = "fetch"]
  /\ UNCHANGED <<cache, token, retried, verdict, sends, delivered>>

\* The answer comes, and overwrites whatever was cached meanwhile.
Fetched(s) ==
  /\ at[s] = "fetch" /\ at' = [at EXCEPT ![s] = "send"]
  /\ cache' = fetched[s] /\ token' = [token EXCEPT ![s] = fetched[s]]
  /\ fetched' = [fetched EXCEPT ![s] = None]
  /\ UNCHANGED <<valid, given, retried, verdict, sends, delivered>>

Return(s, v) == at' = [at EXCEPT ![s] = "rest"] /\ verdict' = [verdict EXCEPT ![s] = v]

\* No token is to be had.
NoToken(s) ==
  /\ at[s] \in {"get", "fetch"} /\ Return(s, "Network")
  /\ fetched' = [fetched EXCEPT ![s] = None]
  /\ UNCHANGED <<cache, valid, given, token, retried, sends, delivered>>

\* What do_send makes of what the service does: it takes the message and says so, or its
\* answer is lost or unreadable; or it does not take it, for a reason of its own, or
\* because the token is not valid any more.
Outcomes(s) ==
  {[took |-> FALSE, says |-> v] : v \in {"Network", "RateLimited", "Rejected"}} \cup
  IF token[s] \in valid
  THEN {[took |-> TRUE, says |-> v] : v \in {"Ok", "Network", "Rejected"}}
  ELSE {[took |-> FALSE, says |-> "Expired"]}

\* Mutant: anything but a success is tried again.
TriesAgainAlways(s, says) == says # "Ok" /\ ~retried[s]

\* send_async: one retry, for an expired token only.
TriesAgain(s, says) == says = "Expired" /\ ~retried[s]

DoSend(s) ==
  /\ at[s] = "send"
  /\ \E o \in Outcomes(s) :
       /\ delivered' = [delivered EXCEPT ![s] = @ + (IF o.took THEN 1 ELSE 0)]
       /\ IF TriesAgain(s, o.says)
          THEN /\ cache' = None
               /\ at' = [at EXCEPT ![s] = "get"] /\ retried' = [retried EXCEPT ![s] = TRUE]
               /\ UNCHANGED verdict
          ELSE /\ Return(s, IF o.says = "Expired" THEN "Rejected" ELSE o.says)
               /\ UNCHANGED <<cache, retried>>
  /\ UNCHANGED <<valid, given, fetched, token, sends>>

\* The service does not accept a token any more.
Expire(t) ==
  /\ t \in valid /\ valid' = valid \ {t}
  /\ UNCHANGED <<cache, given, at, fetched, token, retried, verdict, sends, delivered>>

ProviderNext ==
  \/ \E s \in Senders : Send(s)
  \/ \E s \in Senders : UseCached(s)
  \/ \E s \in Senders : Ask(s)
  \/ \E s \in Senders : Fetched(s)
  \/ \E s \in Senders : NoToken(s)
  \/ \E s \in Senders : DoSend(s)
  \/ \E t \in valid : Expire(t)

\* A sender's call is a thread of its own, and every request has a timeout.
ProviderSpec ==
  /\ ProviderInit /\ [][ProviderNext]_providerVars
  /\ \A s \in Senders : WF_providerVars(UseCached(s) \/ Fetched(s) \/ NoToken(s) \/ DoSend(s))

------------------------------------------------------------------------------
(* What is asked of it *)

\* One call of send hands the message to the service at most once, however its token
\* expires, is refreshed and is overwritten by other senders meanwhile; and it says Ok
\* only when the service took it.
DeliveredOnce ==
  \A s \in Senders :
    /\ delivered[s] <= 1
    /\ verdict[s] = "Ok" => delivered[s] = 1

\* A second try never uses a token that has been refused (the comment "Token expired,
\* invalidate and retry once", crates/seaki-channel/src/feishu_http.rs:250).
RetryIsFresh ==
  \A s \in Senders : (at[s] = "send" /\ retried[s]) => token[s] = given

=============================================================================
