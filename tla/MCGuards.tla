------------------------------- MODULE MCGuards -------------------------------
(* Small instances of the six services of Guards for TLC. *)
EXTENDS Guards, TLC

CONSTANTS c1, c2, t1, t2, t3, v, w

------------------------------------------------------------------------------
(* Grants: a file grant of one use and a generic one of two, a grant of a     *)
(* channel action and one of a channel resource that may be issued again; two *)
(* callers, among them one who asks for what was granted to the other.        *)

Grant(kind, subject, uses, from, until) ==
  [kind |-> kind, subject |-> subject, uses |-> uses, from |-> from, until |-> until]
Request(kind, id, actor, fits, place) ==
  [kind |-> kind, id |-> id, actor |-> actor, fits |-> fits, place |-> place]

MCIds == {"f", "g", "x", "r"}
MCCallers == {c1, c2}
MCGrantOf == [f |-> Grant("file", "a", 1, 0, 1), g |-> Grant("generic", "a", 2, 1, 2),
              x |-> Grant("action", None, 1, 0, 1), r |-> Grant("resource", "b", 1, 0, 1)]
MCRequests ==
  {Request("file", "f", "a", TRUE, "outside"), Request("file", "f", "b", TRUE, "outside"),
   Request("file", "f", "a", TRUE, "denied"), Request("generic", None, "a", TRUE, "effect"),
   Request("generic", "g", "a", TRUE, "effect"),
   Request("action", "x", "b", TRUE, "effect"), Request("resource", "r", "b", FALSE, "effect"),
   Request("resource", "r", "b", TRUE, "effect")}

------------------------------------------------------------------------------
(* Broker: two plugins with a scope each, three tokens of which two may live. *)

MCAllowed == [p |-> {"s"}, q |-> {"t"}]
MCTokens == {t1, t2, t3}

------------------------------------------------------------------------------
(* Quarantine: two workers; the same file twice, another version of it, a  *)
(* name that is no name, and a key that ends like another's version.       *)

Attachment(key, ver, bytes, mime, digest) ==
  [key |-> key, version |-> ver, ext |-> "png", size |-> bytes, mime |-> mime, hash |-> digest]

MCWorkers == {v, w}
MCSizeOf == [x |-> 2, y |-> 2, partial |-> 1]
MCAttachments ==
  {Attachment(<<"k">>, <<"1">>, 2, "png", "x"), Attachment(<<"k">>, <<"2">>, 0, None, None),
   Attachment(<<"..">>, <<"1">>, 0, None, None), Attachment(<<"k">>, <<"1">>, 0, "jpg", None),
   Attachment(<<"k", "_", "1">>, <<"2">>, 0, None, "y")}
MCUnsafe == {<<"..">>}
MCMimeOf == [png |-> "png"]

------------------------------------------------------------------------------
(* Paths: up to two links in the workspace, the raw store and the temporary *)
(* directory, to a file, a directory, another link or nothing.              *)

LinkTargets == {<<"o">>, <<"o", "z">>, <<"w", "git">>, <<"w", "a">>, <<"t">>, <<"t", "m">>, <<"c">>, <<"w", "s", "k">>}
LinkPlaces == {<<"w", "l">>, <<"c", "l">>, <<"t", "l">>, <<"t", "m">>}

MCNodes ==
  {<<>>, <<"w">>, <<"w", "a">>, <<"w", "git">>, <<"w", "git", "h">>, <<"w", "s">>, <<"w", "s", "k">>,
   <<"c">>, <<"c", "b">>, <<"t">>, <<"o">>, <<"o", "a">>}
MCLinkSets == UNION {[S -> LinkTargets] : S \in {T \in SUBSET LinkPlaces : Cardinality(T) <= 2}}
MCAsked ==
  {<<"w", x>> : x \in {"a", "l", "git", "s"}} \cup {<<"w", "l", x>> : x \in {"..", "a", "k", "h", "z"}}
  \cup {<<"w", "git", "..", "a">>, <<"w", "..", "t", "m">>}
  \cup {<<x>> : x \in {"l", "b", "m", "z"}} \cup {<<"l", x>> : x \in {"..", "a", "m", "z"}}
MCWorkspace == <<"w">>
MCDenyRoots == {<<"w", "s">>}
MCCas == <<"c">>
MCTemp == <<"t">>
MCInput == <<"w", "a">>

=============================================================================
