--------------------------------- MODULE Paths ---------------------------------
(***************************************************************************)
(* Which paths the workspace policy (crates/seaki-policy/src/path.rs) and  *)
(* the sandbox (crates/seaki-sandbox/src/lib.rs) let through, against what *)
(* the file system then does with them.  A path is the sequence of its     *)
(* names from the root; some of its prefixes may be links, some dangling.  *)
(***************************************************************************)
EXTENDS Naturals, Sequences, SequencesExt

CONSTANTS
  Nodes,      \* real directories and files, closed under prefixes
  LinkSets,   \* the link tables considered: [path -> path]
  Asked,      \* the paths asked for, ".." among their names
  Workspace,  \* workspace_root, also the only allow root
  DenyRoots,  \* deny_roots
  Hidden,     \* DEFAULT_DENY_ROOT_NAMES
  Cas, Temp,  \* raw_cas_dir and isolated_temp_dir, not the root
  Input,      \* input_blob
  MaxLinks,   \* ELOOP
  None

VARIABLES
  links,      \* the links of this file system
  asked,      \* the path
  verdict     \* None, or what the operations do with it

pathVars == <<links, asked, verdict>>

------------------------------------------------------------------------------
(* The file system *)

Names == Seq(STRING)

\* Where the first names of a path lead, one by one: to a real place, or to a link,
\* past which nothing is looked up here; None where nothing is.
Along(path) ==
  LET at[k \in 0 .. Len(path)] ==
        IF k = 0 THEN <<>>
        ELSE IF at[k - 1] \notin Nodes THEN None
        ELSE IF path[k] = ".." THEN IF at[k - 1] = <<>> THEN <<>> ELSE Front(at[k - 1])
        ELSE LET next == Append(at[k - 1], path[k]) IN
             IF next \in Nodes \cup DOMAIN links THEN next ELSE None
  IN at

\* Where a path leads when at most so many links are followed; None if something on
\* the way does not exist.
Resolved[fuel \in 0 .. MaxLinks] ==
  [path \in Names |->
     LET at == Along(path)
         met == {k \in 1 .. Len(path) : at[k] \in DOMAIN links}
     IN IF met = {} THEN at[Len(path)]
        ELSE IF fuel = 0 THEN None
        ELSE LET k == CHOOSE m \in met : TRUE IN
             Resolved[fuel - 1][links[at[k]] \o SubSeq(path, k + 1, Len(path))]]

\* canonicalize
Canonical(path) == Resolved[MaxLinks][path]
Exists(path) == Canonical(path) # None

\* Where create_dir_all makes `path` a directory: a dangling link is in its way.
Made(path) ==
  LET made[k \in 0 .. Len(path)] ==
        IF k = 0 THEN <<>>
        ELSE IF made[k - 1] = None THEN None
        ELSE LET next == Append(made[k - 1], path[k]) IN
             IF next \in DOMAIN links THEN Canonical(next) ELSE next
  IN made[Len(path)]

\* The file that create_new opens, if it does: no link is followed at the end.
CreatedNew(path) ==
  LET dir == Made(Front(path)) IN
  IF dir = None THEN None
  ELSE LET file == Append(dir, Last(path)) IN
       IF file \in Nodes \cup DOMAIN links THEN None ELSE file

\* The file that fs::write opens: a link at the end is followed, dangling or not.
Replaced(path) ==
  LET dir == Made(Front(path)) IN
  IF dir = None THEN None
  ELSE LET file == Append(dir, Last(path)) IN
       IF file \notin DOMAIN links THEN file
       ELSE IF Exists(file) THEN Canonical(file)
       ELSE LET to == Canonical(Front(links[file])) IN
            IF to = None THEN None ELSE Append(to, Last(links[file]))

------------------------------------------------------------------------------
(* The policy and the sandbox *)

PathContains(root, path) == IsPrefix(root, path)

IsDefaultDenied(path) ==
  /\ PathContains(Workspace, path) /\ Len(path) > Len(Workspace)
  /\ path[Len(Workspace) + 1] \in Hidden

IsDenied(path) ==
  (\E root \in DenyRoots : PathContains(root, path)) \/ IsDefaultDenied(path)

\* classify_workspace_read: the canonical path, if it may be read.
WorkspaceRead ==
  LET path == Canonical(asked) IN
  IF path # None /\ PathContains(Workspace, path) /\ ~IsDenied(path) THEN path ELSE None

\* permits_read and read_path: of a source only the input is read.
SandboxRead ==
  LET path == Canonical(asked) IN
  IF path # None /\ path = Canonical(Input) THEN path ELSE None

\* join_sandbox_relative: only plain names may follow the root.
Joined(root) == IF \E k \in DOMAIN asked : asked[k] = ".." THEN None ELSE root \o asked

\* Mutant: nothing is looked up, the path is taken as it is written.
WriteTargetAsWritten(path) == path

\* canonicalize_write_target: what is there is resolved, what is missing appended.
WriteTarget(path) ==
  IF Exists(path) THEN Canonical(path)
  ELSE LET n == CHOOSE k \in 0 .. Len(path) - 1 :
                  /\ Exists(SubSeq(path, 1, k))
                  /\ \A m \in k + 1 .. Len(path) : ~Exists(SubSeq(path, 1, m))
       IN Canonical(SubSeq(path, 1, n)) \o SubSeq(path, n + 1, Len(path))

\* permits_broker_write or permits_write, and that it is not the input.
Permitted(root) ==
  LET path == Joined(root) IN
  IF path = None THEN None
  ELSE LET target == WriteTarget(path) IN
       IF PathContains(root, target) /\ target # Canonical(Input) THEN target ELSE None

\* write_raw_cas and write_temp: where the bytes end up.
AppendedTo == IF Permitted(Cas) = None THEN None ELSE CreatedNew(Permitted(Cas))
WrittenTo == IF Permitted(Temp) = None THEN None ELSE Replaced(Permitted(Temp))

\* The last name of what is written is a link to nothing.
Dangling(path) == path \in DOMAIN links /\ ~Exists(path)

------------------------------------------------------------------------------

PathAssumption ==
  /\ None \notin Names /\ MaxLinks \in Nat
  /\ <<>> \in Nodes /\ Nodes \subseteq Names
  /\ \A p \in Nodes : \A k \in DOMAIN p : p[k] # ".." /\ SubSeq(p, 1, k) \in Nodes
  /\ {Workspace, Cas, Temp, Input} \cup Asked \subseteq Names /\ <<>> \notin {Cas, Temp}
  /\ \A table \in LinkSets :
       /\ table \in [DOMAIN table -> Names]
       /\ \A at \in DOMAIN table : at \in Names \ Nodes /\ Front(at) \in Nodes

PathInit == links \in LinkSets /\ asked \in Asked /\ verdict = None

Evaluate ==
  /\ verdict = None
  /\ verdict' = [read |-> WorkspaceRead, input |-> SandboxRead,
                 appended |-> AppendedTo, written |-> WrittenTo,
                 dangling |-> Permitted(Temp) # None /\ Dangling(Permitted(Temp))]
  /\ UNCHANGED <<links, asked>>

PathSpec == PathInit /\ [][Evaluate]_pathVars

------------------------------------------------------------------------------
(* What is asked of them *)

\* The limit of links is not met on the way to what is written: its first names lead
\* where the last of them leads from what the others lead to.
LimitNotMet ==
  \A root \in {Cas, Temp} : Joined(root) # None =>
    LET Lead(k) == Canonical(SubSeq(Joined(root), 1, k)) IN
    \A k \in 1 .. Len(Joined(root)) :
      Lead(k - 1) # None => Lead(k) = Canonical(Append(Lead(k - 1), Joined(root)[k]))

\* Whatever links there are: what is read is a real path in the workspace outside
\* of everything hidden or denied, and bytes for the raw store make a new file in
\* the raw store, those for the temporary directory a file in it and never the
\* input, unless the name written to is a dangling link.
StaysInside ==
  verdict # None =>
    /\ verdict.read # None =>
         PathContains(Workspace, verdict.read) /\ ~IsDenied(verdict.read)
    /\ verdict.input # None => verdict.input = Canonical(Input)
    /\ verdict.appended # None =>
         PathContains(Cas, verdict.appended) /\ verdict.appended \notin Nodes
    /\ (verdict.written # None /\ ~verdict.dangling) =>
         PathContains(Temp, verdict.written) /\ verdict.written # Canonical(Input)

=============================================================================
