------------------------------ MODULE Quarantine ------------------------------
(***************************************************************************)
(* Attachments in quarantine (crates/seaki-channel/src/quarantine.rs).     *)
(* Workers process attachments one step after the other, and share the     *)
(* files of the quarantine directory.  A content stands for its hash; it   *)
(* has a size.                                                             *)
(***************************************************************************)
EXTENDS Naturals, Sequences

CONSTANTS
  Workers,
  Attachments,  \* [key, version, ext, size, mime, hash]: key and version are sequences,
                \* size 0, mime None and hash None are not declared
  Contents,     \* what may be downloaded, with "partial" for a download that broke
  SizeOf,       \* content -> its size
  Unsafe,       \* the keys and versions that sanitize_path_component rejects
  MimeOf,       \* extension -> observed_mime_from_path
  MaxCalls,     \* bound: calls of process
  None

Separator == "_"

\* Versions have no separator in them: the channels make only the version "1"
\* (crates/seaki-channel/src/feishu.rs:546).  Keys may have one.
QuarantineAssumption ==
  /\ Separator \in STRING
  /\ \A a \in Attachments : a.key \in Seq(STRING) /\ a.version \in Seq(STRING \ {Separator})
  /\ None \notin Attachments /\ None # "Clean"

VARIABLES
  files,        \* path -> its content, or None
  at,           \* worker -> the step it is at
  job,          \* worker -> its attachment
  size, hash,   \* worker -> observed_size, observed_hash
  verdict,      \* worker -> what its last call returned
  audit,        \* worker -> the records of its last call: <<stage, passed>>
  calls,
  touched       \* history: worker -> whether another download hit its file since its own

quarantineVars == <<files, at, job, size, hash, verdict, audit, calls, touched>>

\* Mutant: the version is left out of the name.
DestByKey(a) == <<a.key, a.ext>>

\* The file an attachment is downloaded to: key, "_", version and extension.
Dest(a) == <<a.key \o <<Separator>> \o a.version, a.ext>>

Paths == {Dest(a) : a \in Attachments}

QuarantineInit ==
  /\ files = [p \in Paths |-> None]
  /\ at = [w \in Workers |-> "rest"] /\ job = [w \in Workers |-> None]
  /\ size = [w \in Workers |-> 0] /\ hash = [w \in Workers |-> None]
  /\ verdict = [w \in Workers |-> None] /\ audit = [w \in Workers |-> <<>>]
  /\ calls = 0 /\ touched = [w \in Workers |-> FALSE]

Record(w, stage, passed) == audit' = [audit EXCEPT ![w] = Append(@, <<stage, passed>>)]
Goto(w, step) == at' = [at EXCEPT ![w] = step] /\ UNCHANGED verdict
Return(w, v) == at' = [at EXCEPT ![w] = "rest"] /\ verdict' = [verdict EXCEPT ![w] = v]

\* process is called; names that do not make a path are refused without a record.
Process(w, a) ==
  /\ at[w] = "rest" /\ calls < MaxCalls /\ calls' = calls + 1
  /\ job' = [job EXCEPT ![w] = a] /\ audit' = [audit EXCEPT ![w] = <<>>]
  /\ touched' = [touched EXCEPT ![w] = FALSE]
  /\ IF {a.key, a.version} \cap Unsafe # {} THEN Return(w, "IOError")
     ELSE /\ at' = [at EXCEPT ![w] = "download"] /\ verdict' = [verdict EXCEPT ![w] = None]
  /\ UNCHANGED <<files, size, hash>>

\* The same version of the same file.
Same(a, b) == <<a.key, a.version, a.ext>> = <<b.key, b.version, b.ext>>

\* Step 1; a download that fails may leave a partial file behind.
Download(w) ==
  /\ at[w] = "download"
  /\ \E c \in Contents : files' = [files EXCEPT ![Dest(job[w])] = c]
  /\ \/ Record(w, "Download", TRUE) /\ Goto(w, "size")
     \/ Record(w, "Download", FALSE) /\ Return(w, "IOError")
  /\ touched' = [v \in Workers |-> IF v = w THEN FALSE
       ELSE touched[v] \/ (job[v] # None /\ Same(job[v], job[w]))]
  /\ UNCHANGED <<job, size, hash, calls>>

\* Steps 2 and 3: the size and the hash are read one after the other.
ObserveSize(w) ==
  /\ at[w] = "size"
  /\ size' = [size EXCEPT ![w] = SizeOf[files[Dest(job[w])]]]
  /\ Goto(w, "hash") /\ UNCHANGED <<files, job, hash, audit, calls, touched>>

ObserveHash(w) ==
  /\ at[w] = "hash"
  /\ hash' = [hash EXCEPT ![w] = files[Dest(job[w])]]
  /\ Goto(w, "check") /\ UNCHANGED <<files, job, size, audit, calls, touched>>

\* Steps 4 to 8: size, MIME type by extension, hash; the malware scan is a stub.
SizeAgrees(w) == job[w].size = 0 \/ size[w] = job[w].size
MimeAgrees(w) == job[w].mime = None \/ job[w].mime = MimeOf[job[w].ext]

HashAgrees(w) == job[w].hash = None \/ hash[w] = job[w].hash

Records(w) ==
  IF ~SizeAgrees(w) THEN << <<"HashCheck", FALSE>> >>
  ELSE IF ~MimeAgrees(w) THEN << <<"HashCheck", TRUE>>, <<"MimeCheck", FALSE>> >>
  ELSE << <<"HashCheck", TRUE>>, <<"MimeCheck", TRUE>>,
          IF HashAgrees(w) THEN <<"MalwareScan", TRUE>> ELSE <<"HashCheck", FALSE>> >>

Check(w) ==
  /\ at[w] = "check"
  /\ audit' = [audit EXCEPT ![w] = @ \o Records(w)]
  /\ Return(w, IF ~SizeAgrees(w) THEN "SizeMismatch"
               ELSE IF ~MimeAgrees(w) THEN "MimeMismatch"
               ELSE IF ~HashAgrees(w) THEN "HashMismatch" ELSE "Clean")
  /\ UNCHANGED <<files, job, size, hash, calls, touched>>

QuarantineNext ==
  \E w \in Workers :
    \/ \E a \in Attachments : Process(w, a)
    \/ Download(w)
    \/ ObserveSize(w)
    \/ ObserveHash(w)
    \/ Check(w)

QuarantineSpec == QuarantineInit /\ [][QuarantineNext]_quarantineVars

------------------------------------------------------------------------------
(* What is asked of it *)

\* An attachment is called clean only when every check of it is on record as passed and a
\* declared hash is that of what was read; and as long as nobody downloads to the same
\* file again, only a download of the same key and version ever does so, and the file
\* is what was checked: as large as declared, with the recorded hash.
CleanIsWhole ==
  \A w \in Workers : verdict[w] = "Clean" =>
    /\ \A k \in DOMAIN audit[w] : audit[w][k][2]
    /\ Len(audit[w]) = 4
    /\ job[w].hash # None => hash[w] = job[w].hash
    /\ ~touched[w] =>
         /\ files[Dest(job[w])] = hash[w]
         /\ SizeOf[hash[w]] = size[w]
         /\ job[w].size # 0 => size[w] = job[w].size

=============================================================================
