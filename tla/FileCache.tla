------------------------------ MODULE FileCache ------------------------------
(***************************************************************************)
(* The file cache, internal/cache/cache.go: Put and Get of one key, called *)
(* by the processes of several statisfy commands at once, any of which may *)
(* die between two system calls.  Put writes a temporary file whose name   *)
(* all of them share and renames it over the entry; Get reads the entry    *)
(* and removes it if it does not parse.                                    *)
(*                                                                         *)
(* A file is known by the Put that created it, and its content by the Put  *)
(* that wrote it: an inode lives on under the descriptors that refer to it *)
(* when its name is renamed or removed.  A write is one step.  Time shows  *)
(* only in the ages of the entries, which stop at Old: beyond every TTL.   *)
(***************************************************************************)
EXTENDS Integers

CONSTANTS
  Procs,        \* the processes that use the cache
  Ttls,         \* what ttlFor answers; 0 is "no expiry"
  MaxPuts,      \* bound: the Puts ever begun
  MaxFaults,    \* bound: the crashes and failing system calls
  Old           \* bound: an age beyond every TTL

ASSUME CacheAssumption == MaxPuts \in Nat /\ MaxFaults \in Nat
ASSUME TtlAssumption == Old \in Nat /\ Ttls \subseteq 0..Old - 1

VARIABLES
  tmp,        \* the file that key.json.tmp names, 0 for none
  path,       \* the file that key.json names, 0 for none
  content,    \* what is in each file
  issued,     \* the number of Puts begun
  landed,     \* the last Put that returned without an error
  pc,         \* where each process is
  ver,        \* the status a process puts
  fd,         \* the file a process has open
  seen,       \* what a process has read
  faults,     \* the crashes and failures so far
  age,        \* the time since FetchedAt of each Put's entry
  floor,      \* history: the last Put that had returned when the Get opened the entry
  overlapped  \* history: a Put has begun while another was under way

names == <<tmp, path>>
timing == <<age, floor>>
vars == <<tmp, path, content, issued, landed, pc, ver, fd, seen, faults, age, floor, overlapped>>

Versions == 1..MaxPuts
None == 0

\* An empty file and one left by two overlapping or cut-off writes: neither
\* parses.
Empty == 0
Torn == -1
Contents == Versions \cup {Empty, Torn}
Parses(c) == c \in Versions

\* The types, and that a process has a file open only while it reads or writes.
TypeOK ==
  /\ tmp \in Versions \cup {None} /\ path \in Versions \cup {None}
  /\ content \in [Versions -> Contents]
  /\ issued \in 0..MaxPuts /\ landed \in 0..MaxPuts
  /\ pc \in [Procs -> {"idle", "create", "write", "remove", "rename", "read", "judge"}]
  /\ ver \in [Procs -> 0..MaxPuts]
  /\ fd \in [Procs -> 0..MaxPuts]
  /\ seen \in [Procs -> Contents]
  /\ faults \in 0..MaxFaults
  /\ age \in [Versions -> 0..Old]
  /\ floor \in [Procs -> 0..MaxPuts]
  /\ overlapped \in BOOLEAN
  /\ \A p \in Procs: fd[p] # None <=> pc[p] \in {"write", "read"}

Init ==
  /\ tmp = None /\ path = None
  /\ content = [v \in Versions |-> Empty]
  /\ issued = 0 /\ landed = 0
  /\ pc = [p \in Procs |-> "idle"]
  /\ ver = [p \in Procs |-> 0]
  /\ fd = [p \in Procs |-> None]
  /\ seen = [p \in Procs |-> Empty]
  /\ faults = 0
  /\ age = [v \in Versions |-> 0]
  /\ floor = [p \in Procs |-> 0]
  /\ overlapped = FALSE

Go(p, from, to) == pc[p] = from /\ pc' = [pc EXCEPT ![p] = to]

\* os.ReadFile and os.WriteFile close what they opened.
Close(p) == fd' = [fd EXCEPT ![p] = None]

(***************************************************************************)
(* Put                                                                     *)
(***************************************************************************)

Putting(p) == pc[p] \in {"create", "write", "remove", "rename"}

\* The directory is made and the entry marshalled.
PutBegin(p) ==
  /\ Go(p, "idle", "create")
  /\ issued < MaxPuts
  /\ issued' = issued + 1
  /\ ver' = [ver EXCEPT ![p] = issued + 1]
  /\ overlapped' = (overlapped \/ \E q \in Procs: Putting(q))
  /\ UNCHANGED <<names, content, landed, fd, seen, faults, timing>>

\* os.WriteFile opens the temporary file, creating or truncating it.
\* Mutant of Opened: it is opened without O_TRUNC.
OpenedMutant(old) == old
Opened(old) == Empty

PutCreate(p) ==
  /\ Go(p, "create", "write")
  /\ LET file == IF tmp = None THEN ver[p] ELSE tmp
     IN  /\ tmp' = file
         /\ fd' = [fd EXCEPT ![p] = file]
         /\ content' = [content EXCEPT ![file] = Opened(content[file])]
  /\ UNCHANGED <<path, issued, landed, ver, seen, faults, timing, overlapped>>

\* ... and writes from its start.  Over what another process has written
\* since, it leaves a torn file if the other's entry was the longer one.
Written(old, v) == IF old = Empty THEN {v} ELSE {v, Torn}

PutWrite(p) ==
  /\ Go(p, "write", "remove")
  /\ \E c \in Written(content[fd[p]], ver[p]): content' = [content EXCEPT ![fd[p]] = c]
  /\ Close(p)
  /\ UNCHANGED <<names, issued, landed, ver, seen, faults, timing, overlapped>>

\* The old entry is dropped; a failure to do so is ignored.
PutRemove(p) ==
  /\ Go(p, "remove", "rename")
  /\ path' \in {None, path}
  /\ UNCHANGED <<tmp, content, issued, landed, ver, fd, seen, faults, timing, overlapped>>

\* os.Rename, which fails if another process has renamed the file away.
\* Mutant of Rename: one that does not replace an entry that is still there.
RenameMutantKeep ==
  IF path = None THEN path' = tmp /\ tmp' = None ELSE UNCHANGED path /\ tmp' = None
Rename == path' = tmp /\ tmp' = None

PutRename(p) ==
  /\ Go(p, "rename", "idle")
  /\ \/ tmp # None /\ Rename /\ landed' = ver[p]
     \/ tmp = None /\ UNCHANGED <<names, landed>>
  /\ ver' = [ver EXCEPT ![p] = 0]
  /\ UNCHANGED <<content, issued, fd, seen, faults, timing, overlapped>>

(***************************************************************************)
(* A system call of Put fails, or the process dies: Put ends where it is.  *)
(* A write may have been cut off.                                          *)
(***************************************************************************)
\* Mutant of AfterFailedWrite: WriteFile's error is not looked at.
AfterFailedWriteMutant == "remove"
AfterFailedWrite == "idle"

WriteFails(p) ==
  /\ Go(p, "write", AfterFailedWrite)
  /\ faults < MaxFaults /\ faults' = faults + 1
  /\ content' = [content EXCEPT ![fd[p]] = Torn]
  /\ Close(p)
  /\ UNCHANGED <<names, issued, landed, ver, seen, timing, overlapped>>

Crash(p) ==
  /\ pc[p] # "idle"
  /\ pc' = [pc EXCEPT ![p] = "idle"]
  /\ faults < MaxFaults /\ faults' = faults + 1
  /\ Close(p)
  /\ floor' = [floor EXCEPT ![p] = 0]
  /\ UNCHANGED <<names, content, issued, landed, ver, seen, age, overlapped>>

(***************************************************************************)
(* Get: without a file, or with one that parses, the cache stays as it is. *)
(***************************************************************************)
GetOpen(p) ==
  /\ Go(p, "idle", "read")
  /\ path # None
  /\ fd' = [fd EXCEPT ![p] = path]
  /\ floor' = [floor EXCEPT ![p] = landed]
  /\ UNCHANGED <<names, content, issued, landed, ver, seen, faults, age, overlapped>>

GetRead(p) ==
  /\ Go(p, "read", "judge")
  /\ seen' = [seen EXCEPT ![p] = content[fd[p]]]
  /\ Close(p)
  /\ UNCHANGED <<names, content, issued, landed, ver, faults, timing, overlapped>>

\* Mutant of Drops: an entry that does not parse is only a miss.
DropsMutant(c) == FALSE
Drops(c) == ~Parses(c)

\* An entry that does not parse is removed by its name, whatever that names
\* by now; a hit, a miss and an entry that is too old change nothing.
GetJudge(p) ==
  /\ Go(p, "judge", "idle")
  /\ path' = IF Drops(seen[p]) THEN None ELSE path
  /\ seen' = [seen EXCEPT ![p] = Empty]
  /\ floor' = [floor EXCEPT ![p] = 0]
  /\ UNCHANGED <<tmp, content, issued, landed, ver, fd, faults, age, overlapped>>

\* What Get answers if it judges now: what it has read, if that parses and is
\* not older than the key's TTL.
Fresh(v, ttl) == ttl = 0 \/ age[v] <= ttl
Hits(p, ttl) == Parses(seen[p]) /\ Fresh(seen[p], ttl)

\* Time passes for every entry, on disk or not.
Ages ==
  /\ age' = [v \in Versions |-> IF v <= issued /\ age[v] < Old THEN age[v] + 1 ELSE age[v]]
  /\ UNCHANGED <<names, content, issued, landed, pc, ver, fd, seen, faults, floor, overlapped>>

Put(p) == PutBegin(p) \/ PutCreate(p) \/ PutWrite(p) \/ PutRemove(p) \/ PutRename(p)
Get(p) == GetOpen(p) \/ GetRead(p) \/ GetJudge(p)
Step(p) == Put(p) \/ Get(p) \/ WriteFails(p) \/ Crash(p)
Next == Ages \/ \E p \in Procs: Step(p)

Spec == Init /\ [][Next]_vars

\* A call that has begun goes on, and the cache is looked at again and again.
FairSpec == Spec /\ \A p \in Procs: WF_vars(Put(p) /\ pc[p] # "idle") /\ WF_vars(Get(p))

(***************************************************************************)
(* Properties                                                              *)
(***************************************************************************)

\* The temporary file of the next Put is never the entry: no Put opens, and
\* so truncates, what has been renamed into place.
TmpIsNotEntry == path # None => path # tmp

\* As long as no two Puts overlap, whichever processes make them, the entry
\* parses and is no older than the last that was put, wherever a process dies
\* and whatever fails.
EntryNewest == ~overlapped /\ path # None => Parses(content[path]) /\ content[path] >= landed

\* As long as no two Puts overlap, what a Get has read parses and is no older
\* than the last Put that had returned when the Get opened the entry, whatever
\* is renamed, removed or cut off between the opening and the judging; and no
\* answer is older than its key's TTL, unless that is zero.
AnswersCurrent == \A p \in Procs: pc[p] = "judge" =>
  /\ ~overlapped => Parses(seen[p]) /\ seen[p] >= floor[p]
  /\ \A ttl \in Ttls \ {0}: Hits(p, ttl) => age[seen[p]] <= ttl

\* An entry that does not parse is not there for ever: a Get drops it or a
\* Put replaces it.
TornIsDropped == path # None /\ ~Parses(content[path]) ~> path = None \/ Parses(content[path])
=============================================================================
