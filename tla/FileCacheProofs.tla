--------------------------- MODULE FileCacheProofs ---------------------------
(***************************************************************************)
(* Theorems about FileCache, for any number of Puts and of faults.  Two    *)
(* invariants carry them: Names, for any set of processes, says that a     *)
(* file never has both names and that a Put about to create one has a file *)
(* of its own; Alone adds, until two Puts overlap, what the only Put under way     *)
(* knows of the file it writes.                                            *)
(***************************************************************************)
EXTENDS FileCache, TLAPS

(***************************************************************************)
(* The names, for any set of processes                                     *)
(***************************************************************************)

Creating(p) == pc[p] = "create"

\* The file a Put would create has no name yet, and is no other Put's.
OwnFile ==
  /\ \A p \in Procs: Creating(p) => ver[p] \in 1..issued /\ ver[p] # tmp /\ ver[p] # path
  /\ \A p, q \in Procs: Creating(p) /\ Creating(q) /\ ver[p] = ver[q] => p = q

Names == TypeOK /\ TmpIsNotEntry /\ tmp <= issued /\ path <= issued /\ OwnFile

\* The empty cache satisfies Names.
LEMMA NamesInit == Init => Names
<1> SUFFICES ASSUME Init PROVE Names
  OBVIOUS
<1>1. TypeOK
  <2>1. content \in [Versions -> Contents] /\ seen \in [Procs -> Contents]
    BY DEF Init, Contents, Empty
  <2>2. /\ issued \in 0..MaxPuts /\ landed \in 0..MaxPuts /\ faults \in 0..MaxFaults
        /\ ver \in [Procs -> 0..MaxPuts] /\ fd \in [Procs -> 0..MaxPuts]
    BY CacheAssumption DEF Init, None
  <2>3. overlapped \in BOOLEAN /\ age \in [Versions -> 0..Old] /\ floor \in [Procs -> 0..MaxPuts]
    <3>1. 0 \in 0..Old /\ 0 \in 0..MaxPuts
      BY CacheAssumption, TtlAssumption
    <3>2. overlapped \in BOOLEAN
      BY DEF Init
    <3>3. QED
      BY <3>1, <3>2 DEF Init
  <2>4. /\ pc \in [Procs -> {"idle", "create", "write", "remove", "rename", "read", "judge"}]
        /\ \A p \in Procs: fd[p] # None <=> pc[p] \in {"write", "read"}
    BY DEF Init
  <2>5. QED
    BY <2>1, <2>2, <2>3, <2>4 DEF Init, TypeOK
<1>2. TmpIsNotEntry /\ tmp <= issued /\ path <= issued /\ OwnFile
  BY DEF Init, TmpIsNotEntry, None, OwnFile, Creating
<1>3. QED
  BY <1>1, <1>2 DEF Names

\* Every system call of Put, and its failure, preserves Names.
LEMMA NamesPut ==
  ASSUME Names, NEW p \in Procs, Put(p) \/ WriteFails(p) \/ Crash(p)
  PROVE  Names'
<1> USE CacheAssumption, TtlAssumption DEF Names, Versions, None, timing
<1>1. CASE PutBegin(p)
  <2>1. TypeOK'
    <3>1. /\ pc' = [pc EXCEPT ![p] = "create"] /\ pc[p] = "idle"
          /\ issued' = issued + 1 /\ issued < MaxPuts
          /\ ver' = [ver EXCEPT ![p] = issued + 1]
          /\ overlapped' \in BOOLEAN
          /\ UNCHANGED <<tmp, path, content, landed, fd, seen, faults, age, floor>>
      BY <1>1 DEF TypeOK, PutBegin, Go, names
    <3>2. issued' \in 0..MaxPuts /\ ver' \in [Procs -> 0..MaxPuts]
      BY <3>1 DEF TypeOK
    <3>3. /\ pc' \in [Procs -> {"idle", "create", "write", "remove", "rename", "read", "judge"}]
          /\ \A q \in Procs: fd'[q] # None <=> pc'[q] \in {"write", "read"}
      BY <3>1 DEF TypeOK
    <3>4. QED
      BY <3>1, <3>2, <3>3 DEF TypeOK
  <2>2. TmpIsNotEntry' /\ (tmp <= issued)' /\ (path <= issued)'
    BY <1>1 DEF TypeOK, PutBegin, TmpIsNotEntry, names
  <2>3. OwnFile'
    <3>1. /\ pc' = [pc EXCEPT ![p] = "create"] /\ issued' = issued + 1
          /\ ver' = [ver EXCEPT ![p] = issued + 1] /\ UNCHANGED <<tmp, path>>
      BY <1>1 DEF PutBegin, Go, names
    <3>2. QED
      BY <3>1 DEF TypeOK, OwnFile, Creating
  <2>4. QED
    BY <2>1, <2>2, <2>3
<1>2. CASE PutCreate(p)
  <2> DEFINE file == IF tmp = None THEN ver[p] ELSE tmp
  <2>1. /\ pc[p] = "create" /\ pc' = [pc EXCEPT ![p] = "write"]
        /\ tmp' = file /\ fd' = [fd EXCEPT ![p] = file]
        /\ content' = [content EXCEPT ![file] = Opened(content[file])]
        /\ UNCHANGED <<path, issued, landed, ver, seen, faults, age, floor>>
    BY <1>2 DEF PutCreate, Go
  <2>2. file \in Versions /\ file <= issued /\ file # path
    BY <2>1 DEF TypeOK, OwnFile, Creating, TmpIsNotEntry
  <2>3. TypeOK'
    <3>1. overlapped' \in BOOLEAN
      BY <1>2 DEF PutCreate, TypeOK
    <3>2. content' \in [Versions -> Contents]
      BY <2>1, <2>2 DEF TypeOK, Opened, Contents, Empty
    <3>3. fd' \in [Procs -> 0..MaxPuts] /\ tmp' \in Versions \cup {None}
      BY <2>1, <2>2 DEF TypeOK
    <3>4. pc' \in [Procs -> {"idle", "create", "write", "remove", "rename", "read", "judge"}]
      BY <2>1 DEF TypeOK
    <3>5. \A q \in Procs: fd'[q] # None <=> pc'[q] \in {"write", "read"}
      BY <2>1, <2>2 DEF TypeOK
    <3>6. QED
      BY <2>1, <3>1, <3>2, <3>3, <3>4, <3>5 DEF TypeOK
  <2>4. TmpIsNotEntry' /\ (tmp <= issued)' /\ (path <= issued)'
    BY <2>1, <2>2 DEF TmpIsNotEntry
  <2>5. OwnFile'
    BY <2>1 DEF TypeOK, OwnFile, Creating
  <2>6. QED
    BY <2>3, <2>4, <2>5
<1>3. CASE PutWrite(p)
  <2>1. TypeOK'
    BY <1>3 DEF TypeOK, PutWrite, Go, Close, Written, Contents, Empty, Torn, names
  <2>2. QED
    BY <1>3, <2>1 DEF TypeOK, PutWrite, Go, TmpIsNotEntry, OwnFile, Creating, names
<1>4. CASE PutRemove(p)
  <2>1. TypeOK'
    BY <1>4 DEF TypeOK, PutRemove, Go
  <2>2. QED
    BY <1>4, <2>1 DEF TypeOK, PutRemove, Go, TmpIsNotEntry, OwnFile, Creating
<1>5. CASE PutRename(p)
  <2>1. TypeOK'
    BY <1>5 DEF TypeOK, PutRename, Rename, Go, names
  <2>2. QED
    BY <1>5, <2>1 DEF TypeOK, PutRename, Rename, Go, TmpIsNotEntry, OwnFile, Creating, names
<1>6. CASE WriteFails(p)
  <2>1. TypeOK'
    BY <1>6 DEF TypeOK, WriteFails, Go, Close, AfterFailedWrite, Contents, Torn, names
  <2>2. QED
    BY <1>6, <2>1 DEF TypeOK, WriteFails, Go, AfterFailedWrite, TmpIsNotEntry, OwnFile, Creating, names
<1>7. CASE Crash(p)
  <2>1. TypeOK'
    BY <1>7 DEF TypeOK, Crash, Close, names
  <2>2. QED
    BY <1>7, <2>1 DEF TypeOK, Crash, TmpIsNotEntry, OwnFile, Creating, names
<1>8. QED
  BY <1>1, <1>2, <1>3, <1>4, <1>5, <1>6, <1>7 DEF Put

\* So does every step of Get.
LEMMA NamesGet ==
  ASSUME Names, NEW p \in Procs, Get(p)
  PROVE  Names'
<1> USE CacheAssumption, TtlAssumption DEF Names, Versions, None, timing
<1>1. CASE GetOpen(p)
  <2>1. TypeOK'
    BY <1>1 DEF TypeOK, GetOpen, Go, names
  <2>2. QED
    BY <1>1, <2>1 DEF TypeOK, GetOpen, Go, TmpIsNotEntry, OwnFile, Creating, names
<1>2. CASE GetRead(p)
  <2>1. TypeOK'
    BY <1>2 DEF TypeOK, GetRead, Go, Close, names
  <2>2. QED
    BY <1>2, <2>1 DEF TypeOK, GetRead, Go, TmpIsNotEntry, OwnFile, Creating, names
<1>3. CASE GetJudge(p)
  <2>1. TypeOK'
    BY <1>3 DEF TypeOK, GetJudge, Go, Contents, Empty
  <2>2. QED
    BY <1>3, <2>1 DEF TypeOK, GetJudge, Go, TmpIsNotEntry, OwnFile, Creating
<1>4. QED
  BY <1>1, <1>2, <1>3 DEF Get

\* The passing of time touches no name.
LEMMA NamesAges == Names /\ Ages => Names'
<1> SUFFICES ASSUME Names, Ages PROVE Names'
  OBVIOUS
<1> USE CacheAssumption, TtlAssumption DEF Names
<1>1. age' \in [Versions -> 0..Old]
  BY DEF Ages, TypeOK
<1>2. QED
  BY <1>1 DEF Ages, names, TypeOK, TmpIsNotEntry, OwnFile, Creating, Contents, Versions

LEMMA NamesStep == Names /\ [Next]_vars => Names'
<1> SUFFICES ASSUME Names, [Next]_vars PROVE Names'
  OBVIOUS
<1>1. CASE Next
  BY <1>1, NamesPut, NamesGet, NamesAges DEF Next, Step
<1>2. CASE UNCHANGED vars
  BY <1>2 DEF vars, Names, TypeOK, TmpIsNotEntry, OwnFile, Creating, Contents, Versions
<1>3. QED
  BY <1>1, <1>2

THEOREM NamesInvariant == Spec => []Names
  BY NamesInit, NamesStep, PTL DEF Spec

\* Every variable keeps its type, for any processes, Puts and faults.
THEOREM CacheTypeCorrect == Spec => []TypeOK
  BY NamesInvariant, PTL DEF Names

\* No Put of any process opens, and so truncates, the entry: the shared name
\* of the temporary file never refers to what has been renamed into place.
THEOREM TmpIsNotEntryHolds == Spec => []TmpIsNotEntry
  BY NamesInvariant, PTL DEF Names

(***************************************************************************)
(* One Put at a time, of whichever process                                 *)
(***************************************************************************)

\* The entry parses and is no older than the last Put.
Whole == landed <= issued /\ (path # None => content[path] \in Versions /\ landed <= content[path])

\* What the only Put under way knows: its status is the newest, the open file
\* is the temporary one and is empty, and once written it will be the entry.
Mine(p) ==
  /\ Putting(p) => ver[p] \in Versions /\ landed <= ver[p] /\ ver[p] <= issued
  /\ pc[p] = "write" => fd[p] = tmp /\ content[tmp] = Empty
  /\ pc[p] \in {"remove", "rename"} => tmp # None /\ content[tmp] = ver[p]

OnePut == \A p, q \in Procs: Putting(p) /\ Putting(q) => p = q

Alone == Names /\ (~overlapped => Whole /\ OnePut /\ \A p \in Procs: Mine(p))

LEMMA AloneInit == Init => Alone
  BY NamesInit, CacheAssumption DEF Init, Alone, Whole, OnePut, Mine, Putting, None

\* Every step of the only Put preserves what it knows, and so does every step
\* of a Get.
LEMMA AlonePut ==
  ASSUME Alone, ~overlapped', NEW p \in Procs,
         Put(p) \/ Get(p) \/ WriteFails(p) \/ Crash(p)
  PROVE  (Whole /\ OnePut /\ \A q \in Procs: Mine(q))'
<1>1. ~overlapped
  BY DEF Put, Get, PutBegin, PutCreate, PutWrite, PutRemove, PutRename, GetOpen, GetRead, GetJudge,
         WriteFails, Crash, Alone, Names, TypeOK
<1>2. Whole /\ OnePut /\ (\A q \in Procs: Mine(q)) /\ TypeOK /\ TmpIsNotEntry /\ OwnFile
  BY <1>1 DEF Alone, Names
<1> USE <1>2, CacheAssumption DEF Whole, OnePut, Mine, Putting, Versions, None, TypeOK
<1>3. CASE PutBegin(p)
  <2>1. \A q \in Procs: ~Putting(q)
    BY <1>3, <1>1 DEF PutBegin
  <2>2. /\ pc' = [pc EXCEPT ![p] = "create"]
        /\ issued' = issued + 1 /\ issued < MaxPuts
        /\ ver' = [ver EXCEPT ![p] = issued + 1]
        /\ UNCHANGED <<tmp, path, content, landed>>
    BY <1>3 DEF PutBegin, Go, names
  <2>3. QED
    BY <2>1, <2>2
<1>4. CASE PutCreate(p)
  <2> DEFINE file == IF tmp = None THEN ver[p] ELSE tmp
  <2>1. /\ pc[p] = "create" /\ pc' = [pc EXCEPT ![p] = "write"]
        /\ tmp' = file /\ fd' = [fd EXCEPT ![p] = file]
        /\ content' = [content EXCEPT ![file] = Opened(content[file])]
        /\ UNCHANGED <<path, issued, landed, ver, seen, faults>>
    BY <1>4 DEF PutCreate, Go
  <2>2. file \in Versions /\ file # path
    BY <2>1 DEF OwnFile, Creating, TmpIsNotEntry
  <2>3. QED
    BY <2>1, <2>2 DEF Opened, Contents
<1>5. CASE PutWrite(p)
  <2>1. /\ pc[p] = "write" /\ pc' = [pc EXCEPT ![p] = "remove"]
        /\ content' = [content EXCEPT ![tmp] = ver[p]]
        /\ UNCHANGED <<tmp, path, issued, landed, ver, seen, faults>>
    BY <1>5 DEF PutWrite, Go, Written, names
  <2>2. tmp \in Versions /\ tmp # path
    BY <1>5, <2>1 DEF TmpIsNotEntry
  <2>3. QED
    BY <1>5, <2>1, <2>2 DEF PutWrite, Close
<1>6. CASE PutRemove(p)
  BY <1>6 DEF PutRemove, Go
<1>7. CASE PutRename(p)
  BY <1>7 DEF PutRename, Rename, Go, names
<1>8. CASE WriteFails(p)
  <2>1. /\ pc[p] = "write" /\ pc' = [pc EXCEPT ![p] = "idle"]
        /\ content' = [content EXCEPT ![tmp] = Torn]
        /\ UNCHANGED <<tmp, path, issued, landed, ver, seen>>
    BY <1>8 DEF WriteFails, Go, AfterFailedWrite, names
  <2>2. QED
    BY <1>8, <2>1 DEF TmpIsNotEntry
<1>9. CASE Crash(p)
  BY <1>9 DEF Crash, Close, names
<1>10. CASE GetOpen(p)
  BY <1>10 DEF GetOpen, Go, names
<1>11. CASE GetRead(p)
  BY <1>11 DEF GetRead, Close, Go, names
<1>12. CASE GetJudge(p)
  BY <1>12 DEF GetJudge, Go
<1>13. QED
  BY <1>3, <1>4, <1>5, <1>6, <1>7, <1>8, <1>9, <1>10, <1>11, <1>12 DEF Put, Get

LEMMA AloneStep == Alone /\ [Next]_vars => Alone'
<1> SUFFICES ASSUME Alone, [Next]_vars PROVE Alone'
  OBVIOUS
<1>1. Names'
  BY NamesStep DEF Alone
<1>2. CASE \E p \in Procs: Step(p)
  BY <1>1, <1>2, AlonePut DEF Step, Alone
<1>3. CASE Ages \/ UNCHANGED vars
  BY <1>1, <1>3 DEF vars, Ages, names, Alone, Whole, OnePut, Mine, Putting, Versions
<1>4. QED
  BY <1>2, <1>3 DEF Next

\* Until two Puts overlap, the entry parses and does not go back behind the
\* last Put that succeeded, whichever of Put's system calls fails or is its
\* last, and however many processes look at the cache.
THEOREM EntryNewestHolds == Spec => []EntryNewest
<1>1. Alone => EntryNewest
  BY DEF Alone, Names, TypeOK, Whole, EntryNewest, Parses, Versions, None
<1>2. QED
  BY AloneInit, AloneStep, <1>1, PTL DEF Spec

(***************************************************************************)
(* What a Get reads                                                        *)
(***************************************************************************)

\* The file that p has open was the entry: no Put will write it any more, and
\* until two Puts overlap it holds what p may answer.
Opener(p) == pc[p] = "read" =>
  /\ fd[p] \in 1..issued /\ fd[p] # tmp
  /\ \A q \in Procs: Creating(q) => ver[q] # fd[p]
  /\ ~overlapped => content[fd[p]] \in Versions /\ content[fd[p]] >= floor[p]

Judge(p) == pc[p] = "judge" /\ ~overlapped => seen[p] \in Versions /\ seen[p] >= floor[p]

Reading == Alone /\ \A p \in Procs: Opener(p) /\ Judge(p)

LEMMA ReadingInit == Init => Reading
  BY AloneInit DEF Init, Reading, Opener, Judge

\* No step of any process disturbs what another has open, or has read.
LEMMA ReadingStepOf ==
  ASSUME Reading, Alone', NEW p \in Procs, Step(p), NEW r \in Procs
  PROVE  (Opener(r) /\ Judge(r))'
<1>1. /\ TypeOK /\ TmpIsNotEntry /\ OwnFile /\ tmp <= issued /\ path <= issued
      /\ Opener(r) /\ Judge(r)
  BY DEF Reading, Alone, Names
<1>2. /\ issued \in Nat /\ tmp \in Nat /\ path \in Nat /\ DOMAIN content = 1..MaxPuts
      /\ \A q \in Procs: ver[q] \in Nat /\ fd[q] \in Nat
      /\ DOMAIN pc = Procs /\ DOMAIN ver = Procs /\ DOMAIN fd = Procs
      /\ DOMAIN seen = Procs /\ DOMAIN floor = Procs
  BY <1>1, CacheAssumption DEF TypeOK, Versions, None
<1>3. /\ ~overlapped => Whole /\ \A q \in Procs: Mine(q)
      /\ overlapped => overlapped'
  <2>1. ~overlapped => Whole /\ \A q \in Procs: Mine(q)
    BY DEF Reading, Alone
  <2>2. overlapped => overlapped'
    BY <1>1 DEF Step, Put, Get, PutBegin, PutCreate, PutWrite, PutRemove, PutRename, GetOpen,
                GetRead, GetJudge, WriteFails, Crash, TypeOK
  <2>3. QED
    BY <2>1, <2>2
<1> USE <1>2 DEF Opener, Judge, Creating, Versions, None
<1>4. CASE PutBegin(p)
  <2>1. /\ pc[p] = "idle" /\ pc' = [pc EXCEPT ![p] = "create"] /\ issued' = issued + 1
        /\ ver' = [ver EXCEPT ![p] = issued + 1]
        /\ UNCHANGED <<tmp, path, content, fd, seen, floor>>
    BY <1>4 DEF PutBegin, Go, names, timing
  <2>2. Judge(r)'
    BY <1>1, <1>3, <2>1
  <2>3. ASSUME pc'[r] = "read"
        PROVE  /\ fd[r] \in 1..issued' /\ fd[r] # tmp
               /\ \A q \in Procs: pc'[q] = "create" => ver'[q] # fd[r]
    <3>1. pc[r] = "read" /\ fd[r] \in 1..issued /\ fd[r] # tmp
      BY <1>1, <2>1, <2>3
    <3>2. ASSUME NEW q \in Procs, pc'[q] = "create" PROVE ver'[q] # fd[r]
      BY <1>1, <2>1, <3>1, <3>2
    <3>3. QED
      BY <2>1, <3>1, <3>2
  <2>4. QED
    BY <1>1, <1>3, <2>1, <2>2, <2>3
<1>5. CASE PutCreate(p)
  <2> DEFINE file == IF tmp = None THEN ver[p] ELSE tmp
  <2>1. /\ pc[p] = "create" /\ pc' = [pc EXCEPT ![p] = "write"]
        /\ tmp' = file /\ fd' = [fd EXCEPT ![p] = file]
        /\ content' = [content EXCEPT ![file] = Opened(content[file])]
        /\ UNCHANGED <<path, issued, ver, seen, floor>>
    BY <1>5 DEF PutCreate, Go, timing
  <2>2. pc[r] = "read" => r # p /\ fd[r] # file
    BY <1>1, <2>1
  <2>3. QED
    <3> HIDE DEF file
    <3>1. Judge(r)'
      BY <1>1, <1>3, <2>1
    <3>2. ASSUME pc'[r] = "read"
          PROVE  /\ pc[r] = "read" /\ fd'[r] = fd[r] /\ fd[r] # file
                 /\ content'[fd[r]] = content[fd[r]] /\ floor'[r] = floor[r]
      BY <1>1, <2>1, <2>2, <3>2
    <3>3. \A q \in Procs: pc'[q] = "create" => pc[q] = "create" /\ ver'[q] = ver[q]
      BY <2>1
    <3>4. QED
      BY <1>1, <1>3, <2>1, <3>1, <3>2, <3>3
<1>6. CASE PutWrite(p) \/ WriteFails(p)
  <2>1. /\ pc[p] = "write" /\ pc'[p] \in {"remove", "idle"}
        /\ \A q \in Procs \ {p}: pc'[q] = pc[q] /\ fd'[q] = fd[q]
        /\ UNCHANGED <<tmp, path, issued, ver, seen, floor>>
        /\ \E c: content' = [content EXCEPT ![fd[p]] = c]
    BY <1>6 DEF PutWrite, WriteFails, AfterFailedWrite, Close, Go, names, timing
  <2>2. ~overlapped => fd[p] = tmp
    BY <2>1, <1>3 DEF Mine
  <2>3. Judge(r)'
    BY <1>1, <1>3, <2>1
  <2>4. pc'[r] = "read" => pc[r] = "read" /\ r # p /\ fd'[r] = fd[r]
    BY <2>1
  <2>5. pc'[r] = "read" /\ ~overlapped => content'[fd[r]] = content[fd[r]]
    BY <1>1, <2>1, <2>2, <2>4
  <2>6. \A q \in Procs: pc'[q] = "create" => pc[q] = "create"
    BY <2>1
  <2>7. QED
    BY <1>1, <1>3, <2>1, <2>3, <2>4, <2>5, <2>6
<1>7. CASE PutRemove(p)
  BY <1>1, <1>3, <1>7 DEF PutRemove, Go, timing
<1>8. CASE PutRename(p)
  BY <1>1, <1>3, <1>8 DEF PutRename, Rename, Go, names, timing
<1>9. CASE Crash(p)
  BY <1>1, <1>3, <1>9 DEF Crash, Close, names
<1>10. CASE GetOpen(p)
  <2>1. /\ pc[p] = "idle" /\ pc' = [pc EXCEPT ![p] = "read"] /\ path # None
        /\ fd' = [fd EXCEPT ![p] = path] /\ floor' = [floor EXCEPT ![p] = landed]
        /\ UNCHANGED <<tmp, path, content, issued, ver, seen, overlapped>>
    BY <1>10 DEF GetOpen, Go, names
  <2>2. path \in 1..issued /\ path # tmp /\ \A q \in Procs: Creating(q) => ver[q] # path
    BY <1>1, <2>1 DEF TmpIsNotEntry, OwnFile
  <2>3. ~overlapped => content[path] \in 1..MaxPuts /\ content[path] >= landed
    <3>1. landed \in Nat /\ MaxPuts \in Nat
      BY <1>1, CacheAssumption DEF TypeOK
    <3>2. QED
      BY <2>1, <1>3, <3>1 DEF Whole
  <2>4. QED
    BY <1>1, <1>3, <2>1, <2>2, <2>3
<1>11. CASE GetRead(p)
  <2>1. /\ pc[p] = "read" /\ pc' = [pc EXCEPT ![p] = "judge"]
        /\ seen' = [seen EXCEPT ![p] = content[fd[p]]] /\ fd' = [fd EXCEPT ![p] = None]
        /\ UNCHANGED <<tmp, path, content, issued, ver, floor, overlapped>>
    BY <1>11 DEF GetRead, Close, Go, names, timing
  <2>2. QED
    BY <1>1, <2>1
<1>12. CASE GetJudge(p)
  BY <1>1, <1>3, <1>12 DEF GetJudge, Go
<1>13. QED
  BY <1>4, <1>5, <1>6, <1>7, <1>8, <1>9, <1>10, <1>11, <1>12 DEF Step, Put, Get

LEMMA ReadingStep == Reading /\ [Next]_vars => Reading'
<1> SUFFICES ASSUME Reading, [Next]_vars PROVE Reading'
  OBVIOUS
<1>1. Alone'
  BY AloneStep DEF Reading
<1>2. CASE \E p \in Procs: Step(p)
  BY <1>1, <1>2, ReadingStepOf DEF Reading
<1>3. CASE Ages \/ UNCHANGED vars
  BY <1>1, <1>3 DEF vars, Ages, names, Reading, Opener, Judge, Creating, Versions
<1>4. QED
  BY <1>2, <1>3 DEF Next

\* Until two Puts overlap, what any Get has read is a whole entry and not older
\* than the last Put that had returned when it opened it; and no entry that has
\* outlived its TTL is a hit.
THEOREM AnswersCurrentHolds == Spec => []AnswersCurrent
<1>1. Reading => AnswersCurrent
  <2> SUFFICES ASSUME Reading, NEW p \in Procs, pc[p] = "judge"
               PROVE  /\ ~overlapped => Parses(seen[p]) /\ seen[p] >= floor[p]
                      /\ \A ttl \in Ttls \ {0}: Hits(p, ttl) => age[seen[p]] <= ttl
    BY DEF AnswersCurrent
  <2>1. ~overlapped => Parses(seen[p]) /\ seen[p] >= floor[p]
    BY DEF Reading, Judge, Parses
  <2>2. \A ttl \in Ttls \ {0}: Hits(p, ttl) => age[seen[p]] <= ttl
    BY DEF Hits, Fresh
  <2>3. QED
    BY <2>1, <2>2
<1>2. QED
  BY ReadingInit, ReadingStep, <1>1, PTL DEF Spec
=============================================================================
