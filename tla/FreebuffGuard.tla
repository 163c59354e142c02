---------------------------- MODULE FreebuffGuard ----------------------------
(***************************************************************************)
(* FreebuffAdapter.Fetch and its guard, internal/adapters/freebuff.go: the *)
(* session endpoint is asked once, and only when no Freebuff instance is   *)
(* seen to run.  The guard looks at the owner file and at the process it   *)
(* names, in separate system calls, while the CLI starts, writes the file  *)
(* and ends.  Fetches follow one another, as the cycles of watch do.       *)
(*                                                                         *)
(* The CLI is external: one instance at a time, which writes its pid some  *)
(* time after it has started, and may leave the file behind when it ends.  *)
(* A pid that is free again may be given to another process.  Of time only *)
(* the fifteen minutes (ownerFileFresh) matter, after which a file is old. *)
(***************************************************************************)
EXTENDS Integers

CONSTANTS
  Pids,         \* process ids
  MaxStarts     \* bound: the instances ever started

ASSUME GuardAssumption == MaxStarts \in Nat /\ Pids \cap {"none", "torn"} = {}

VARIABLES
  cli,          \* the pid of the instance that runs, if any
  starts,       \* the instances started so far
  others,       \* the pids of other processes
  owner,        \* the owner file: the pid in it, if it is there and parses
  old,          \* it is older than fifteen minutes
  fetch,        \* where Fetch is
  statOld,      \* what Fetch's Stat saw is older than that by now
  record,       \* what Fetch has read
  requests,     \* the requests this Fetch has sent
  steady        \* since it began an instance has run that had written its file

cliVars == <<cli, starts, others, owner, old>>
fetchVars == <<fetch, statOld, record, requests, steady>>
vars == <<cli, starts, others, owner, old, fetch, statOld, record, requests, steady>>

None == "none"
Torn == "torn"      \* it does not parse, or names no usable pid

\* The types, and that what is judged has been read.
TypeOK ==
  /\ cli \in Pids \cup {None} /\ starts \in 0..MaxStarts
  /\ others \subseteq Pids /\ cli \notin others
  /\ owner \in Pids \cup {None, Torn} /\ old \in BOOLEAN
  /\ fetch \in {"idle", "stat", "read", "decide", "token", "send", "await"}
  /\ statOld \in BOOLEAN
  /\ record \in Pids \cup {None, Torn}
  /\ requests \in Nat /\ steady \in BOOLEAN
  /\ fetch = "decide" => record # None

\* The instance has written its file.
Announced == cli # None /\ owner = cli

Init ==
  /\ cli = None /\ starts = 0 /\ others = {} /\ owner = None /\ old = FALSE
  /\ fetch = "idle" /\ statOld = FALSE /\ record = None
  /\ requests = 0 /\ steady = FALSE

(***************************************************************************)
(* The CLI, other processes, and the clock                                 *)
(***************************************************************************)
InstanceStarts ==
  /\ cli = None /\ starts < MaxStarts
  /\ cli' \in Pids \ others
  /\ starts' = starts + 1
  /\ UNCHANGED <<others, owner, old, fetchVars>>

\* The file is created, then filled.
WritesOwner ==
  /\ cli # None /\ owner # cli
  /\ owner' \in {Torn, cli} /\ old' = FALSE
  /\ UNCHANGED <<cli, starts, others, fetchVars>>

InstanceEnds ==
  /\ cli # None
  /\ cli' = None /\ steady' = FALSE
  /\ owner' \in {owner, None}
  /\ UNCHANGED <<starts, others, old, fetch, statOld, record, requests>>

OtherProcess ==
  /\ \E p \in Pids \ {cli}: others' \in {others \cup {p}, others \ {p}}
  /\ UNCHANGED <<cli, starts, owner, old, fetchVars>>

\* What has been seen ages no later than what is there.
Ages ==
  /\ statOld' = TRUE
  /\ old' \in {old, TRUE}
  /\ UNCHANGED <<cli, starts, others, owner, fetch, record, requests, steady>>

(***************************************************************************)
(* Fetch                                                                   *)
(***************************************************************************)
Step(from, to) == fetch = from /\ fetch' = to /\ UNCHANGED cliVars

Begin ==
  /\ Step("idle", "stat")
  /\ requests' = 0
  /\ steady' = Announced
  /\ record' = None /\ statOld' = FALSE

\* os.Stat: without a file there is no instance.
Stat ==
  /\ \/ owner = None /\ Step("stat", "token")
     \/ owner # None /\ Step("stat", "read")
  /\ statOld' = old
  /\ UNCHANGED <<record, requests, steady>>

\* os.ReadFile and Unmarshal: by now the file may be gone or another.
ReadBack == IF owner = None THEN Torn ELSE owner

Read ==
  /\ Step("read", "decide")
  /\ record' = ReadBack
  /\ UNCHANGED <<statOld, requests, steady>>

\* detect.ProcessAlive: of whatever process has the pid.
ProcessAlive(pid) == pid \in others \cup {cli}

\* Mutant of Fresh: the file is not too old for ever.
FreshMutant == TRUE
Fresh == ~statOld

\* Mutant of InstanceActive: a file that parses is judged by its age alone.
InstanceActiveMutant == Fresh
InstanceActive == (record \in Pids /\ ProcessAlive(record)) \/ Fresh

Skip ==
  /\ InstanceActive
  /\ Step("decide", "idle")
  /\ UNCHANGED <<statOld, record, requests, steady>>

Proceed ==
  /\ ~InstanceActive
  /\ Step("decide", "token")
  /\ UNCHANGED <<statOld, record, requests, steady>>

ReadToken ==
  /\ Step("token", "send") \/ Step("token", "idle")
  /\ UNCHANGED <<statOld, record, requests, steady>>

Request ==
  /\ Step("send", "await")
  /\ requests' = requests + 1
  /\ UNCHANGED <<statOld, record, steady>>

\* An answer or an error ends Fetch.
AfterError == {"idle"}

Response ==
  /\ \E to \in {"idle"} \cup AfterError: Step("await", to)
  /\ UNCHANGED <<statOld, record, requests, steady>>

Fetch == Begin \/ Stat \/ Read \/ Skip \/ Proceed \/ ReadToken \/ Request \/ Response
Cli == InstanceStarts \/ WritesOwner \/ InstanceEnds
Next == Fetch \/ Cli \/ OtherProcess \/ Ages

Spec == Init /\ [][Next]_vars

\* Fetches go on, and time passes.
FairSpec == Spec /\ WF_vars(Fetch) /\ WF_vars(Ages /\ old')

(***************************************************************************)
(* Properties                                                              *)
(***************************************************************************)

\* What a Fetch does to the session endpoint, which may have side effects
\* (freebuff.go:157-162, 185-187): an instance that has announced itself before
\* the Fetch begins and runs all through it is sent nothing, however old its
\* file is; and otherwise one request is sent at most, a failure is not retried.
HeldBack == fetch \in {"token", "send", "await"} => ~steady
OneRequest == requests <= 1 /\ (requests = 1 => fetch \notin {"stat", "read", "decide", "token", "send"})
GuardSound == HeldBack /\ OneRequest

\* The guard does not hold for ever: when no instance runs any more, nor any
\* process with the pid it left behind, later Fetches pass it.
GuardReleases == <>[](cli = None /\ owner \notin others) => []<>(fetch = "token")
=============================================================================
