----------------------------- MODULE RaceDialer -----------------------------
(***************************************************************************)
(* raceDialer of internal/adapters/http.go: the DialContext of every HTTP  *)
(* client of the adapters.  All addresses of a host are dialled at once,   *)
(* each by a goroutine that sends its result on a channel; the caller      *)
(* returns the first connection it receives, and an error once the channel *)
(* is closed.                                                              *)
(***************************************************************************)
EXTENDS Integers, Sequences, FiniteSets

CONSTANT Ips      \* the addresses the host resolves to

\* What the caller may return otherwise is not confused with an address.
Nobody == "nobody"
ASSUME IpsAssumption == IsFiniteSet(Ips)
ASSUME OutcomesAssumption == Ips \cap {Nobody, "direct", "error"} = {}

VARIABLES
  answer,       \* what becomes of a dial of each address
  pc,           \* where the caller is
  ctx,          \* the context of the dials
  expired,      \* the caller's own deadline has passed
  dial,         \* where the goroutine of each address is
  conn,         \* the connection to each address
  ch,           \* the results sent and not received
  closed,       \* the channel is closed
  failures,     \* the caller has received an error
  returned      \* what the caller returned

dialVars == <<answer, pc, ctx, expired, dial, conn, ch, closed, failures, returned>>

Result == [ip: Ips, ok: BOOLEAN]

\* A connection is accepted, refused, or nothing ever comes back.
DialInit ==
  /\ answer \in [Ips -> {"accepts", "refuses", "silent"}]
  /\ pc = "lookup" /\ ctx = "live" /\ expired = FALSE
  /\ dial = [i \in Ips |-> "idle"] /\ conn = [i \in Ips |-> "none"]
  /\ ch = <<>> /\ closed = FALSE
  /\ failures = FALSE /\ returned = Nobody

(***************************************************************************)
(* The caller                                                              *)
(***************************************************************************)
Lookup ==
  /\ pc = "lookup" /\ Ips # {}
  /\ pc' = "range"
  /\ dial' = [i \in Ips |-> "dialling"]
  /\ UNCHANGED <<answer, ctx, expired, conn, ch, closed, failures, returned>>

\* No address is found: the address is dialled as it is.
LookupFails ==
  /\ pc = "lookup"
  /\ pc' = "returned"
  /\ \E outcome \in {"direct", "error"}: returned' = outcome
  /\ UNCHANGED <<answer, ctx, expired, dial, conn, ch, closed, failures>>

\* Mutant of CanReceive: the results are collected before they are looked at.
CanReceiveMutant == ch # <<>> /\ (closed \/ Len(ch) = Cardinality(Ips))
CanReceive == ch # <<>>

ReceiveConnection ==
  /\ pc = "range" /\ CanReceive /\ Head(ch).ok
  /\ ctx' = "done"
  /\ ch' = Tail(ch)
  /\ pc' = "returned" /\ returned' = Head(ch).ip
  /\ UNCHANGED <<answer, expired, dial, conn, closed, failures>>

ReceiveError ==
  /\ pc = "range" /\ CanReceive /\ ~Head(ch).ok
  /\ ch' = Tail(ch)
  /\ failures' = TRUE
  /\ UNCHANGED <<answer, pc, ctx, expired, dial, conn, closed, returned>>

\* Mutant of Exhausted: the first error is returned.
ExhaustedMutant == failures
Exhausted == closed /\ ch = <<>>

ReturnError ==
  /\ pc = "range" /\ Exhausted
  /\ ctx' = "done"
  /\ pc' = "returned" /\ returned' = "error"
  /\ UNCHANGED <<answer, expired, dial, conn, ch, closed, failures>>

Caller == Lookup \/ LookupFails \/ ReceiveConnection \/ ReceiveError \/ ReturnError

\* The deadline of the request, or of the fetch that makes it.
Expire ==
  /\ ~expired
  /\ expired' = TRUE /\ ctx' = "done"
  /\ UNCHANGED <<answer, pc, dial, conn, ch, closed, failures, returned>>

(***************************************************************************)
(* The goroutines                                                          *)
(***************************************************************************)
DialConnects(i) ==
  /\ dial[i] = "dialling" /\ answer[i] = "accepts" /\ ctx = "live"
  /\ dial' = [dial EXCEPT ![i] = "dialled"]
  /\ conn' = [conn EXCEPT ![i] = "open"]
  /\ UNCHANGED <<answer, pc, ctx, expired, ch, closed, failures, returned>>

DialEndsBadly(i) ==
  /\ dial[i] = "dialling"
  /\ dial' = [dial EXCEPT ![i] = "dialled"]
  /\ UNCHANGED <<answer, pc, ctx, expired, conn, ch, closed, failures, returned>>

DialFails(i) == (answer[i] = "refuses" \/ ctx = "done") /\ DialEndsBadly(i)

\* The four seconds that an attempt is given.
AttemptTimesOut(i) == answer[i] = "silent" /\ DialEndsBadly(i)

\* Mutant of Capacity: room for the one result that is returned.
CapacityMutant == 1
Capacity == Cardinality(Ips)

SendResult(i) ==
  /\ dial[i] = "dialled" /\ Len(ch) < Capacity
  /\ ch' = Append(ch, [ip |-> i, ok |-> conn[i] = "open"])
  /\ dial' = [dial EXCEPT ![i] = "done"]
  /\ UNCHANGED <<answer, pc, ctx, expired, conn, closed, failures, returned>>

\* wg.Wait: every goroutine has sent its result.
AllSent == pc # "lookup" /\ \A i \in Ips: dial[i] = "done"

CloseResults ==
  /\ AllSent /\ ~closed
  /\ closed' = TRUE
  /\ UNCHANGED <<answer, pc, ctx, expired, dial, conn, ch, failures, returned>>

Ends(i) == DialConnects(i) \/ DialFails(i)
Goroutine(i) == Ends(i) \/ AttemptTimesOut(i) \/ SendResult(i)

DialNext == Caller \/ Expire \/ (\E i \in Ips: Goroutine(i)) \/ CloseResults

DialSpec == DialInit /\ [][DialNext]_dialVars

\* The scheduler runs the caller and every goroutine; a dial that is answered
\* ends.  Nothing is said of time: an attempt need not time out.
Untimed ==
  /\ WF_dialVars(Caller) /\ WF_dialVars(CloseResults)
  /\ \A i \in Ips: WF_dialVars(Ends(i)) /\ WF_dialVars(SendResult(i))

DialFairSpec == DialSpec /\ Untimed

AttemptsTimeOut == \A i \in Ips: WF_dialVars(AttemptTimesOut(i))

(***************************************************************************)
(* Properties                                                              *)
(***************************************************************************)

\* The types, and that no result is sent on the closed channel.
DialTypeOK ==
  /\ answer \in [Ips -> {"accepts", "refuses", "silent"}]
  /\ pc \in {"lookup", "range", "returned"}
  /\ ctx \in {"live", "done"} /\ expired \in BOOLEAN
  /\ dial \in [Ips -> {"idle", "dialling", "dialled", "done"}]
  /\ conn \in [Ips -> {"none", "open"}]
  /\ ch \in Seq(Result) /\ Len(ch) <= Cardinality(Ips)
  /\ closed \in BOOLEAN /\ failures \in BOOLEAN
  /\ returned \in Ips \cup {Nobody, "direct", "error"}
  /\ closed => \A i \in Ips: dial[i] = "done"

\* "returning the first connection that succeeds" (http.go:34): the connection
\* returned is one that was made, and an error leaves no connection behind.
ErrorIfNoneConnects ==
  /\ returned \in Ips => conn[returned] = "open"
  /\ returned = "error" => \A i \in Ips: conn[i] = "none"

\* "This avoids stalling on a blackholed first A record" (http.go:35): one
\* address that answers is enough, however long the others stay silent.
NeverStalls ==
  pc = "range" /\ (\E i \in Ips: answer[i] = "accepts") ~>
    returned \in Ips \/ (pc = "returned" /\ expired)

\* Whatever the caller returns, every goroutine it started ends, if attempts
\* time out.
GoroutinesEnd ==
  AttemptsTimeOut => <>[](pc = "returned" /\ \A i \in Ips: dial[i] \in {"idle", "done"})
=============================================================================
