------------------------------ MODULE RpcClient ------------------------------
(***************************************************************************)
(* The JSON-RPC client of internal/exec/exec.go as CodexAdapter.Fetch      *)
(* drives it: one Fetch, from StartRPC to the deferred Close.  Each Call   *)
(* scans the child's stdout in a goroutine of its own, which hands the     *)
(* answer over in a channel of capacity one and outlives a Call that times *)
(* out.  Close holds the client's mutex, which the goroutine wants in      *)
(* order to log, while it waits for the child.                             *)
(*                                                                         *)
(* The child (codex app-server) is external: it may answer what it was     *)
(* asked, once, say anything else in between, stop answering, ignore that  *)
(* its stdin was closed, or die.  resCh and errCh are one channel here, as *)
(* a goroutine sends on one of them and only once; time is left out, so a  *)
(* timer may fire whenever it runs.                                        *)
(***************************************************************************)
EXTENDS Integers, Sequences

CONSTANTS
  PipeCap,    \* bound: the lines the stdout pipe holds
  MaxLines,   \* bound: the lines the child ever writes
  LogCap      \* the length of c.logs at which it is full (200 in the code)

ASSUME RpcAssumption == PipeCap \in Nat \ {0} /\ MaxLines \in Nat /\ LogCap \in Nat

VARIABLES
  pc,         \* where Fetch is
  outcome,    \* what Fetch returns
  answer,     \* what each Call returned without an error
  sent,       \* the messages written to the child's stdin
  scanner,    \* where each Call's goroutine is
  line,       \* the line, or the failure, it is about to hand over
  ch,         \* its resCh and errCh
  logs,       \* len(c.logs)
  waiter,     \* Close's goroutine, which waits for the child
  ctxDone,    \* the context of Fetch is done
  child,      \* whether the child runs
  got,        \* the messages it has read,
  answered,   \* the numbers of those it has answered,
  stdout,     \* the lines in its stdout pipe,
  written     \* and the number of lines it has written

fetchVars == <<pc, outcome, answer, sent>>
scanVars == <<scanner, line, ch, logs>>
childVars == <<child, got, answered, stdout, written>>
vars == <<pc, outcome, answer, sent, scanner, line, ch, logs, waiter, ctxDone,
          child, got, answered, stdout, written>>

\* The requests of Fetch by their ids: initialize and account/rateLimits/read.
Calls == {0, 1}
Methods == {"initialize", "initialized", "account/rateLimits/read"}

\* A line of the child: an answer, or one that carries no id, which
\* unmarshals to 0.  A huge line is one that overflows the scanner's buffer.
Answers == [kind: {"result", "error"}, id: Calls]
Others == [kind: {"notification", "null", "junk", "huge"}, id: {0}]
Lines == Answers \cup Others
None == [kind |-> "none", id |-> 0]
Failure == [kind |-> "failure", id |-> 0]

Awaiting(i) == IF i = 0 THEN "await0" ELSE "await1"

TypeOK ==
  /\ pc \in {"start", "initialize", "await0", "initialized", "read", "await1",
             "return", "closing", "closed"}
  /\ outcome \in {"none", "ok", "error"}
  /\ answer \in [Calls -> Lines \cup {None}]
  /\ sent \in Seq([method: Methods, id: Calls])
  /\ scanner \in [Calls -> {"none", "scan", "log", "send", "ended"}]
  /\ line \in [Calls -> Lines \cup {None, Failure}]
  /\ ch \in [Calls -> Lines \cup {None, Failure}]
  /\ logs \in 0..LogCap
  /\ waiter \in {"none", "waiting", "done"}
  /\ ctxDone \in BOOLEAN
  /\ child \in {"none", "running", "exited"}
  /\ got \in 0..Len(sent) /\ answered \subseteq 1..got
  /\ stdout \in Seq(Lines) /\ Len(stdout) <= PipeCap
  /\ written \in 0..MaxLines

Init ==
  /\ pc = "start" /\ outcome = "none"
  /\ answer = [i \in Calls |-> None]
  /\ sent = <<>>
  /\ scanner = [i \in Calls |-> "none"]
  /\ line = [i \in Calls |-> None]
  /\ ch = [i \in Calls |-> None]
  /\ logs = 0
  /\ waiter = "none" /\ ctxDone = FALSE
  /\ child = "none" /\ got = 0 /\ answered = {}
  /\ stdout = <<>> /\ written = 0

(***************************************************************************)
(* Fetch                                                                   *)
(***************************************************************************)

\* Fetch returns with an error; the client, if there is one, is closed.
Fail(to) == pc' = to /\ outcome' = "error" /\ UNCHANGED answer

StartRPC ==
  /\ pc = "start"
  /\ \/ pc' = "initialize" /\ child' = "running" /\ UNCHANGED <<outcome, answer>>
     \/ Fail("closed") /\ UNCHANGED child
  /\ UNCHANGED <<sent, scanVars, waiter, ctxDone, got, answered, stdout, written>>

\* Every message is a struct with an id, Notify's too.
Send(method, id) ==
  /\ child = "running"
  /\ sent' = Append(sent, [method |-> method, id |-> id])

Call(i, from, method) ==
  /\ pc = from
  /\ Send(method, i)
  /\ pc' = Awaiting(i)
  /\ scanner' = [scanner EXCEPT ![i] = "scan"]
  /\ UNCHANGED <<outcome, answer, line, ch, logs, waiter, ctxDone, childVars>>

Initialize == Call(0, "initialize", "initialize")
ReadLimits == Call(1, "read", "account/rateLimits/read")

Notify ==
  /\ pc = "initialized"
  /\ Send("initialized", 0)
  /\ pc' = "read"
  /\ UNCHANGED <<outcome, answer, scanVars, waiter, ctxDone, childVars>>

\* The child has closed its end of stdin.
SendFails ==
  /\ pc \in {"initialize", "initialized", "read"}
  /\ Fail("return")
  /\ UNCHANGED <<sent, scanVars, waiter, ctxDone, childVars>>

\* The select of waitFor: an answer, a failure, or the end of its context.
AfterAnswer(i) == IF i = 0 THEN "initialized" ELSE "return"

Receive(i) ==
  /\ pc = Awaiting(i)
  /\ ch[i].kind \in {"result", "notification", "null"}
  /\ ch' = [ch EXCEPT ![i] = None]
  /\ answer' = [answer EXCEPT ![i] = ch[i]]
  /\ pc' = AfterAnswer(i)
  /\ outcome' \in IF i = 1 THEN {"ok", "error"} ELSE {outcome}  \* parseRateLimits
  /\ UNCHANGED <<sent, scanner, line, logs, waiter, ctxDone, childVars>>

ReceiveError(i) ==
  /\ pc = Awaiting(i)
  /\ ch[i].kind \in {"error", "null", "failure"}
  /\ ch' = [ch EXCEPT ![i] = None]
  /\ Fail("return")
  /\ UNCHANGED <<sent, scanner, line, logs, waiter, ctxDone, childVars>>

\* Mutant of AfterTimeout: Fetch does not look at initialize's error.
AfterTimeoutMutant(i) == IF i = 0 THEN "initialized" ELSE "return"
AfterTimeout(i) == "return"

CallTimesOut(i) ==
  /\ pc = Awaiting(i)
  /\ Fail(AfterTimeout(i))
  /\ UNCHANGED <<sent, scanVars, waiter, ctxDone, childVars>>

(***************************************************************************)
(* The goroutine of a Call                                                 *)
(***************************************************************************)

\* Mutant of Matches: a line is an answer by its id alone.
MatchesMutant(l, i) == l.id = i
Matches(l, i) == l.kind # "notification" /\ l.id = i

ScanLine(i) ==
  /\ scanner[i] = "scan"
  /\ stdout # <<>> /\ Head(stdout).kind # "huge"
  /\ stdout' = Tail(stdout)
  /\ LET l == Head(stdout)
         to == IF l.kind = "junk" THEN "scan" ELSE IF Matches(l, i) THEN "send" ELSE "log"
     IN  /\ scanner' = [scanner EXCEPT ![i] = to]
         /\ line' = IF to = "send" THEN [line EXCEPT ![i] = l] ELSE line
  /\ UNCHANGED <<fetchVars, ch, logs, waiter, ctxDone, child, got, answered, written>>

\* c.mu is held between steps by Close alone.
MuFree == pc # "closing"

LogRoom == logs < LogCap

LogLine(i) ==
  /\ scanner[i] = "log"
  /\ MuFree
  /\ logs' = IF LogRoom THEN logs + 1 ELSE logs
  /\ scanner' = [scanner EXCEPT ![i] = "scan"]
  /\ UNCHANGED <<fetchVars, line, ch, waiter, ctxDone, childVars>>

\* The end of stdout, a line that is too long, or the pipe closed by Wait;
\* what the scanner has buffered it may still return.
ScanEnds(i) ==
  /\ scanner[i] = "scan"
  /\ \/ stdout = <<>> /\ child = "exited"
     \/ stdout # <<>> /\ Head(stdout).kind = "huge"
     \/ waiter = "done"
  /\ scanner' = [scanner EXCEPT ![i] = "send"]
  /\ line' = [line EXCEPT ![i] = Failure]
  /\ UNCHANGED <<fetchVars, ch, logs, waiter, ctxDone, childVars>>

\* Mutant of ChFree: channels of capacity 0, which need a Call that waits.
ChFreeMutant(i) == pc = Awaiting(i)
ChFree(i) == ch[i] = None

HandOver(i) ==
  /\ scanner[i] = "send"
  /\ ChFree(i)
  /\ ch' = [ch EXCEPT ![i] = line[i]]
  /\ scanner' = [scanner EXCEPT ![i] = "ended"]
  /\ UNCHANGED <<fetchVars, line, logs, waiter, ctxDone, childVars>>

Scanner(i) == ScanLine(i) \/ LogLine(i) \/ ScanEnds(i) \/ HandOver(i)

(***************************************************************************)
(* Close                                                                   *)
(***************************************************************************)

\* It takes the mutex, closes stdin and starts the goroutine that waits.
CloseBegin ==
  /\ pc = "return"
  /\ pc' = "closing"
  /\ waiter' = "waiting"
  /\ UNCHANGED <<outcome, answer, sent, scanVars, ctxDone, childVars>>

\* cmd.Wait reaps the child, closes the stdout pipe, and done is closed.
Reap ==
  /\ waiter = "waiting" /\ child = "exited"
  /\ waiter' = "done"
  /\ UNCHANGED <<fetchVars, scanVars, ctxDone, childVars>>

CloseSeesDone ==
  /\ pc = "closing" /\ waiter = "done"
  /\ pc' = "closed"
  /\ UNCHANGED <<outcome, answer, sent, scanVars, waiter, ctxDone, childVars>>

\* After two seconds Close kills the child and returns.
\* Mutant of TimeUp: it waits for the child alone.
TimeUpMutant == pc = "closing" /\ waiter = "done"
TimeUp == pc = "closing"

CloseTimesOut ==
  /\ TimeUp
  /\ child' = "exited"
  /\ pc' = "closed"
  /\ UNCHANGED <<outcome, answer, sent, scanVars, waiter, ctxDone, got, answered, stdout, written>>

(***************************************************************************)
(* The child and the context                                               *)
(***************************************************************************)

ChildReads ==
  /\ child = "running" /\ got < Len(sent)
  /\ got' = got + 1
  /\ UNCHANGED <<fetchVars, scanVars, waiter, ctxDone, child, answered, stdout, written>>

ChildWrites(l) ==
  /\ child = "running"
  /\ Len(stdout) < PipeCap /\ written < MaxLines
  /\ stdout' = Append(stdout, l)
  /\ written' = written + 1
  /\ UNCHANGED <<fetchVars, scanVars, waiter, ctxDone, child, got>>

ChildAnswers ==
  \E k \in 1..got \ answered, kind \in {"result", "error"}:
    /\ ChildWrites([kind |-> kind, id |-> sent[k].id])
    /\ answered' = answered \cup {k}

ChildSays == \E l \in Others: ChildWrites(l) /\ UNCHANGED answered

\* It exits or dies; exec.CommandContext kills it once the context is done.
ChildExits ==
  /\ child = "running"
  /\ child' = "exited"
  /\ UNCHANGED <<fetchVars, scanVars, waiter, ctxDone, got, answered, stdout, written>>

ContextEnds ==
  /\ ~ctxDone
  /\ ctxDone' = TRUE
  /\ UNCHANGED <<fetchVars, scanVars, waiter, childVars>>

Fetch ==
  \/ StartRPC \/ Initialize \/ Notify \/ ReadLimits \/ SendFails
  \/ \E i \in Calls: Receive(i) \/ ReceiveError(i)
Close == CloseBegin \/ CloseSeesDone
Child == ChildReads \/ ChildAnswers \/ ChildSays \/ ChildExits
Timers == CloseTimesOut \/ \E i \in Calls: CallTimesOut(i)
Next == Fetch \/ Close \/ Reap \/ Timers \/ Child \/ ContextEnds \/ \E i \in Calls: Scanner(i)

Spec == Init /\ [][Next]_vars

(***************************************************************************)
(* Goroutines that can run do, and timers fire; the child, beyond dying    *)
(* with its context, owes nothing.                                         *)
(***************************************************************************)
Fairness ==
  /\ WF_vars(Fetch) /\ WF_vars(Close) /\ WF_vars(Reap) /\ WF_vars(Timers)
  /\ WF_vars(ctxDone /\ ChildExits)
  /\ \A i \in Calls: WF_vars(Scanner(i))

FairSpec == Spec /\ Fairness

(***************************************************************************)
(* Properties                                                              *)
(***************************************************************************)

\* The bufio.Scanner, which is not safe for concurrent use, never has two
\* goroutines at work on it.
OneScanner == scanner[0] \in {"none", "ended"} \/ scanner[1] \in {"none", "ended"}

\* A Call never takes a notification for its answer, and the rate limits are
\* never read from the answer to another message.
RightAnswer ==
  /\ \A i \in Calls: answer[i].kind # "notification"
  /\ answer[1] # None => answer[1] = [kind |-> "result", id |-> 1]
  /\ outcome = "ok" => answer[1] # None

Handshake == <<"initialize", "initialized", "account/rateLimits/read">>

\* The child is told nothing more before it has answered initialize, and is
\* asked for the rate limits only after initialized.
HandshakeFirst ==
  /\ Len(sent) > 1 => answer[0] # None
  /\ \A k \in 1..Len(sent): sent[k].method = Handshake[k]

\* Fetch returns, whatever the child does or fails to do.
FetchReturns == <>(pc = "closed")

\* Once it has, no goroutine and no child of it stays: not the scanner of a
\* Call that timed out, nor one that wants the mutex, nor the one in Wait.
NothingStays ==
  <>[](/\ child # "running" /\ waiter # "waiting"
       /\ \A i \in Calls: scanner[i] \in {"none", "ended"})
=============================================================================
