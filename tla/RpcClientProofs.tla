--------------------------- MODULE RpcClientProofs ---------------------------
(***************************************************************************)
(* Theorems about RpcClient, for any pipe, log and number of lines.  The   *)
(* invariant Rpc relates where Fetch is to what it has sent and been       *)
(* answered, and what a goroutine hands over to the Call it scans for.     *)
(***************************************************************************)
EXTENDS RpcClient, TLAPS

\* What a goroutine may hand over for a Call: a failure, or a line that
\* matches.
Fits(l, i) == l = Failure \/ (l \in Lines /\ Matches(l, i) /\ l.kind \notin {"junk", "huge"})

\* What has been sent is the handshake so far.
Ordered == \A k \in 1..Len(sent): sent[k].method = Handshake[k]

\* Where Fetch is tells how much it has sent and which goroutines it started.
Stage ==
  /\ pc \in {"start", "initialize"} => sent = <<>> /\ scanner[0] = "none"
  /\ pc = "await0" => Len(sent) = 1
  /\ pc = "initialized" => Len(sent) = 1 /\ answer[0] # None
  /\ pc = "read" => Len(sent) = 2 /\ answer[0] # None
  /\ pc \in {"start", "initialize", "await0", "initialized", "read"} =>
       scanner[1] = "none" /\ answer[1] = None /\ outcome = "none"
  /\ pc = "await1" => outcome = "none"
  /\ scanner[1] # "none" => Len(sent) > 1
  /\ Len(sent) > 1 => answer[0] # None
  /\ Len(sent) <= 3
  /\ Ordered

\* A goroutine hands over once, when it has ended, and only what fits.
Handed ==
  /\ \A i \in Calls:
       /\ scanner[i] = "none" => ch[i] = None
       /\ ch[i] # None \/ answer[i] # None => scanner[i] = "ended"
       /\ scanner[i] = "send" => Fits(line[i], i)
       /\ ch[i] # None => Fits(ch[i], i)
       /\ answer[i] # None => Fits(answer[i], i) /\ answer[i].kind \in {"result", "null"}
  /\ outcome = "ok" => answer[1] # None

\* The types of what the goroutines read and hand over.
Types ==
  /\ answer \in [Calls -> Lines \cup {None}]
  /\ sent \in Seq([method: Methods, id: Calls])
  /\ scanner \in [Calls -> {"none", "scan", "log", "send", "ended"}]
  /\ line \in [Calls -> Lines \cup {None, Failure}]
  /\ ch \in [Calls -> Lines \cup {None, Failure}]
  /\ got \in 0..Len(sent) /\ answered \subseteq 1..got
  /\ stdout \in Seq(Lines)

Rpc == Types /\ Stage /\ Handed

\* A line is neither None nor a failure, and one without an id has id 0.
LEMMA LineFacts ==
  /\ Failure # None
  /\ \A l \in Lines: l # None /\ l # Failure /\ l.id \in Calls
  /\ \A l \in Lines: l.kind \in {"notification", "null", "junk", "huge"} => l.id = 0
  /\ \A l \in Lines: l.kind \in {"result", "error", "notification", "null", "junk", "huge"}
  /\ \A l \in Lines: l.kind = "result" => l = [kind |-> "result", id |-> l.id]
  BY DEF Lines, Answers, Others, None, Failure, Calls

LEMMA RpcInit == Init => Rpc
<1> SUFFICES ASSUME Init PROVE Rpc
  OBVIOUS
<1>1. Types
  BY DEF Init, Types, Calls
<1>2. Stage /\ Handed
  BY DEF Init, Stage, Handed, Calls, None
<1>3. QED
  BY <1>1, <1>2 DEF Rpc

\* The steps of Fetch that send a message.
LEMMA RpcSends ==
  ASSUME Rpc, StartRPC \/ Initialize \/ Notify \/ ReadLimits \/ SendFails
  PROVE  Rpc'
<1> USE DEF Rpc
<1>1. CASE StartRPC
  BY <1>1 DEF StartRPC, Fail, Types, Stage, Ordered, Handed, scanVars
<1>2. CASE SendFails
  BY <1>2 DEF SendFails, Fail, Types, Stage, Ordered, Handed, scanVars, childVars
<1>3. ASSUME NEW m \in Methods, NEW i \in Calls, Send(m, i)
      PROVE  /\ sent' \in Seq([method: Methods, id: Calls])
             /\ Len(sent') = Len(sent) + 1
             /\ \A k \in 1..Len(sent): sent'[k] = sent[k]
             /\ sent'[Len(sent) + 1].method = m
  BY <1>3 DEF Send, Types
<1>4. CASE Initialize
  <2>1. Send("initialize", 0) /\ pc = "initialize" /\ pc' = "await0"
        /\ scanner' = [scanner EXCEPT ![0] = "scan"]
        /\ UNCHANGED <<outcome, answer, line, ch, got, answered, stdout>>
    BY <1>4 DEF Initialize, Call, Awaiting, childVars
  <2>2. Len(sent) = 0
    BY <2>1 DEF Stage
  <2>3. Types'
    BY <2>1, <1>3 DEF Types, Methods, Calls
  <2>4. Stage'
    <3>1. Ordered'
      <4>1. Handshake[1] = "initialize"
        BY DEF Handshake
      <4>2. Ordered /\ Len(sent') = 1
        BY <2>1, <2>2, <1>3 DEF Stage, Methods, Calls
      <4>3. /\ \A k \in 1..0: sent'[k] = sent[k]
            /\ sent'[1].method = "initialize"
        BY <2>1, <2>2, <1>3 DEF Methods, Calls
      <4>4. QED
        BY <2>2, <4>1, <4>2, <4>3 DEF Ordered
    <3>2. Len(sent') = 1
      BY <2>1, <2>2, <1>3 DEF Methods, Calls
    <3>3. scanner'[1] = "none" /\ answer'[1] = None /\ outcome' = "none"
      BY <2>1 DEF Stage, Types, Calls
    <3>4. QED
      BY <2>1, <3>1, <3>2, <3>3 DEF Stage
  <2>5. Handed'
    BY <2>1 DEF Handed, Stage, Types, Calls
  <2>6. QED
    BY <2>3, <2>4, <2>5
<1>5. CASE Notify
  <2>1. Send("initialized", 0) /\ pc = "initialized" /\ pc' = "read"
        /\ UNCHANGED <<outcome, answer, scanner, line, ch, got, answered, stdout>>
    BY <1>5 DEF Notify, scanVars, childVars
  <2>2. Len(sent) = 1
    BY <2>1 DEF Stage
  <2>3. Types'
    BY <2>1, <1>3 DEF Types, Methods, Calls
  <2>4. Stage'
    <3>1. Ordered'
      <4>1. Handshake[2] = "initialized"
        BY DEF Handshake
      <4>2. Ordered /\ Len(sent') = 2
        BY <2>1, <2>2, <1>3 DEF Stage, Methods, Calls
      <4>3. /\ \A k \in 1..1: sent'[k] = sent[k]
            /\ sent'[2].method = "initialized"
        BY <2>1, <2>2, <1>3 DEF Methods, Calls
      <4>4. QED
        BY <2>2, <4>1, <4>2, <4>3 DEF Ordered
    <3>2. Len(sent') = 2
      BY <2>1, <2>2, <1>3 DEF Methods, Calls
    <3>3. answer'[0] # None /\ scanner'[1] = "none" /\ answer'[1] = None /\ outcome' = "none"
      BY <2>1 DEF Stage
    <3>4. QED
      BY <2>1, <3>1, <3>2, <3>3 DEF Stage
  <2>5. Handed'
    BY <2>1 DEF Handed
  <2>6. QED
    BY <2>3, <2>4, <2>5
<1>6. CASE ReadLimits
  <2>1. Send("account/rateLimits/read", 1) /\ pc = "read" /\ pc' = "await1"
        /\ scanner' = [scanner EXCEPT ![1] = "scan"]
        /\ UNCHANGED <<outcome, answer, line, ch, got, answered, stdout>>
    BY <1>6 DEF ReadLimits, Call, Awaiting, childVars
  <2>2. Len(sent) = 2
    BY <2>1 DEF Stage
  <2>3. Types'
    BY <2>1, <1>3 DEF Types, Methods, Calls
  <2>4. Stage'
    <3>1. Ordered'
      <4>1. Handshake[3] = "account/rateLimits/read"
        BY DEF Handshake
      <4>2. Ordered /\ Len(sent') = 3
        BY <2>1, <2>2, <1>3 DEF Stage, Methods, Calls
      <4>3. /\ \A k \in 1..2: sent'[k] = sent[k]
            /\ sent'[3].method = "account/rateLimits/read"
        BY <2>1, <2>2, <1>3 DEF Methods, Calls
      <4>4. QED
        BY <2>2, <4>1, <4>2, <4>3 DEF Ordered
    <3>2. Len(sent') = 3
      BY <2>1, <2>2, <1>3 DEF Methods, Calls
    <3>3. answer[0] # None /\ outcome = "none"
      BY <2>1 DEF Stage
    <3>4. QED
      BY <2>1, <3>1, <3>2, <3>3 DEF Stage
  <2>5. Handed'
    BY <2>1 DEF Handed, Stage, Types, Calls
  <2>6. QED
    BY <2>3, <2>4, <2>5
<1>7. QED
  BY <1>1, <1>2, <1>4, <1>5, <1>6

\* The outcomes of a Call.
LEMMA RpcReceives ==
  ASSUME Rpc, NEW i \in Calls, Receive(i) \/ ReceiveError(i) \/ CallTimesOut(i)
  PROVE  Rpc'
<1> USE DEF Rpc
<1>1. CASE Receive(i)
  <2>1. ch[i] # None /\ Fits(ch[i], i) /\ scanner[i] = "ended" /\ ch[i] \in Lines
    BY <1>1 DEF Receive, Handed, None, Types, Failure, Fits
  <2>2. ch[i].kind \in {"result", "null"}
    BY <1>1, <2>1, LineFacts DEF Receive, Fits, Matches, Failure
  <2>3. Types'
    BY <1>1, <2>1 DEF Receive, Types, childVars
  <2>4. Stage'
    BY <1>1, <2>1, LineFacts DEF Receive, Stage, Ordered, Awaiting, AfterAnswer, Types, Calls, childVars
  <2>5. Handed'
    BY <1>1, <2>1, <2>2, LineFacts DEF Receive, Handed, Stage, Awaiting, Types, Calls, childVars
  <2>6. QED
    BY <2>3, <2>4, <2>5
<1>2. CASE ReceiveError(i)
  BY <1>2 DEF ReceiveError, Fail, Awaiting, Types, Stage, Ordered, Handed, childVars
<1>3. CASE CallTimesOut(i)
  BY <1>3 DEF CallTimesOut, AfterTimeout, Fail, Awaiting, Types, Stage, Ordered, Handed, scanVars, childVars
<1>4. QED
  BY <1>1, <1>2, <1>3

\* The steps of a Call's goroutine.
LEMMA RpcScans ==
  ASSUME Rpc, NEW i \in Calls, Scanner(i)
  PROVE  Rpc'
<1> USE DEF Rpc
<1>1. CASE ScanLine(i)
  <2> DEFINE l == Head(stdout)
             to == IF l.kind = "junk" THEN "scan" ELSE IF Matches(l, i) THEN "send" ELSE "log"
  <2>1. /\ scanner[i] = "scan" /\ stdout # <<>> /\ l.kind # "huge"
        /\ stdout' = Tail(stdout)
        /\ scanner' = [scanner EXCEPT ![i] = to]
        /\ line' = IF to = "send" THEN [line EXCEPT ![i] = l] ELSE line
        /\ UNCHANGED <<pc, outcome, answer, sent, ch, got, answered>>
    BY <1>1 DEF ScanLine, fetchVars
  <2>2. l \in Lines /\ stdout' \in Seq(Lines)
    BY <2>1 DEF Types
  <2>3. to = "send" => Fits(l, i)
    BY <2>1, <2>2 DEF Fits
  <2>4. to \in {"scan", "send", "log"}
    OBVIOUS
  <2> HIDE DEF l, to
  <2>5. Types'
    BY <2>1, <2>2, <2>4 DEF Types
  <2>6. Stage'
    BY <2>1, <2>4 DEF Stage, Ordered, Types, Calls
  <2>7. Handed'
    BY <2>1, <2>3, <2>4 DEF Handed, Types
  <2>8. QED
    BY <2>5, <2>6, <2>7
<1>2. CASE LogLine(i)
  BY <1>2 DEF LogLine, Types, Stage, Ordered, Handed, Calls, fetchVars, childVars
<1>3. CASE ScanEnds(i)
  <2>1. /\ scanner[i] = "scan" /\ scanner' = [scanner EXCEPT ![i] = "send"]
        /\ line' = [line EXCEPT ![i] = Failure]
        /\ UNCHANGED <<pc, outcome, answer, sent, ch, got, answered, stdout>>
    BY <1>3 DEF ScanEnds, fetchVars, childVars
  <2>2. Types' /\ Stage'
    BY <2>1 DEF Types, Stage, Ordered, Calls
  <2>3. Handed'
    BY <2>1 DEF Handed, Types, Fits
  <2>4. QED
    BY <2>2, <2>3
<1>4. CASE HandOver(i)
  BY <1>4 DEF HandOver, Types, Stage, Ordered, Handed, Calls, fetchVars, childVars
<1>5. QED
  BY <1>1, <1>2, <1>3, <1>4 DEF Scanner

\* Close, its goroutine, its timer, the context and the child.
LEMMA RpcRest ==
  ASSUME Rpc, Close \/ Reap \/ CloseTimesOut \/ Child \/ ContextEnds
  PROVE  Rpc'
<1> USE DEF Rpc
<1>0. ASSUME UNCHANGED <<sent, answer, scanner, line, ch, outcome>>,
             pc' = pc \/ (pc' \in {"closing", "closed"})
      PROVE  Stage' /\ Handed'
  <2>1. Ordered' <=> Ordered
    BY <1>0 DEF Ordered
  <2>2. Stage'
    BY <1>0, <2>1 DEF Stage
  <2>3. Handed'
    BY <1>0 DEF Handed, Fits
  <2>4. QED
    BY <2>2, <2>3
<1>1. CASE Close
  BY <1>0, <1>1 DEF Close, CloseBegin, CloseSeesDone, Types, scanVars, childVars
<1>2. CASE Reap \/ ContextEnds
  BY <1>0, <1>2 DEF Reap, ContextEnds, Types, fetchVars, scanVars, childVars
<1>3. CASE CloseTimesOut
  BY <1>0, <1>3 DEF CloseTimesOut, TimeUp, Types, scanVars
<1>4. CASE ChildReads \/ ChildExits
  <2>1. Len(sent) \in Nat
    BY DEF Types
  <2>2. got' \in 0..Len(sent') /\ answered' \subseteq 1..got'
    <3>1. got \in 0..Len(sent) /\ \A k \in answered: k \in 1..got
      BY DEF Types
    <3>2. UNCHANGED <<sent, answered>> /\ got' \in got..Len(sent)
      BY <1>4, <2>1, <3>1 DEF ChildReads, ChildExits, fetchVars
    <3>3. QED
      BY <2>1, <3>1, <3>2
  <2>3. QED
    BY <1>0, <1>4, <2>2 DEF ChildReads, ChildExits, Types, fetchVars, scanVars
<1>5. CASE ChildSays
  BY <1>0, <1>5 DEF ChildSays, ChildWrites, Types, Lines, fetchVars, scanVars
<1>6. CASE ChildAnswers
  <2>1. PICK k \in 1..got \ answered, kind \in {"result", "error"}:
          ChildWrites([kind |-> kind, id |-> sent[k].id]) /\ answered' = answered \cup {k}
    BY <1>6 DEF ChildAnswers
  <2>2. sent[k] \in [method: Methods, id: Calls]
    <3>1. ASSUME NEW S, NEW s \in Seq(S), NEW n \in 1..Len(s) PROVE s[n] \in S
      OBVIOUS
    <3>2. Len(sent) \in Nat /\ k \in 1..Len(sent)
      BY DEF Types
    <3>3. QED
      BY <3>1, <3>2 DEF Types
  <2>3. [kind |-> kind, id |-> sent[k].id] \in Lines
    BY <2>2 DEF Lines, Answers
  <2>4. QED
    BY <1>0, <2>1, <2>3 DEF ChildWrites, Types, fetchVars, scanVars
<1>7. QED
  BY <1>1, <1>2, <1>3, <1>4, <1>5, <1>6 DEF Child

THEOREM RpcInvariant == Spec => []Rpc
<1>1. Rpc /\ [Next]_vars => Rpc'
  <2> SUFFICES ASSUME Rpc, [Next]_vars PROVE Rpc'
    OBVIOUS
  <2>1. CASE Next
    BY <2>1, RpcSends, RpcReceives, RpcScans, RpcRest DEF Next, Fetch, Timers
  <2>2. CASE UNCHANGED vars
    BY <2>2 DEF vars, Rpc, Types, Stage, Ordered, Handed
  <2>3. QED
    BY <2>1, <2>2
<1>2. QED
  BY RpcInit, <1>1, PTL DEF Spec

\* The types of the rest, with the bounds of the log and of the pipe.
Bounds ==
  /\ pc \in {"start", "initialize", "await0", "initialized", "read", "await1",
             "return", "closing", "closed"}
  /\ outcome \in {"none", "ok", "error"}
  /\ logs \in 0..LogCap
  /\ waiter \in {"none", "waiting", "done"} /\ ctxDone \in BOOLEAN
  /\ child \in {"none", "running", "exited"}
  /\ Len(stdout) <= PipeCap /\ written \in 0..MaxLines

LEMMA BoundsStep == Rpc /\ Bounds /\ [Next]_vars => Bounds'
<1> SUFFICES ASSUME Rpc, Bounds, [Next]_vars PROVE Bounds'
  OBVIOUS
<1> USE RpcAssumption DEF Bounds
<1>1. CASE Fetch \/ Close \/ Timers
  <2>1. CASE StartRPC \/ Initialize \/ Notify \/ ReadLimits \/ SendFails
    BY <2>1 DEF StartRPC, Initialize, ReadLimits, Call, Notify, SendFails, Awaiting, Fail,
         scanVars, childVars
  <2>2. ASSUME NEW i \in Calls, Receive(i) \/ ReceiveError(i) \/ CallTimesOut(i) PROVE Bounds'
    BY <2>2 DEF Receive, ReceiveError, CallTimesOut, AfterAnswer, AfterTimeout, Fail,
         scanVars, childVars
  <2>3. CASE Close \/ CloseTimesOut
    BY <2>3 DEF Close, CloseBegin, CloseSeesDone, CloseTimesOut, scanVars, childVars
  <2>4. QED
    BY <1>1, <2>1, <2>2, <2>3 DEF Fetch, Timers
<1>2. CASE Reap \/ ContextEnds \/ UNCHANGED vars
  BY <1>2 DEF Reap, ContextEnds, vars, fetchVars, scanVars, childVars
<1>3. CASE Child
  <2>1. ASSUME NEW l, ChildWrites(l) PROVE Bounds'
    <3>1. /\ stdout \in Seq(Lines) /\ Len(stdout) < PipeCap /\ stdout' = Append(stdout, l)
          /\ written < MaxLines /\ written' = written + 1
          /\ UNCHANGED <<pc, outcome, logs, waiter, ctxDone, child>>
      BY <2>1 DEF ChildWrites, Rpc, Types, fetchVars, scanVars
    <3>2. Len(stdout') = Len(stdout) + 1 /\ Len(stdout) \in Nat
      BY <3>1
    <3>3. QED
      BY <3>1, <3>2
  <2>2. CASE ChildReads \/ ChildExits
    BY <2>2 DEF ChildReads, ChildExits, fetchVars, scanVars
  <2>3. QED
    BY <1>3, <2>1, <2>2 DEF Child, ChildAnswers, ChildSays
<1>4. ASSUME NEW i \in Calls, Scanner(i) PROVE Bounds'
  <2>1. stdout # <<>> => Len(Tail(stdout)) = Len(stdout) - 1
    BY DEF Rpc, Types
  <2>2. CASE ScanLine(i)
    <3>1. stdout # <<>> /\ stdout' = Tail(stdout)
      BY <2>2 DEF ScanLine
    <3>2. UNCHANGED <<pc, outcome, logs, waiter, ctxDone, child, written>>
      BY <2>2 DEF ScanLine, fetchVars
    <3>3. Len(stdout) \in Nat /\ Len(stdout') <= PipeCap
      BY <2>1, <3>1 DEF Rpc, Types
    <3>4. QED
      BY <3>2, <3>3
  <2>3. CASE LogLine(i)
    BY <2>3 DEF LogLine, LogRoom, fetchVars, childVars
  <2>4. CASE ScanEnds(i) \/ HandOver(i)
    BY <2>4 DEF ScanEnds, HandOver, fetchVars, childVars
  <2>5. QED
    BY <1>4, <2>2, <2>3, <2>4 DEF Scanner
<1>5. QED
  BY <1>1, <1>2, <1>3, <1>4 DEF Next

\* Every variable keeps its type; the log of unexpected lines in particular
\* never outgrows LogCap, however much the child says.
THEOREM RpcTypeCorrect == Spec => []TypeOK
<1>1. Init => Bounds
  <2>1. Len(<<>>) = 0 /\ 0 \in 0..LogCap /\ 0 \in 0..MaxLines /\ 0 <= PipeCap
    BY RpcAssumption
  <2>2. QED
    BY <2>1 DEF Init, Bounds
<1>2. Rpc /\ Bounds => TypeOK
  BY DEF Rpc, Types, Bounds, TypeOK
<1>3. QED
  BY RpcInvariant, BoundsStep, <1>1, <1>2, PTL DEF Spec

\* Two goroutines never scan the child's stdout at once: a Call is made only
\* when the one before it has been answered, and so its goroutine has ended.
THEOREM OneScannerHolds == Spec => []OneScanner
<1>1. Rpc => OneScanner
  BY DEF Rpc, Stage, Handed, OneScanner, Calls
<1>2. QED
  BY RpcInvariant, <1>1, PTL

\* No notification is taken for an answer, and a Fetch that succeeds has read
\* the rate limits from the answer to its own request.
THEOREM RightAnswerHolds == Spec => []RightAnswer
<1>1. Rpc => RightAnswer
  <2> SUFFICES ASSUME Rpc PROVE RightAnswer
    OBVIOUS
  <2>1. \A i \in Calls: answer[i].kind # "notification"
    BY DEF Rpc, Handed, None
  <2>2. ASSUME answer[1] # None PROVE answer[1] = [kind |-> "result", id |-> 1]
    BY <2>2, LineFacts DEF Rpc, Handed, Fits, Matches, Failure, Calls
  <2>3. QED
    BY <2>1, <2>2 DEF RightAnswer, Rpc, Handed
<1>2. QED
  BY RpcInvariant, <1>1, PTL

\* The child hears initialize, initialized and account/rateLimits/read in this
\* order, and nothing after the first before it has answered it.
THEOREM HandshakeFirstHolds == Spec => []HandshakeFirst
<1>1. Rpc => HandshakeFirst
  BY DEF Rpc, Stage, Ordered, HandshakeFirst
<1>2. QED
  BY RpcInvariant, <1>1, PTL
=============================================================================
