----------------------------- MODULE WatchProofs -----------------------------
(***************************************************************************)
(* Proofs about the watch mode. First about WatchKeys alone, for any       *)
(* length of input: type correctness, that keys are neither lost,          *)
(* duplicated nor reordered on their way to the loop, what a closed eof    *)
(* means, and, on Unix, that close() leaves the terminal as it was found.  *)
(* Then about Watch: the loop drives the key reader as WatchKeys says, so  *)
(* that what is proved of the reader holds of the watch mode; on Unix the  *)
(* terminal is back in its mode when runWatch returns; and a quit key is   *)
(* the last one read.                                                      *)
(***************************************************************************)
EXTENDS Watch, TLAPS

(***************************************************************************)
(* The inductive invariant                                                 *)
(***************************************************************************)

\* Where the reader and close() are tells what they hold and have done.
ControlInv ==
  /\ reader = "send" <=> held # 0
  /\ reader = "none" => taken = 0 /\ done
  /\ stop <=> closing # "open"
  /\ wake > 0 => stop
  /\ ~fileOpen => stop
  /\ stop => main = "idle"

\* The terminal is in raw mode only if w.raw says so, until close() is over.
TerminalInv ==
  /\ raw => isFile
  /\ platform = "unix" => fileOpen
  /\ terminal = "raw" /\ platform = "unix" => raw
  /\ closing = "closed" => ~raw

KeysInv == KeysTypeOK /\ ControlInv /\ KeysAccounted /\ EofIsTheEnd

\* What newWatchKeys makes satisfies the invariants.
LEMMA KeysInvInit == KeysInit => KeysInv /\ TerminalInv
<1> SUFFICES ASSUME KeysInit PROVE KeysInv /\ TerminalInv
  OBVIOUS
<1>1. KeysTypeOK
  <2>1. wake \in {NoPipe, 0, 1} /\ terminal \in {"cooked", "raw"}
    BY DEF KeysInit, NewWatchKeys
  <2>2. done \in BOOLEAN
    BY DEF KeysInit, NewWatchKeys
  <2>3. reader \in {"none", "poll"}
    BY DEF KeysInit, NewWatchKeys
  <2>4. isFile \in BOOLEAN /\ raw \in BOOLEAN
    BY DEF KeysInit, NewWatchKeys
  <2>5. typed \in 0..MaxKeys /\ taken \in 0..MaxKeys /\ held \in 0..MaxKeys
        /\ ch \in 0..MaxKeys /\ delivered \in 0..MaxKeys
    BY MaxKeysAssumption DEF KeysInit
  <2>6. QED
    BY <2>1, <2>2, <2>3, <2>4, <2>5 DEF KeysInit, KeysTypeOK
<1>2. ControlInv
  BY <1>1 DEF KeysInit, NewWatchKeys, ControlInv, NoPipe
<1>3. KeysAccounted /\ EofIsTheEnd
  BY DEF KeysInit, NewWatchKeys, KeysAccounted, EofIsTheEnd, Count
<1>4. TerminalInv
  BY DEF KeysInit, NewWatchKeys, TerminalInv
<1>5. QED
  BY <1>1, <1>2, <1>3, <1>4 DEF KeysInv

\* Every step of the keys, the reader, the loop and close() preserves it.
LEMMA KeysInvStep == KeysInv /\ [KeysNext]_keyVars => KeysInv'
<1> SUFFICES ASSUME KeysInv, [KeysNext]_keyVars PROVE KeysInv'
  OBVIOUS
<1> USE MaxKeysAssumption
    DEF KeysInv, KeysTypeOK, ControlInv, KeysAccounted, EofIsTheEnd, Count, NoPipe
<1>1. CASE TypeKey
  BY <1>1 DEF TypeKey, termVars, readerVars
<1>2. CASE CloseInput
  BY <1>2 DEF CloseInput, termVars, readerVars
<1>3. CASE WaitStopped
  BY <1>3 DEF WaitStopped, PollStop, inputVars, termVars
<1>4. CASE WaitReady
  BY <1>4 DEF WaitReady, inputVars, termVars
<1>5. CASE ReadByte
  BY <1>5 DEF ReadByte, Unread, inputVars, termVars
<1>6. CASE ReadEof
  BY <1>6 DEF ReadEof, AtEof, Unread, inputVars, termVars
<1>7. CASE SendKey
  BY <1>7 DEF SendKey, ChFree, inputVars, termVars
<1>8. CASE SendStopped
  BY <1>8 DEF SendStopped, inputVars, termVars
<1>9. CASE ReadBegin
  BY <1>9 DEF ReadBegin, inputVars, termVars, readerVars
<1>10. CASE ReadKey
  BY <1>10 DEF ReadKey, inputVars, termVars, readerVars
<1>11. CASE ReadTimeout
  BY <1>11 DEF ReadTimeout, inputVars, termVars, readerVars
<1>12. CASE ReadCheckEof
  BY <1>12 DEF ReadCheckEof, EofSeen, inputVars, termVars, readerVars
<1>13. CASE CloseStop
  BY <1>13 DEF CloseStop, inputVars, termVars, readerVars
<1>14. CASE CloseUnblock
  BY <1>14 DEF CloseUnblock, Unblock, inputVars, readerVars
<1>15. CASE CloseRestore
  <2>1. UNCHANGED <<platform, typed, inputClosed, isFile, fileOpen, taken, reader, held, eof,
                    ch, stop, wake, main, done, delivered>>
    BY <1>15 DEF CloseRestore, inputVars, readerVars
  <2>2. terminal' \in {"cooked", "raw"} /\ raw' = FALSE
    BY <1>15 DEF CloseRestore
  <2>3. closing = "unblocked" /\ closing' = "closed"
    BY <1>15 DEF CloseRestore
  <2>4. QED
    BY <2>1, <2>2, <2>3
<1>16. CASE PollFails
  BY <1>16 DEF PollFails, inputVars, termVars
<1>17. CASE ReadFails
  BY <1>17 DEF ReadFails, inputVars, termVars
<1>18. CASE UNCHANGED keyVars
  BY <1>18 DEF keyVars
<1>19. QED
  BY <1>1, <1>2, <1>3, <1>4, <1>5, <1>6, <1>7, <1>8, <1>9, <1>10, <1>11, <1>12, <1>13, <1>14,
     <1>15, <1>16, <1>17, <1>18
  DEF KeysNext, Input, ReadLoop, SystemFails, Read, CloseRest

\* The reader, the loop and close() keep to the invariant for ever.
THEOREM KeysInvariant == KeysSpec => []KeysInv
<1>1. QED
  BY KeysInvInit, KeysInvStep, PTL DEF KeysSpec

\* Type correctness of the key reader, whatever the length of the input.
THEOREM KeysTypeCorrect == KeysSpec => []KeysTypeOK
<1>1. KeysInv => KeysTypeOK
  BY DEF KeysInv
<1>2. QED
  BY <1>1, KeysInvariant, PTL

\* Every byte the reader takes is delivered, buffered or held, in order.
THEOREM KeysAccountedHolds == KeysSpec => []KeysAccounted
<1>1. KeysInv => KeysAccounted
  BY DEF KeysInv
<1>2. QED
  BY <1>1, KeysInvariant, PTL

\* eof is closed, and the loop gives up on its keys, only when the reader has
\* handed over every byte it took.
THEOREM EofIsTheEndHolds == KeysSpec => []EofIsTheEnd
<1>1. KeysInv => EofIsTheEnd
  BY DEF KeysInv
<1>2. QED
  BY <1>1, KeysInvariant, PTL

\* The loop is given every key once and in order.
THEOREM InOrderHolds == KeysSpec => InOrder
<1>1. KeysInv /\ [KeysNext]_keyVars => [delivered' \in {delivered, delivered + 1}]_keyVars
  BY DEF KeysInv, KeysTypeOK, KeysAccounted, KeysNext, Input, ReadLoop, SystemFails, Read, CloseRest, keyVars,
         TypeKey, CloseInput, WaitStopped, PollFails, ReadFails, WaitReady, ReadByte, ReadEof, SendKey, SendStopped,
         ReadBegin, ReadKey, ReadTimeout, ReadCheckEof, CloseStop, CloseUnblock, CloseRestore
<1>2. QED
  BY <1>1, KeysInvariant, PTL DEF KeysSpec, InOrder

(***************************************************************************)
(* The terminal                                                            *)
(***************************************************************************)

\* Only close() touches the terminal, and on Unix its file is still open then.
LEMMA TerminalInvStep == KeysInv /\ TerminalInv /\ [KeysNext]_keyVars => TerminalInv'
<1> SUFFICES ASSUME KeysInv, TerminalInv, [KeysNext]_keyVars PROVE TerminalInv'
  OBVIOUS
<1> USE DEF KeysInv, KeysTypeOK, TerminalInv
<1>1. CASE Input
  BY <1>1 DEF Input, TypeKey, CloseInput, termVars
<1>2. CASE ReadLoop \/ SystemFails
  BY <1>2 DEF ReadLoop, SystemFails, PollFails, ReadFails, WaitStopped, WaitReady, ReadByte, ReadEof, SendKey, SendStopped, termVars, inputVars
<1>3. CASE Read
  BY <1>3 DEF Read, ReadBegin, ReadKey, ReadTimeout, ReadCheckEof, termVars, inputVars
<1>4. CASE CloseStop
  BY <1>4 DEF CloseStop, termVars, inputVars
<1>5. CASE CloseUnblock
  BY <1>5 DEF CloseUnblock, Unblock, inputVars
<1>6. CASE CloseRestore
  BY <1>6 DEF CloseRestore, FdValid, inputVars
<1>7. CASE UNCHANGED keyVars
  BY <1>7 DEF keyVars
<1>8. QED
  BY <1>1, <1>2, <1>3, <1>4, <1>5, <1>6, <1>7 DEF KeysNext, CloseRest

\* "Raw mode is restored by close() on every exit path": so it is on Unix.
THEOREM RawRestoredHolds == KeysSpec => []RawRestored
<1>1. KeysInv /\ TerminalInv => RawRestored
  BY DEF KeysInv, KeysTypeOK, TerminalInv, RawRestored
<1>2. QED
  BY <1>1, KeysInvInit, TerminalInvStep, KeysInvariant, PTL DEF KeysSpec

(***************************************************************************)
(* The loop and its reader                                                 *)
(***************************************************************************)

\* A step of the watch is a step of the keys or leaves them alone.
LEMMA WatchStepDrivesKeys == [WatchNext]_watchVars => [KeysNext]_keyVars
<1> SUFFICES ASSUME [WatchNext]_watchVars PROVE [KeysNext]_keyVars
  OBVIOUS
<1>1. CASE Typing
  BY <1>1 DEF Typing, KeysNext
<1>2. CASE Cancel \/ Ticker \/ Panic \/ Tock \/ UNCHANGED watchVars
  BY <1>2 DEF Cancel, Ticker, TickerFires, TickerExits, Panic, Tock, watchVars
<1>3. CASE Reader \/ ReaderFails
  BY <1>3 DEF Reader, ReaderFails, KeysNext
<1>4. CASE StartRefresh \/ EndRefresh \/ LeaveOnCancel \/ TakeTick \/ Block \/ DropKeys \/ DeferStop
  BY <1>4 DEF StartRefresh, EndRefresh, LeaveOnCancel, TakeTick, Block, DropKeys, DeferStop
<1>5. CASE PollKeys \/ KeyRead \/ PollTimesOut \/ PollEnds
  BY <1>5 DEF PollKeys, KeyRead, PollTimesOut, PollEnds, KeysNext, Read
<1>6. CASE DeferCloseKeys
  BY <1>6 DEF DeferCloseKeys, KeysNext
<1>7. QED
  BY <1>1, <1>2, <1>3, <1>4, <1>5, <1>6 DEF WatchNext, Loop

\* The loop reads keys and closes the reader as its module allows.
THEOREM DrivesKeysHolds == WatchSpec => DrivesKeys
<1>1. WatchInit => KeysInit
  BY DEF WatchInit
<1>2. QED
  BY <1>1, WatchStepDrivesKeys, PTL DEF WatchSpec, KeysSpec, DrivesKeys

\* The types of the loop's own variables.
LoopTypes ==
  /\ kind \in [1..MaxKeys -> Kinds]
  /\ loop \in {"top", "refreshing", "listen", "reading", "blocked", "left", "closing", "returned"}
  /\ keysNil \in BOOLEAN /\ refresh \in BOOLEAN /\ cancelled \in BOOLEAN
  /\ tickCh \in BOOLEAN /\ tickStop \in BOOLEAN
  /\ ticker \in {"running", "exited"}
  /\ untilTick \in 0..Interval
  /\ left \in 0..MaxFetch

LEMMA LoopTypesStep == KeysTypeOK' /\ LoopTypes /\ [WatchNext]_watchVars => LoopTypes'
<1> SUFFICES ASSUME KeysTypeOK', LoopTypes, [WatchNext]_watchVars PROVE LoopTypes'
  OBVIOUS
<1> USE DEF LoopTypes, GoTo, Again, loopVars
<1>0. 0 \in 0..MaxFetch /\ 1 \in 0..MaxFetch /\ 0 \in 0..Interval /\ Interval \in 0..Interval
  BY DurationsAssumption
<1>1. CASE Typing \/ Reader \/ ReaderFails \/ UNCHANGED watchVars
  BY <1>1 DEF Typing, Reader, ReaderFails, watchVars
<1>2. CASE Cancel \/ Ticker \/ Panic
  BY <1>0, <1>2 DEF Cancel, Ticker, TickerFires, TickerExits, Panic
<1>3. CASE Tock
  BY <1>3, DurationsAssumption DEF Tock, TickDue
<1>4. CASE StartRefresh
  <2>1. left' \in 0..MaxFetch
    BY <1>4, DurationsAssumption DEF StartRefresh
  <2>2. QED
    BY <1>4, <2>1 DEF StartRefresh
<1>5. CASE EndRefresh \/ LeaveOnCancel \/ TakeTick \/ Block \/ DropKeys \/ DeferStop
  BY <1>0, <1>5 DEF EndRefresh, LeaveOnCancel, TakeTick, Block, DropKeys, DeferStop, StopTicker
<1>6. CASE PollKeys \/ KeyRead \/ PollTimesOut
  BY <1>0, <1>6 DEF PollKeys, KeyRead, PollTimesOut, OnKey
<1>7. CASE PollEnds \/ DeferCloseKeys
  BY <1>7 DEF PollEnds, DeferCloseKeys, KeysTypeOK
<1>8. QED
  BY <1>1, <1>2, <1>3, <1>4, <1>5, <1>6, <1>7 DEF WatchNext, Loop

\* Every variable of the watch mode keeps its type.
THEOREM WatchTypeCorrect == WatchSpec => []WatchTypeOK
<1>1. WatchInit => LoopTypes
  <2>1. 0 \in 0..MaxFetch /\ Interval \in 0..Interval
    BY DurationsAssumption
  <2>2. QED
    BY <2>1, ScriptsAssumption DEF WatchInit, LoopTypes
<1>2. KeysTypeOK /\ LoopTypes => WatchTypeOK
  BY DEF LoopTypes, WatchTypeOK
<1>3. KeysSpec => []KeysTypeOK
  BY KeysTypeCorrect
<1>4. QED
  BY <1>1, <1>2, <1>3, LoopTypesStep, DrivesKeysHolds, PTL DEF WatchSpec, DrivesKeys

\* runWatch returns only when the deferred close() has run to its end.
ReturnInv == loop = "returned" => closing = "closed"

\* Every step of the watch keeps it so.
LEMMA ReturnInvStep == ReturnInv /\ [WatchNext]_watchVars => ReturnInv'
<1> SUFFICES ASSUME ReturnInv, [WatchNext]_watchVars PROVE ReturnInv'
  OBVIOUS
<1> USE DEF ReturnInv, GoTo, Again, loopVars
<1>1. CASE Typing
  BY <1>1 DEF Typing, Input, TypeKey, CloseInput
<1>2. CASE Cancel \/ Ticker \/ Panic \/ Tock \/ UNCHANGED watchVars
  BY <1>2 DEF Cancel, Ticker, TickerFires, TickerExits, Panic, Tock, watchVars, keyVars
<1>3. CASE Reader \/ ReaderFails
  BY <1>3 DEF Reader, ReadLoop, WaitStopped, WaitReady, ReadByte, ReadEof, SendKey, SendStopped,
              ReaderFails, SystemFails, PollFails, ReadFails
<1>4. CASE StartRefresh \/ EndRefresh \/ LeaveOnCancel \/ TakeTick \/ Block \/ DropKeys \/ DeferStop
  BY <1>4 DEF StartRefresh, EndRefresh, LeaveOnCancel, TakeTick, Block, DropKeys, DeferStop, keyVars
<1>5. CASE PollKeys \/ PollTimesOut \/ PollEnds
  BY <1>5 DEF PollKeys, PollTimesOut, PollEnds, ReadBegin, ReadTimeout, ReadCheckEof
<1>6. CASE KeyRead
  BY <1>6 DEF KeyRead, OnKey, ReadKey
<1>7. CASE DeferCloseKeys
  BY <1>7 DEF DeferCloseKeys
<1>8. QED
  BY <1>1, <1>2, <1>3, <1>4, <1>5, <1>6, <1>7 DEF WatchNext, Loop

\* On Unix, however the watch is left, runWatch returns with the terminal in
\* the mode it found.
THEOREM TerminalRestoredHolds == WatchSpec => []TerminalRestored
<1>1. WatchInit => ReturnInv
  BY DEF WatchInit, ReturnInv
<1>2. ReturnInv /\ RawRestored => TerminalRestored
  BY DEF ReturnInv, RawRestored, TerminalRestored
<1>3. KeysSpec => []RawRestored
  BY RawRestoredHolds
<1>4. QED
  BY <1>1, <1>2, <1>3, ReturnInvStep, DrivesKeysHolds, PTL DEF WatchSpec, DrivesKeys

(***************************************************************************)
(* The quit key                                                            *)
(***************************************************************************)

\* Only KeyRead hands the loop a key, the next one of the input, and a loop
\* that has been left goes through the deferred calls and nowhere else.
LEMMA QuitIsLastStep ==
  KeysInv /\ LoopTypes /\ QuitIsLast /\ [WatchNext]_watchVars => QuitIsLast'
<1> SUFFICES ASSUME KeysInv, LoopTypes, QuitIsLast, [WatchNext]_watchVars PROVE QuitIsLast'
  OBVIOUS
<1>1. SUFFICES ASSUME ~KeyRead
               PROVE UNCHANGED <<kind, delivered>> /\ (LoopLeft => LoopLeft')
  <2>1. CASE ~KeyRead
    BY <1>1, <2>1 DEF QuitIsLast
  <2>2. CASE KeyRead
    <3>1. loop = "reading" /\ kind' = kind /\ delivered' = ch /\ ch # 0 /\ OnKey(kind[ch])
      BY <2>2 DEF KeyRead, ReadKey
    <3>2. delivered \in Nat /\ delivered' = delivered + 1
      BY <3>1, MaxKeysAssumption DEF KeysInv, KeysTypeOK, KeysAccounted
    <3>3. \A k \in 1..delivered: kind[k] # "quit"
      BY <3>1 DEF QuitIsLast, LoopLeft
    <3>4. kind[ch] = "quit" => loop' = "left"
      BY <3>1 DEF OnKey, GoTo
    <3>5. ASSUME NEW k \in 1..delivered', kind'[k] = "quit"
          PROVE k = delivered' /\ LoopLeft'
      <4>1. k = delivered + 1
        BY <3>1, <3>2, <3>3, <3>5
      <4>2. QED
        BY <3>1, <3>2, <3>4, <3>5, <4>1 DEF LoopLeft
    <3>6. QED
      BY <3>5 DEF QuitIsLast
  <2>3. QED
    BY <2>1, <2>2
<1> USE DEF GoTo, Again, LoopLeft, loopVars
<1>2. CASE Typing
  BY <1>2 DEF Typing, Input, TypeKey, CloseInput
<1>3. CASE Cancel \/ Ticker \/ Panic \/ Tock \/ UNCHANGED watchVars
  BY <1>3 DEF Cancel, Ticker, TickerFires, TickerExits, Panic, Tock, watchVars, keyVars
<1>4. CASE Reader \/ ReaderFails
  BY <1>4 DEF Reader, ReadLoop, WaitStopped, WaitReady, ReadByte, ReadEof, SendKey, SendStopped,
              ReaderFails, SystemFails, PollFails, ReadFails
<1>5. CASE StartRefresh \/ EndRefresh \/ LeaveOnCancel \/ TakeTick \/ Block \/ DropKeys \/ DeferStop
  BY <1>5 DEF StartRefresh, EndRefresh, LeaveOnCancel, TakeTick, Block, DropKeys, DeferStop,
              keyVars, SeeCancel, SeeTick, Selecting, NothingReady
<1>6. CASE PollKeys \/ PollTimesOut \/ PollEnds
  BY <1>6 DEF PollKeys, PollTimesOut, PollEnds, NothingReady, ReadBegin, ReadTimeout, ReadCheckEof
<1>7. CASE DeferCloseKeys
  BY <1>7 DEF DeferCloseKeys, CloseStop, CloseRest, CloseUnblock, CloseRestore
<1>8. QED
  BY <1>1, <1>2, <1>3, <1>4, <1>5, <1>6, <1>7 DEF WatchNext, Loop

\* A quit key that the loop has been given ends it: no refresh and no key
\* after it, however many were typed.
THEOREM QuitIsLastHolds == WatchSpec => []QuitIsLast
<1>1. WatchInit => QuitIsLast
  BY DEF WatchInit, KeysInit, QuitIsLast
<1>2. WatchTypeOK => LoopTypes
  BY DEF WatchTypeOK, LoopTypes
<1>3. KeysSpec => []KeysInv
  BY KeysInvariant
<1>4. QED
  BY <1>1, <1>2, <1>3, QuitIsLastStep, WatchTypeCorrect, DrivesKeysHolds, PTL
  DEF WatchSpec, DrivesKeys

==============================================================================
