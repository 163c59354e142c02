------------------------------ MODULE WatchKeys ------------------------------
(***************************************************************************)
(* The key reader of the watch mode, cmd/statisfy/watch_keys.go with its   *)
(* two platform files: one goroutine moves single bytes from stdin to a    *)
(* channel of capacity one, the watch loop receives them with a bounded    *)
(* wait, and close() ends the goroutine and puts the terminal back.        *)
(*                                                                         *)
(* A key is known by its position in the input, 1, 2, ...; position 0      *)
(* stands for no key.                                                      *)
(***************************************************************************)
EXTENDS Integers

CONSTANT
  MaxKeys     \* bound: the bytes ever typed

ASSUME MaxKeysAssumption == MaxKeys \in Nat

VARIABLES
  platform,     \* which of the two platform files is built in
  typed,        \* bytes written to stdin so far
  inputClosed,  \* the other end of stdin is closed, or hung up
  isFile,       \* w.f # nil
  fileOpen,     \* w.f has not been closed
  taken,        \* position of the last byte the reader got from Read
  reader,       \* where readLoop is
  held,         \* b[0], while the reader offers it to ch
  ch,           \* the key buffered in w.ch
  eof,          \* w.eof is closed
  stop,         \* w.stop is closed
  wake,         \* bytes in the wakeup pipe; -1: there is no pipe
  raw,          \* w.raw
  terminal,     \* the mode the terminal is really in
  main,         \* where the watch loop is in read()
  done,         \* w.done
  delivered,    \* position of the last key read() returned
  closing       \* how far close() has come

inputVars == <<platform, typed, inputClosed>>
readerVars == <<taken, reader, held, eof>>
termVars == <<isFile, fileOpen, raw, terminal>>
keyVars == <<platform, typed, inputClosed, isFile, fileOpen, taken, reader, held, ch, eof,
             stop, wake, raw, terminal, main, done, delivered, closing>>

NoPipe == -1

KeysTypeOK ==
  /\ platform \in {"unix", "windows"}
  /\ typed \in 0..MaxKeys
  /\ inputClosed \in BOOLEAN
  /\ isFile \in BOOLEAN /\ fileOpen \in BOOLEAN
  /\ taken \in 0..MaxKeys
  /\ reader \in {"none", "poll", "read", "send", "exited"}
  /\ held \in 0..MaxKeys
  /\ ch \in 0..MaxKeys
  /\ eof \in BOOLEAN /\ stop \in BOOLEAN
  /\ wake \in {NoPipe, 0, 1}
  /\ raw \in BOOLEAN
  /\ terminal \in {"cooked", "raw"}
  /\ main \in {"idle", "select", "check"}
  /\ done \in BOOLEAN
  /\ delivered \in 0..MaxKeys
  /\ closing \in {"open", "stopped", "unblocked", "closed"}

(***************************************************************************)
(* newWatchKeys                                                            *)
(***************************************************************************)

\* Without an *os.File there is no reader.  With one, the terminal may be put
\* into raw mode, and on Unix the wakeup pipe may fail to open, which leaves
\* the reader unstarted.
NewWatchKeys ==
  /\ isFile \in BOOLEAN
  /\ raw \in BOOLEAN
  /\ raw => isFile
  /\ terminal = IF raw THEN "raw" ELSE "cooked"
  /\ wake \in IF isFile /\ platform = "unix" THEN {NoPipe, 0} ELSE {NoPipe}
  /\ done = (~isFile \/ (platform = "unix" /\ wake = NoPipe))
  /\ reader = IF done THEN "none" ELSE "poll"

KeysInit ==
  /\ platform \in {"unix", "windows"}
  /\ typed = 0 /\ inputClosed = FALSE
  /\ NewWatchKeys
  /\ fileOpen = TRUE
  /\ taken = 0 /\ held = 0 /\ ch = 0 /\ delivered = 0
  /\ eof = FALSE /\ stop = FALSE
  /\ main = "idle" /\ closing = "open"

(***************************************************************************)
(* The other end of stdin                                                  *)
(***************************************************************************)
TypeKey ==
  /\ ~inputClosed /\ typed < MaxKeys
  /\ typed' = typed + 1
  /\ UNCHANGED <<platform, inputClosed, termVars, readerVars, ch, stop, wake, main, done, delivered, closing>>

CloseInput ==
  /\ ~inputClosed
  /\ inputClosed' = TRUE
  /\ UNCHANGED <<platform, typed, termVars, readerVars, ch, stop, wake, main, done, delivered, closing>>

(***************************************************************************)
(* readLoop                                                                *)
(***************************************************************************)
Unread == taken < typed

\* Mutant of InputReady: poll(2) is asked for the hang-up only.
InputReadyMutant == inputClosed
InputReady == Unread \/ inputClosed

PollStop == platform = "unix" /\ wake > 0

\* waitReadable: on Unix poll(2) waits for stdin or the wakeup pipe, which
\* wins when both are ready; on Windows it does not wait at all.
WaitStopped ==
  /\ reader = "poll"
  /\ PollStop
  /\ reader' = "exited"
  /\ wake' = wake - 1
  /\ UNCHANGED <<inputVars, termVars, taken, held, ch, eof, stop, main, done, delivered, closing>>

\* poll(2) fails: the answer is the same as to a stop, and the reader ends
\* without closing eof.
PollFails ==
  /\ reader = "poll"
  /\ platform = "unix"
  /\ reader' = "exited"
  /\ UNCHANGED <<inputVars, termVars, taken, held, ch, eof, stop, wake, main, done, delivered, closing>>

WaitReady ==
  /\ reader = "poll"
  /\ platform = "unix" => InputReady /\ ~PollStop
  /\ reader' = "read"
  /\ UNCHANGED <<inputVars, termVars, taken, held, ch, eof, stop, wake, main, done, delivered, closing>>

\* Read returns a byte.
ReadByte ==
  /\ reader = "read"
  /\ fileOpen
  /\ Unread
  /\ taken' = taken + 1
  /\ held' = taken + 1
  /\ reader' = "send"
  /\ UNCHANGED <<inputVars, termVars, ch, eof, stop, wake, main, done, delivered, closing>>

AtEof == ~Unread /\ inputClosed

\* Read reports the end of the input, or that the file has been closed.
ReadEof ==
  /\ reader = "read"
  /\ ~fileOpen \/ AtEof
  /\ eof' = TRUE
  /\ reader' = "exited"
  /\ UNCHANGED <<inputVars, termVars, taken, held, ch, stop, wake, main, done, delivered, closing>>

\* Read fails, which is taken for the end of the input.
ReadFails ==
  /\ reader = "read"
  /\ eof' = TRUE
  /\ reader' = "exited"
  /\ UNCHANGED <<inputVars, termVars, taken, held, ch, stop, wake, main, done, delivered, closing>>

\* Mutant of ChFree: a send that replaces the key waiting in ch.
ChFreeMutant == TRUE
ChFree == ch = 0

SendKey ==
  /\ reader = "send"
  /\ ChFree
  /\ ch' = held
  /\ held' = 0
  /\ reader' = "poll"
  /\ UNCHANGED <<inputVars, termVars, taken, eof, stop, wake, main, done, delivered, closing>>

SendStopped ==
  /\ reader = "send"
  /\ stop
  /\ held' = 0
  /\ reader' = "exited"
  /\ UNCHANGED <<inputVars, termVars, taken, ch, eof, stop, wake, main, done, delivered, closing>>

(***************************************************************************)
(* read(), called by the watch loop                                        *)
(***************************************************************************)
ReadBegin ==
  /\ main = "idle" /\ closing = "open"
  /\ ~done
  /\ main' = "select"
  /\ UNCHANGED <<inputVars, termVars, readerVars, ch, stop, wake, done, delivered, closing>>

ReadKey ==
  /\ main = "select"
  /\ ch # 0
  /\ delivered' = ch
  /\ ch' = 0
  /\ main' = "idle"
  /\ UNCHANGED <<inputVars, termVars, readerVars, stop, wake, done, closing>>

\* The timer fires while no key is buffered.
ReadTimeout ==
  /\ main = "select"
  /\ ch = 0
  /\ main' = "check"
  /\ UNCHANGED <<inputVars, termVars, readerVars, ch, stop, wake, done, delivered, closing>>

\* Mutant of EofSeen: the second select has no case for eof.
EofSeenMutant == FALSE
EofSeen == eof

\* The second select, which does not look at ch again.
ReadCheckEof ==
  /\ main = "check"
  /\ done' = (done \/ EofSeen)
  /\ main' = "idle"
  /\ UNCHANGED <<inputVars, termVars, readerVars, ch, stop, wake, delivered, closing>>

(***************************************************************************)
(* close(), deferred by runWatch: it runs when the loop has been left      *)
(***************************************************************************)
CloseStop ==
  /\ closing = "open" /\ main = "idle"
  /\ stop' = TRUE
  /\ closing' = "stopped"
  /\ UNCHANGED <<inputVars, termVars, readerVars, ch, wake, main, done, delivered>>

\* unblockRead: a byte into the wakeup pipe, or the file is closed.
\* Mutant of Unblock: the platform's wakeup is left out.
UnblockMutant == UNCHANGED <<wake, fileOpen>>
Unblock ==
  /\ wake' = IF wake = NoPipe THEN NoPipe ELSE 1
  /\ fileOpen' = (fileOpen /\ ~(platform = "windows" /\ isFile))

CloseUnblock ==
  /\ closing = "stopped"
  /\ Unblock
  /\ closing' = "unblocked"
  /\ UNCHANGED <<inputVars, isFile, raw, terminal, readerVars, ch, stop, main, done, delivered>>

\* restore: term.Restore is given w.f.Fd().  Of a file that has been closed
\* that is no longer the terminal, except while a Read still holds it open,
\* when it may or may not be; its error is dropped and raw is reset.
\* Mutant of FdValid: the descriptor handed over is never the terminal's.
FdValidMutant == {FALSE}
FdValid == IF fileOpen THEN {TRUE} ELSE IF reader = "read" THEN BOOLEAN ELSE {FALSE}

CloseRestore ==
  /\ closing = "unblocked"
  /\ \E valid \in FdValid:
       terminal' = IF raw /\ isFile /\ valid THEN "cooked" ELSE terminal
  /\ raw' = FALSE
  /\ closing' = "closed"
  /\ UNCHANGED <<inputVars, isFile, fileOpen, readerVars, ch, stop, wake, main, done, delivered>>

Input == TypeKey \/ CloseInput
ReadLoop == WaitStopped \/ WaitReady \/ ReadByte \/ ReadEof \/ SendKey \/ SendStopped
SystemFails == PollFails \/ ReadFails
Read == ReadBegin \/ ReadKey \/ ReadTimeout \/ ReadCheckEof
CloseRest == CloseUnblock \/ CloseRestore

KeysNext == Input \/ ReadLoop \/ SystemFails \/ Read \/ CloseStop \/ CloseRest

KeysSpec == KeysInit /\ [][KeysNext]_keyVars

(***************************************************************************)
(* Properties                                                              *)
(***************************************************************************)

\* Every byte taken from stdin is where it should be: delivered, in ch, or
\* held by the reader, in the order typed.  Only a reader that was stopped
\* may have dropped one, and only the last it took.
Count(k) == IF k = 0 THEN 0 ELSE 1
KeysAccounted ==
  /\ taken <= typed
  /\ ch # 0 => ch = delivered + 1
  /\ held # 0 => held = delivered + Count(ch) + 1
  /\ reader # "exited" \/ ~stop => taken = delivered + Count(ch) + Count(held)
  /\ taken <= delivered + Count(ch) + Count(held) + 1

\* The loop is given the keys one by one, in the order they were typed: none
\* twice, none skipped.
InOrder == [][delivered' \in {delivered, delivered + 1}]_keyVars

\* eof is closed only by a reader that has handed over every byte it took, and
\* the loop gives up on its keys only then, or when there never was a reader.
EofIsTheEnd ==
  /\ eof => reader = "exited" /\ held = 0 /\ taken = delivered + Count(ch)
  /\ done => eof \/ reader = "none"

\* "EOF never outranks a pending key": the loop gives up on its keys only
\* when none is left to be read.
EofNeverOutranksKey == done => ch = 0

\* On Unix close() leaves the terminal in the mode it was found in, whatever
\* the reader is doing.  (Windows closes the file first: see FdValid.)
RawRestored == platform = "unix" /\ closing = "closed" => terminal = "cooked"

\* The reader has ended of itself and told nobody: poll(2) has failed.
PollFailed == reader = "exited" /\ ~eof /\ ~stop
=============================================================================
