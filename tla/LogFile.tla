------------------------------ MODULE LogFile ------------------------------
(***************************************************************************)
(* log/logfile: messages are appended to a file through the buffer of its  *)
(* FILE; when the file has grown to the roll size the next one is opened,  *)
(* and a file that was removed or replaced is opened again.  append holds  *)
(* _mutex, so one message is appended at a time, in steps; flush does not  *)
(* take the mutex and happens between those steps.  The results of fflush  *)
(* and fclose are discarded, so a buffer that could not be written out is  *)
(* lost in silence.  The process may be killed and started again.          *)
(*                                                                         *)
(* The n-th message is a number of characters n.  Dereferencing NULL and   *)
(* using a closed FILE end the program ("fault").                          *)
(***************************************************************************)
EXTENDS Integers, Sequences, SequencesExt, FiniteSets

CONSTANTS
    RollSize,       \* _kRollSize, not 0
    FileBufSize,    \* bufSize
    MaxLen,         \* bound: the length of a message
    MaxAppends,     \* bound: messages
    MaxName,        \* bound: the last _rollIndex
    MaxFailures,    \* bound: calls of fopen that fail
    MaxShort,       \* bound: calls of fwrite that do not write all
    MaxOuts,        \* bound: buffers that are not written out completely
    MaxUnlinks,     \* bound: files removed or replaced by others
    MaxRestarts,    \* bound: restarts of the process
    MaxFileFlushes  \* bound: calls of flush

ASSUME LogFileAssumption ==
    /\ {RollSize, FileBufSize, MaxLen} \subseteq Nat \ {0}
    /\ {MaxAppends, MaxName, MaxFailures, MaxShort, MaxOuts, MaxUnlinks, MaxRestarts,
        MaxFileFlushes} \subseteq Nat

VARIABLES
    dir,        \* the directory: from _rollIndex to the inode of that name, or 0
    content,    \* the files: content[i] is what was written to the inode i
    file,       \* *_file, with the FILE it has open
    rollIndex,  \* _rollIndex
    appender,   \* the thread that holds _mutex
    inFlush,    \* the thread in flush
    fault,      \* what ended the program
    sizes,      \* history: what append returned for each message
    lost,       \* history: buffered characters that no file will get
    durable,    \* history: messages appended in the same run before a flush that
                \* has returned
    env         \* history: how often each failure happened, failed rolls before the
                \* last restart ("carried") and messages before it ("since"), and
                \* the messages in buffers that were not written out ("doubtful")

fileVars == <<dir, content, file, rollIndex, appender, inFlush, fault, sizes,
              lost, durable, env>>

\* A FILE is identified by "raw"; 0 is NULL.
NoFile == [exists |-> FALSE, valid |-> FALSE, name |-> 0, raw |-> 0, inode |-> 0,
           buf |-> <<>>, written |-> 0]

Idle == [pc |-> "idle", len |-> 0, remain |-> 0]

Alive == fault = "none"

-----------------------------------------------------------------------------
(* AppendFileWrapper.                                                      *)

\* stdio writes out the characters s, which are or would be its buffer: k of them,
\* all unless that fails.  The rest is dropped, as the C libraries of Linux do.
Outcomes(s) == {k \in 0..Len(s) : k < Len(s) => env.outs < MaxOuts}

Flushed(s, k) ==
    IF file.inode = 0 THEN content
    ELSE [content EXCEPT ![file.inode] = @ \o SubSeq(s, 1, k)]

Rest(s, k) == SubSeq(s, k + 1, Len(s))

WriteOut(s, k) ==
    /\ content' = Flushed(s, k)
    /\ lost' = lost \o Rest(s, k)

Noted(s, k) ==
    IF k = Len(s) THEN env
    ELSE [env EXCEPT !.outs = @ + 1, !.doubtful = @ \cup ToSet(s)]

\* open succeeds: fopen in mode "a" creates the file or appends to it; what it
\* held before is not counted.  The contents so far are c and the history e.
OpenFile(name, c, e) ==
    LET inode == IF dir[name] # 0 THEN dir[name] ELSE Len(c) + 1 IN
    /\ dir' = [dir EXCEPT ![name] = inode]
    /\ content' = IF dir[name] # 0 THEN c ELSE Append(c, <<>>)
    /\ file' = [exists |-> TRUE, valid |-> TRUE, name |-> name, raw |-> env.opened + 1,
                inode |-> inode, buf |-> <<>>, written |-> 0]
    /\ env' = [e EXCEPT !.opened = @ + 1]

\* fwrite of x characters c; stdio writes out its buffer when it is full.
\* _writenChars grows by n.
Put(c, x, n) ==
    LET all == file.buf \o [i \in 1..x |-> c]
        full == Len(all) > FileBufSize IN
    /\ file' = [file EXCEPT !.buf = IF full THEN <<>> ELSE all, !.written = @ + n]
    /\ content' = IF full THEN [content EXCEPT ![file.inode] = @ \o all] ELSE content
    /\ UNCHANGED lost

\* The buffer with x characters of the message that is being appended.
Buffered(x) == file.buf \o [i \in 1..x |-> Len(sizes) + 1]

-----------------------------------------------------------------------------
(* The constructor, in a process that starts with an empty directory.      *)
FileInit ==
    /\ dir = [n \in 0..MaxName |-> IF n = 0 THEN 1 ELSE 0]
    /\ content = <<<<>>>>
    /\ file = [NoFile EXCEPT !.exists = TRUE, !.valid = TRUE, !.raw = 1, !.inode = 1]
    /\ rollIndex = 1
    /\ appender = Idle
    /\ inFlush = [pc |-> "idle", raw |-> 0, upto |-> 0]
    /\ fault = "none"
    /\ sizes = <<>>
    /\ lost = <<>>
    /\ durable = {}
    /\ env = [opened |-> 1, failures |-> 0, short |-> 0, outs |-> 0, unlinks |-> 0,
              restarts |-> 0, flushes |-> 0, rollFails |-> 0, carried |-> 0,
              since |-> 0, doubtful |-> {}]

\* append up to checkIfOpen, which closes a file that has not its name any more
\* (k: what fclose writes out).
BeginAppend(len, k) ==
    /\ Alive
    /\ appender.pc = "idle"
    /\ Len(sizes) < MaxAppends
    /\ \/ /\ ~file.exists
          /\ fault' = "null"
          /\ UNCHANGED <<dir, content, file, appender, sizes, lost, env>>
       \/ /\ file.exists /\ ~file.valid
          /\ appender' = [Idle EXCEPT !.pc = "roll"]
          /\ sizes' = Append(sizes, 0)
          /\ UNCHANGED <<dir, content, file, fault, lost, env>>
       \/ /\ file.valid
          /\ dir[file.name] = file.inode
          /\ appender' = [pc |-> "write", len |-> len, remain |-> len]
          /\ UNCHANGED <<dir, content, file, fault, sizes, lost, env>>
       \/ /\ file.valid
          /\ dir[file.name] # file.inode
          /\ lost' = lost \o Rest(file.buf, k)
          /\ OpenFile(file.name, Flushed(file.buf, k), Noted(file.buf, k))
          /\ appender' = [pc |-> "write", len |-> len, remain |-> len]
          /\ UNCHANGED <<fault, sizes>>
       \/ /\ file.valid
          /\ dir[file.name] # file.inode
          /\ env.failures < MaxFailures
          /\ WriteOut(file.buf, k)
          /\ file' = [file EXCEPT !.valid = FALSE, !.raw = 0, !.inode = 0, !.buf = <<>>]
          /\ appender' = [Idle EXCEPT !.pc = "roll"]
          /\ sizes' = Append(sizes, 0)
          /\ env' = [Noted(file.buf, k) EXCEPT !.failures = @ + 1]
          /\ UNCHANGED <<dir, fault>>
    /\ UNCHANGED <<rollIndex, inFlush, durable>>

\* One round of the loop of AppendFileWrapper::append.  Each round writes the
\* whole message again, and remain is below 0 where the code wraps around.  A
\* full buffer that is not written out makes fwrite write less than the message.
WriteRound(x, k) ==
    LET remain == appender.remain - x
        writen == appender.len - remain
        done == x = 0 \/ remain = 0
        n == IF done THEN writen ELSE 0 IN
    /\ Alive
    /\ appender.pc = "write"
    /\ x < appender.len => env.short < MaxShort
    /\ x > 0 => appender.remain > -2 * MaxLen
    /\ \/ k = Len(Buffered(x)) /\ Put(Len(sizes) + 1, x, n)
       \/ /\ k < Len(Buffered(x)) /\ x < appender.len
          /\ Len(file.buf) + appender.len > FileBufSize
          /\ WriteOut(Buffered(x), k)
          /\ file' = [file EXCEPT !.buf = <<>>, !.written = @ + n]
    /\ IF done
       THEN /\ appender' = [Idle EXCEPT !.pc = "roll"]
            /\ sizes' = Append(sizes, writen)
       ELSE /\ appender' = [appender EXCEPT !.remain = remain]
            /\ UNCHANGED sizes
    /\ env' = [Noted(Buffered(x), k) EXCEPT !.short = IF x < appender.len THEN @ + 1 ELSE @]
    /\ UNCHANGED <<dir, rollIndex, inFlush, fault, durable>>

\* Mutant: the file may grow to the roll size and beyond.
MutNeedsRoll == file.written > RollSize

NeedsRoll == file.written >= RollSize

KeepFile ==
    /\ Alive
    /\ appender.pc = "roll"
    /\ ~NeedsRoll
    /\ appender' = Idle
    /\ UNCHANGED <<dir, content, file, rollIndex, inFlush, fault, sizes, lost, durable, env>>

\* Mutant: the old wrapper is released instead of deleted.
MutRoll(k) ==
    /\ Alive
    /\ appender.pc = "roll"
    /\ NeedsRoll
    /\ rollIndex <= MaxName
    /\ OpenFile(rollIndex, content, env)
    /\ rollIndex' = rollIndex + 1
    /\ appender' = Idle
    /\ UNCHANGED <<inFlush, fault, sizes, lost, durable>>

\* roll: the old wrapper is deleted, which closes its FILE even if it is NULL.
Roll(k) ==
    /\ Alive
    /\ appender.pc = "roll"
    /\ NeedsRoll
    /\ rollIndex <= MaxName
    /\ OpenFile(rollIndex, Flushed(file.buf, k), Noted(file.buf, k))
    /\ lost' = lost \o Rest(file.buf, k)
    /\ fault' = IF file.raw = 0 THEN "fclose" ELSE fault
    /\ rollIndex' = rollIndex + 1
    /\ appender' = Idle
    /\ UNCHANGED <<inFlush, sizes, durable>>

RollFails ==
    /\ Alive
    /\ appender.pc = "roll"
    /\ NeedsRoll
    /\ env.failures < MaxFailures
    /\ env' = [env EXCEPT !.failures = @ + 1, !.rollFails = @ + 1]
    /\ appender' = Idle
    /\ UNCHANGED <<dir, content, file, rollIndex, inFlush, fault, sizes, lost, durable>>

\* flush reads _file and _raw ...
BeginFlush ==
    /\ Alive
    /\ inFlush.pc = "idle"
    /\ env.flushes < MaxFileFlushes
    /\ env' = [env EXCEPT !.flushes = @ + 1]
    /\ \/ /\ file.exists
          /\ inFlush' = [pc |-> "fflush", raw |-> file.raw, upto |-> Len(sizes)]
          /\ UNCHANGED fault
       \/ /\ ~file.exists
          /\ fault' = "null"
          /\ UNCHANGED inFlush
    /\ UNCHANGED <<dir, content, file, rollIndex, appender, sizes, lost, durable>>

\* Mutant: nothing is written out when the file is being appended to.
MutFlushable == file.raw # 0 /\ appender.pc = "idle"

Flushable == file.raw # 0

\* ... and calls fflush; NULL stands for all open files.  flush returns when
\* that failed as well.
EndFlush(k) ==
    /\ Alive
    /\ inFlush.pc = "fflush"
    /\ inFlush' = [inFlush EXCEPT !.pc = "idle"]
    /\ \/ /\ inFlush.raw \in {0, file.raw} /\ Flushable
          /\ WriteOut(file.buf, k)
          /\ file' = [file EXCEPT !.buf = <<>>]
          /\ env' = Noted(file.buf, k)
          /\ durable' = durable \cup ((env.since + 1)..inFlush.upto)
          /\ UNCHANGED fault
       \/ /\ inFlush.raw \in {0, file.raw} /\ ~Flushable
          /\ durable' = durable \cup ((env.since + 1)..inFlush.upto)
          /\ UNCHANGED <<content, file, lost, env, fault>>
       \/ /\ inFlush.raw \notin {0, file.raw}
          /\ fault' = "closed"
          /\ UNCHANGED <<content, file, lost, env, durable>>
    /\ UNCHANGED <<dir, rollIndex, appender, sizes>>

\* Somebody else removes a file ...
Unlink(name) ==
    /\ Alive
    /\ env.unlinks < MaxUnlinks
    /\ dir[name] # 0
    /\ dir' = [dir EXCEPT ![name] = 0]
    /\ env' = [env EXCEPT !.unlinks = @ + 1]
    /\ UNCHANGED <<content, file, rollIndex, appender, inFlush, fault, sizes, lost, durable>>

\* ... or creates one, in place of the one of that name if there is one.
Replace(name) ==
    /\ Alive
    /\ env.unlinks < MaxUnlinks
    /\ content' = Append(content, <<>>)
    /\ dir' = [dir EXCEPT ![name] = Len(content) + 1]
    /\ env' = [env EXCEPT !.unlinks = @ + 1]
    /\ UNCHANGED <<file, rollIndex, appender, inFlush, fault, sizes, lost, durable>>

\* The process is killed: its buffer is lost, and so is what it was doing.
Kill ==
    /\ Alive
    /\ env.restarts < MaxRestarts
    /\ lost' = lost \o file.buf
    /\ sizes' = IF appender.pc = "write"
                THEN Append(sizes, appender.len - appender.remain) ELSE sizes
    /\ file' = NoFile
    /\ appender' = Idle
    /\ inFlush' = [inFlush EXCEPT !.pc = "idle"]
    /\ fault' = "killed"
    /\ env' = [env EXCEPT !.restarts = @ + 1, !.carried = env.rollFails,
                          !.since = Len(sizes')]
    /\ UNCHANGED <<dir, content, rollIndex, durable>>

\* The constructor opens the first file again, or leaves _file empty.
Restart ==
    /\ fault = "killed"
    /\ fault' = "none"
    /\ \/ /\ OpenFile(0, content, env)
          /\ rollIndex' = 1
       \/ /\ env.failures < MaxFailures
          /\ rollIndex' = 0
          /\ env' = [env EXCEPT !.failures = @ + 1]
          /\ UNCHANGED <<dir, content, file>>
    /\ UNCHANGED <<appender, inFlush, sizes, lost, durable>>

FileNext ==
    \/ \E len \in 1..MaxLen, k \in Outcomes(file.buf) : BeginAppend(len, k)
    \/ \E x \in 0..appender.len : \E k \in Outcomes(Buffered(x)) : WriteRound(x, k)
    \/ \E k \in Outcomes(file.buf) : Roll(k) \/ EndFlush(k)
    \/ KeepFile \/ RollFails \/ BeginFlush
    \/ \E name \in 0..MaxName : Unlink(name) \/ Replace(name)
    \/ Kill \/ Restart

FileSpec == FileInit /\ [][FileNext]_fileVars

-----------------------------------------------------------------------------
\* The types of the variables.
FileTypeOK ==
    /\ dir \in [0..MaxName -> 0..Len(content)]
    /\ file.inode \in 0..Len(content)
    /\ rollIndex \in 0..(MaxName + 1)
    /\ appender.pc \in {"idle", "write", "roll"}
    /\ inFlush.pc \in {"idle", "fflush"}
    /\ fault \in {"none", "killed", "null", "closed", "fclose"}
    /\ durable \subseteq 1..Len(sizes)

\* What an inode holds or is about to hold.
Written(i) == IF i = file.inode THEN content[i] \o file.buf ELSE content[i]

Count(c, s) == Cardinality({i \in DOMAIN s : s[i] = c})

\* Where the files have, or are about to have, the character c.
Places(c) ==
    UNION {{i} \X {j \in DOMAIN Written(i) : Written(i)[j] = c} : i \in 1..Len(content)}

\* Every character that append reported is in exactly one file, in the order of
\* the messages, or in the buffer that will be written behind it: across rolls,
\* files that are removed or replaced, failures to open one, flushes from other
\* threads and restarts.  Characters are lost only where the process is killed or
\* fflush or fclose fails, each time no more than a buffer, and only a short
\* write, after which the message is written again, repeats them.
ContentInOrder ==
    /\ FileTypeOK
    /\ env.short = 0 =>
        /\ \A i \in 1..Len(content) : \A j \in 2..Len(Written(i)) :
            Written(i)[j - 1] <= Written(i)[j]
        /\ \A n \in 1..Len(sizes) : sizes[n] = Count(n, lost) + Cardinality(Places(n))
        /\ Len(lost) <= (env.restarts + env.outs) * FileBufSize

\* Of what was appended before a flush returned, nothing is lost and nothing is
\* left in the buffer, even if the flush met a roll or a reopened file on its way
\* and the process was killed afterwards; unless stdio failed to write out a
\* buffer that had characters of the message, which flush does not report.
FlushedSurvives ==
    \A n \in durable \ env.doubtful : Count(n, lost) = 0 /\ Count(n, file.buf) = 0

\* A file outgrows the roll size by less than one message in each run of the
\* program, and by one more for each roll that failed: the next append tries
\* again.  The characters of earlier runs are not counted.
RollBound ==
    env.short = 0 =>
        \A i \in 1..Len(content) :
            Len(Written(i)) <= (env.restarts + 1) * (RollSize - 1 + MaxLen)
                                   + env.rollFails * MaxLen
=============================================================================
