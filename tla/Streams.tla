------------------------------ MODULE Streams ------------------------------
(***************************************************************************)
(* ReadStream and WriteStream of lib/fs.js, over the operation queue that  *)
(* serves one system call at a time (OpQueue) and one descriptor table.    *)
(* Serve is the worker thread: it runs the system call at the head of the  *)
(* queue.  Deliver is the main thread: it runs the call's callback.  The   *)
(* application and node's stream machinery run in between.                 *)
(*                                                                         *)
(* A handler is an operator from a world to a world: the stream it works   *)
(* on, the queue and the shared pool, so that the listeners of 'open' run  *)
(* in order within one step.                                               *)
(***************************************************************************)
EXTENDS Integers, Sequences, SequencesExt, FiniteSetsExt

CONSTANTS
  Readers, Writers,  \* the streams
  ReaderOptions,     \* options of the constructors
  WriterOptions,
  Fds,               \* descriptor numbers
  NoFd,              \* null
  FileLen,           \* length of the files that are read
  MinPoolSpace,      \* kMinPoolSpace
  WriteLens,         \* lengths of the chunks that are written
  MaxWrites,         \* bound: write calls per stream
  MaxCloses          \* bound: close calls per stream by the application

Streams == Readers \cup Writers

ASSUME StreamsAssumption == Readers \cap Writers = {}
ASSUME FdsAssumption == Fds \subseteq Nat /\ NoFd \notin Fds
ASSUME BoundsAssumption ==
  /\ {FileLen, MaxWrites, MaxCloses} \subseteq Nat
  /\ MinPoolSpace \in Nat \ {0} /\ WriteLens \subseteq Nat \ {0}
ASSUME OptionsAssumption ==
  \A o \in ReaderOptions \cup WriterOptions :
    /\ o.ranged \in BOOLEAN /\ o.autoClose \in BOOLEAN /\ o.given \in BOOLEAN
    /\ o.start \in Nat /\ o.end \in Nat /\ o.hwm \in Nat \ {0}

VARIABLES
  st,      \* the stream objects
  q,       \* system calls submitted and not called back, oldest first
  answer,  \* <<>>, or the result of the system call at the head of q
  fds,     \* owner and offset of each open descriptor
  pool,    \* the current pool: its number, length and used
  mem,     \* the bytes of each pool
  file,    \* what each writer's file holds
  stuck    \* an exception went through the queue

vars == <<st, q, answer, fds, pool, mem, file, stuck>>

\* A stream that is not constructed yet.  reading, ended, buffer, writing and
\* ending are the fields of node's stream state; early, cut, written, failed
\* and shut are history: close calls made before the open returned, whether a
\* system call did less than asked, bytes the application wrote, whether 'error' and
\* how many 'close' events were emitted.
Unmade ==
  [made |-> FALSE, opts |-> <<>>, fd |-> NoFd, pos |-> 0, onOpen |-> <<>>,
   destroyed |-> FALSE, closed |-> FALSE, chunks |-> <<>>, bytes |-> 0,
   reading |-> FALSE, ended |-> FALSE, buffer |-> <<>>, writing |-> FALSE,
   ending |-> FALSE, finished |-> FALSE, closes |-> 0, writes |-> 0,
   early |-> 0, cut |-> FALSE, written |-> 0, failed |-> FALSE, shut |-> 0]

Init ==
  /\ st = [s \in Streams |-> Unmade]
  /\ q = <<>> /\ answer = <<>> /\ stuck = FALSE
  /\ fds = [f \in {} |-> 0]
  /\ pool = [no |-> 0, length |-> 0, used |-> 0]
  /\ mem = <<>>
  /\ file = [s \in Writers |-> <<>>]

(***************************************************************************)
(* Worlds.                                                                 *)
(***************************************************************************)
World(s) == [s |-> s, r |-> st[s], q |-> q, pool |-> pool, throws |-> FALSE]

Become(w) ==
  /\ st' = [st EXCEPT ![w.s] = w.r]
  /\ q' = w.q /\ pool' = w.pool /\ stuck' = w.throws
  \* Buffer.allocUnsafe: the bytes of a new pool are no file's
  /\ mem' = IF w.pool.no = pool.no THEN mem
            ELSE Append(mem, [i \in 1 .. w.pool.length |-> <<>>])

Submit(w, request) == [w EXCEPT !.q = Append(@, request)]

Request(s, op, fd) ==
  [s |-> s, op |-> op, fd |-> fd, no |-> 0, start |-> 0, len |-> 0, pos |-> 0,
   data |-> <<>>]

\* once('open', ...).  A listener registered after the open has returned never
\* runs and is not kept.
OpenPending(w) == \E i \in DOMAIN w.q : w.q[i].s = w.s /\ w.q[i].op = "open"
OnceOpen(w, do, data) ==
  IF OpenPending(w)
  THEN [w EXCEPT !.r.onOpen = Append(@, [do |-> do, data |-> data])] ELSE w

EmitError(w) == [w EXCEPT !.r.failed = TRUE]

(***************************************************************************)
(* Closing, shared by both kinds of stream.                                *)
(***************************************************************************)
\* Mutant: the descriptor is kept in self.fd.
CloseFdKept(w, fd) == Submit(w, Request(w.s, "close", fd))

\* Mutant: 'close' is emitted without waiting for fs.close.
CloseFdEmits(w, fd) ==
  Submit([w EXCEPT !.r.fd = NoFd, !.r.shut = @ + 1], Request(w.s, "close", fd))

\* The function close inside ReadStream.prototype.close.
CloseFd(w, fd) == Submit([w EXCEPT !.r.fd = NoFd], Request(w.s, "close", fd))

\* Mutant: closing a stream that is not open yet does nothing.
CloseNoListener(w) ==
  IF w.r.fd = NoFd THEN w
  ELSE CloseFd([w EXCEPT !.r.closed = TRUE], w.r.fd)

\* ReadStream.prototype.close.  With closed set the descriptor is null, so the
\* branch that only emits 'close' is never taken.
Close(w) ==
  IF w.r.fd = NoFd
  THEN OnceOpen([w EXCEPT !.r.early = IF OpenPending(w) THEN @ + 1 ELSE @],
                "close", <<>>)
  ELSE CloseFd([w EXCEPT !.r.closed = TRUE], w.r.fd)

Destroy(w) ==
  IF w.r.destroyed THEN w ELSE Close([w EXCEPT !.r.destroyed = TRUE])

\* if (self.autoClose) self.destroy(); self.emit('error', er)
Fail(w) == EmitError(IF w.r.opts.autoClose THEN Destroy(w) ELSE w)

(***************************************************************************)
(* ReadStream.                                                             *)
(***************************************************************************)
\* Readable.prototype.push: a chunk, or the end of the file.
Push(w, chunk) ==
  [w EXCEPT !.r.reading = FALSE, !.r.chunks = Append(@, chunk),
            !.r.bytes = @ + chunk.len]
PushNull(w) == [w EXCEPT !.r.reading = FALSE, !.r.ended = TRUE]

\* The pool _read uses: the current one, or a new one when too little is left.
PoolFor(w) ==
  IF w.pool.length - w.pool.used < MinPoolSpace
  THEN [no |-> w.pool.no + 1, length |-> w.r.opts.hwm, used |-> 0]
  ELSE w.pool

\* Mutant: end is taken to be exclusive.
ToReadExclusive(w) ==
  LET p == PoolFor(w) IN
  Min({p.length - p.used, w.r.opts.hwm} \cup
      IF w.r.opts.ranged THEN {w.r.opts.end - w.r.pos} ELSE {})

ToRead(w) ==
  LET p == PoolFor(w) IN
  Min({p.length - p.used, w.r.opts.hwm} \cup
      IF w.r.opts.ranged THEN {w.r.opts.end - w.r.pos + 1} ELSE {})

\* Mutant: the part of the pool is not reserved while the read is under way.
ReservedNothing(w, n) == [PoolFor(w) EXCEPT !.used = @]

Reserved(w, n) == [PoolFor(w) EXCEPT !.used = @ + n]

\* ReadStream.prototype._read; the position moves on by what is asked for.
Read_(w) ==
  LET p == PoolFor(w)
      n == ToRead(w)
      request == [Request(w.s, "read", w.r.fd) EXCEPT
                    !.no = p.no, !.start = p.used, !.len = n, !.pos = w.r.pos]
  IN
  CASE w.r.fd = NoFd -> OnceOpen(w, "read", <<>>)
    [] w.r.fd # NoFd /\ w.r.destroyed -> w
    [] w.r.fd # NoFd /\ ~w.r.destroyed /\ n <= 0 ->
         PushNull([w EXCEPT !.pool = p])
    [] OTHER -> Submit([w EXCEPT !.pool = Reserved(w, n), !.r.pos = @ + n],
                       request)

\* Readable.prototype.read: one _read at a time, none after the end.
ReadableRead(w) ==
  IF w.r.reading \/ w.r.ended THEN w ELSE Read_([w EXCEPT !.r.reading = TRUE])

(***************************************************************************)
(* WriteStream.                                                            *)
(***************************************************************************)
\* Mutant: the position is left alone.
AdvanceNot(w, n) == w

Advance(w, n) == [w EXCEPT !.r.pos = @ + n]

\* WriteStream.prototype._write.
Write_(w, data) ==
  IF w.r.fd = NoFd THEN OnceOpen(w, "write", data)
  ELSE Advance(Submit(w, [Request(w.s, "write", w.r.fd) EXCEPT
                            !.len = Len(data), !.pos = w.r.pos, !.data = data]),
               Len(data))

\* WriteStream.prototype._writev: binding.writeBuffers is not implemented.
Writev_(w) ==
  IF w.r.fd = NoFd THEN OnceOpen(w, "writev", <<>>)
  ELSE [w EXCEPT !.throws = TRUE]

\* clearBuffer of Writable: several chunks that wait go to _writev.
ClearBuffer(w) ==
  LET next == [w EXCEPT !.r.writing = TRUE, !.r.buffer = <<>>] IN
  CASE w.r.buffer = <<>> -> w
    [] Len(w.r.buffer) = 1 -> Write_(next, Head(w.r.buffer))
    [] OTHER -> Writev_(next)

\* Mutant: 'finish' does not close the stream.
FinishOnly(w) ==
  IF w.r.ending /\ ~w.r.writing /\ w.r.buffer = <<>> /\ ~w.r.finished
  THEN [w EXCEPT !.r.finished = TRUE] ELSE w

\* finishMaybe of Writable; the constructor's listener of 'finish' closes.
FinishMaybe(w) ==
  LET done == [w EXCEPT !.r.finished = TRUE] IN
  IF w.r.ending /\ ~w.r.writing /\ w.r.buffer = <<>> /\ ~w.r.finished
  THEN IF w.r.opts.autoClose THEN Close(done) ELSE done
  ELSE w

(***************************************************************************)
(* The application, and node's streams on its behalf.                      *)
(***************************************************************************)
\* The main thread is free; an exception in a callback ends the process.
Idle == ~stuck
Others == UNCHANGED <<answer, fds, file>>

\* The constructors: open, unless the application passes a descriptor, which
\* it opened for this stream before.  start > end throws.
New(s, o) ==
  /\ Idle /\ ~st[s].made
  /\ o.ranged => o.start <= o.end
  /\ LET free == Fds \ DOMAIN fds
         made == [st[s] EXCEPT !.made = TRUE, !.opts = o,
                               !.pos = IF o.ranged THEN o.start ELSE 0] IN
     \/ /\ o.given /\ free # {}
        /\ fds' = (Min(free) :> [owner |-> s, off |-> 0]) @@ fds
        /\ Become([World(s) EXCEPT !.r = [made EXCEPT !.fd = Min(free)]])
     \/ /\ ~o.given /\ UNCHANGED fds
        /\ Become(Submit([World(s) EXCEPT !.r = made], Request(s, "open", NoFd)))
  /\ UNCHANGED <<answer, file>>

Read(s) ==
  /\ Idle /\ st[s].made /\ ~st[s].reading /\ ~st[s].ended
  /\ Become(ReadableRead(World(s)))
  /\ Others

\* 'end' is emitted once the chunks are consumed; its listener destroys.
EmitEnd(s) ==
  /\ Idle /\ st[s].ended /\ ~st[s].finished
  /\ LET w == [World(s) EXCEPT !.r.finished = TRUE] IN
     Become(IF w.r.opts.autoClose THEN Destroy(w) ELSE w)
  /\ Others

\* write: to _write at once, or to the buffer while a write is under way.
Write(s, len) ==
  /\ Idle /\ st[s].made /\ ~st[s].ending /\ st[s].writes < MaxWrites
  /\ LET data == [i \in 1 .. len |-> st[s].written + i]
         w == [World(s) EXCEPT !.r.written = @ + len, !.r.writes = @ + 1] IN
     Become(IF w.r.writing THEN [w EXCEPT !.r.buffer = Append(@, data)]
            ELSE Write_([w EXCEPT !.r.writing = TRUE], data))
  /\ Others

End(s) ==
  /\ Idle /\ st[s].made /\ ~st[s].ending
  /\ Become(FinishMaybe([World(s) EXCEPT !.r.ending = TRUE]))
  /\ Others

UserDestroy(s) ==
  /\ Idle /\ st[s].made /\ ~st[s].destroyed
  /\ Become(Destroy(World(s)))
  /\ Others

UserClose(s) ==
  /\ Idle /\ st[s].made /\ st[s].closes < MaxCloses
  /\ Become(Close([World(s) EXCEPT !.r.closes = @ + 1]))
  /\ Others

(***************************************************************************)
(* The worker thread runs the system call at the head of the queue.        *)
(***************************************************************************)
Pending(op) == ~stuck /\ q # <<>> /\ answer = <<>> /\ Head(q).op = op
Answer(n) == answer' = <<n>>
Error == -1

ServeOpen ==
  /\ Pending("open")
  /\ \/ Answer(Error) /\ UNCHANGED fds
     \/ \E f \in Fds \ DOMAIN fds :
          /\ f = Min(Fds \ DOMAIN fds)
          /\ fds' = (f :> [owner |-> Head(q).s, off |-> 0]) @@ fds
          /\ Answer(f)
  /\ UNCHANGED <<st, q, pool, mem, file, stuck>>

\* pread64 with a position, read(2) without; it may stop short, and stops at
\* the end of the file.  Byte i of the file opened by s is <<s, i>>, from 0.
ServeRead ==
  /\ Pending("read")
  /\ LET c == Head(q)
         open == c.fd \in DOMAIN fds /\ fds[c.fd].owner \in Readers
         ranged == st[c.s].opts.ranged
         off == IF ranged \/ ~open THEN c.pos ELSE fds[c.fd].off
         most == IF off < FileLen THEN Min({c.len, FileLen - off}) ELSE 0 IN
     \/ Answer(Error) /\ UNCHANGED <<st, fds, mem>>
     \/ \E n \in 0 .. most :
          /\ open /\ (n = 0 => most = 0)
          /\ Answer(n)
          /\ fds' = IF ranged THEN fds ELSE [fds EXCEPT ![c.fd].off = @ + n]
          /\ mem' = [mem EXCEPT ![c.no] = [i \in DOMAIN @ |->
               IF i \in c.start + 1 .. c.start + n
               THEN <<fds[c.fd].owner, off + i - c.start - 1>> ELSE @[i]]]
          /\ st' = [st EXCEPT ![c.s].cut = @ \/ n < most]
  /\ UNCHANGED <<q, pool, file, stuck>>

\* pwrite64 or write(2); a hole is filled with zeros.
ServeWrite ==
  /\ Pending("write")
  /\ LET c == Head(q)
         open == c.fd \in DOMAIN fds /\ fds[c.fd].owner \in Writers
         ranged == st[c.s].opts.ranged
         off == IF ranged \/ ~open THEN c.pos ELSE fds[c.fd].off IN
     \/ Answer(Error) /\ UNCHANGED <<st, fds, file>>
     \/ \E n \in 1 .. c.len :
          /\ open
          /\ Answer(n)
          /\ fds' = IF ranged THEN fds ELSE [fds EXCEPT ![c.fd].off = @ + n]
          /\ file' = [file EXCEPT ![fds[c.fd].owner] =
               [i \in 1 .. Max({Len(@), off + n}) |->
                  IF i \in off + 1 .. off + n THEN c.data[i - off]
                  ELSE IF i <= Len(@) THEN @[i] ELSE 0]]
          /\ st' = [st EXCEPT ![c.s].cut = @ \/ n < c.len]
  /\ UNCHANGED <<q, pool, mem, stuck>>

\* close: the descriptor is gone, whatever close reports.
ServeClose ==
  /\ Pending("close")
  /\ fds' = [f \in DOMAIN fds \ {Head(q).fd} |-> fds[f]]
  /\ \E n \in IF Head(q).fd \in DOMAIN fds THEN {0, Error} ELSE {Error} :
       Answer(n)
  /\ UNCHANGED <<st, q, pool, mem, file, stuck>>

(***************************************************************************)
(* The main thread runs the callback of the system call.                   *)
(***************************************************************************)
Answered(op) == ~stuck /\ answer # <<>> /\ Head(q).op = op
Called == LET w == World(Head(q).s) IN [w EXCEPT !.q = Tail(@)]
Done == answer' = <<>> /\ UNCHANGED <<fds, file>>

\* A listener of 'open': a postponed _read, close, _writev or _write.
Listener(fd, w, l) ==
  CASE l.do = "read" -> Read_(w)
    [] l.do = "close" -> CloseFd(w, fd)
    [] l.do = "write" -> Write_(w, l.data)
    [] l.do = "writev" -> Writev_(w)

\* emit('open'): the once-listeners registered so far, in order.
EmitOpen(w, fd) ==
  FoldLeft(LAMBDA x, l : Listener(fd, x, l),
           [w EXCEPT !.r.fd = fd, !.r.onOpen = <<>>], w.r.onOpen)

\* The callbacks of the two open methods; a reader then starts reading.
DeliverOpen ==
  /\ Answered("open")
  /\ LET w == EmitOpen(Called, Head(answer)) IN
     Become(CASE Head(answer) = Error -> Fail(Called)
              [] Head(answer) # Error /\ w.s \in Readers -> ReadableRead(w)
              [] OTHER -> w)
  /\ Done

\* onread.
DeliverRead ==
  /\ Answered("read")
  /\ LET n == Head(answer) IN
     Become(CASE n = Error -> Fail(Called)
              [] n = 0 -> PushNull(Called)
              [] OTHER -> Push(Called, [no |-> Head(q).no, len |-> n,
                                        start |-> Head(q).start]))
  /\ Done

\* The callback of _write, then onwrite of Writable.
DeliverWrite ==
  /\ Answered("write")
  /\ LET n == Head(answer)
         w == [Called EXCEPT !.r.writing = FALSE] IN
     Become(IF n = Error THEN Fail(w)
            ELSE FinishMaybe(ClearBuffer([w EXCEPT !.r.bytes = @ + n])))
  /\ Done

DeliverClose ==
  /\ Answered("close")
  /\ Become(IF Head(answer) = Error THEN EmitError(Called)
            ELSE [Called EXCEPT !.r.shut = @ + 1])
  /\ Done

Quiet == (stuck \/ q = <<>>) /\ UNCHANGED vars

Serve == ServeOpen \/ ServeRead \/ ServeWrite \/ ServeClose
Deliver == DeliverOpen \/ DeliverRead \/ DeliverWrite \/ DeliverClose

Next ==
  \/ \E s \in Readers, o \in ReaderOptions : New(s, o)
  \/ \E s \in Writers, o \in WriterOptions : New(s, o)
  \/ \E s \in Readers : Read(s) \/ EmitEnd(s)
  \/ \E s \in Writers : End(s) \/ \E len \in WriteLens : Write(s, len)
  \/ \E s \in Streams : UserDestroy(s) \/ UserClose(s)
  \/ ServeOpen \/ ServeRead \/ ServeWrite \/ ServeClose
  \/ DeliverOpen \/ DeliverRead \/ DeliverWrite \/ DeliverClose
  \/ Quiet

Spec == Init /\ [][Next]_vars

\* The queue serves what is submitted (Bridge, EveryOpServed), and the
\* consumer of a read stream goes on reading.
FairSpec ==
  /\ Spec /\ WF_vars(Serve) /\ WF_vars(Deliver)
  /\ \A s \in Readers : WF_vars(Read(s)) /\ WF_vars(EmitEnd(s))

(***************************************************************************)
(* Properties.                                                             *)
(***************************************************************************)
\* No stream is closed twice before it is open, be it by close or destroy of the
\* application or by 'finish' (end and then destroy).  Otherwise each of the two
\* listeners of 'open' closes the descriptor, and the second close may hit the
\* same number in use by another stream.
Careful == \A s \in Streams : st[s].early <= 1

\* Every variable has its type, and a read stays inside its pool.
TypeOK ==
  /\ \A s \in Streams :
       /\ st[s].fd \in Fds \cup {NoFd}
       /\ {st[s].pos, st[s].bytes, st[s].written, st[s].shut} \subseteq Nat
       /\ \A i \in DOMAIN st[s].onOpen :
            st[s].onOpen[i].do \in {"read", "close", "write", "writev"}
  /\ \A i \in DOMAIN q :
       /\ q[i].op \in {"open", "read", "write", "close"} /\ q[i].s \in Streams
       /\ q[i].op = "read" =>
            /\ q[i].no \in DOMAIN mem /\ q[i].len > 0
            /\ q[i].start + q[i].len <= Len(mem[q[i].no])
  /\ answer # <<>> => q # <<>> /\ Head(answer) \in Nat \cup {Error}
  /\ DOMAIN fds \subseteq Fds
  /\ pool.used <= pool.length /\ Len(mem) = pool.no
  /\ stuck \in BOOLEAN

Closing(s) ==
  st[s].destroyed \/ st[s].closed \/ st[s].early > 0
    \/ (st[s].opts.autoClose /\ (st[s].failed \/ st[s].finished))

\* Each system call under way names a descriptor that its stream opened and
\* that is still open: although open, read, write and close are asked for in
\* any order, close is submitted last and once.  In turn, the descriptor of a
\* stream that was closed, was destroyed, failed or came to its end has a close
\* under way, or has it among the listeners of the open that is about to
\* return: none leaks.
OwnDescriptor ==
  /\ TypeOK
  /\ Careful =>
       \A i \in DOMAIN q :
         q[i].op # "open" /\ (i = 1 => answer = <<>>) =>
           q[i].fd \in DOMAIN fds /\ fds[q[i].fd].owner = q[i].s
  /\ \A f \in DOMAIN fds :
       LET s == fds[f].owner IN
       Careful /\ Closing(s) /\ ~stuck =>
         \/ \E i \in DOMAIN q : q[i].op = "close" /\ q[i].fd = f
         \/ /\ Answered("open") /\ Head(q).s = s
            /\ \E i \in DOMAIN st[s].onOpen : st[s].onOpen[i].do = "close"

Base(s) == IF st[s].opts.ranged THEN st[s].opts.start ELSE 0

\* The bytes a chunk holds now, in the pool it is a slice of.
Bytes(c) == SubSeq(mem[c.no], c.start + 1, c.start + c.len)
Data(s) == FlattenSeq([i \in DOMAIN st[s].chunks |-> Bytes(st[s].chunks[i])])

\* The chunks a read stream has pushed hold bytes of its own file, of the
\* range asked for, in order and none twice, and keep them, although all read
\* streams share the pool and their reads complete after it was replaced.
ChunksIntact ==
  Careful =>
    \A s \in Readers :
      LET d == Data(s) IN
      \A i \in DOMAIN d :
        /\ d[i][1] = s /\ d[i][2] >= Base(s)
        /\ st[s].opts.ranged => d[i][2] <= st[s].opts.end
        /\ i > 1 => d[i][2] > d[i - 1][2]

\* When a read stream reaches its end it has pushed the whole range, end
\* included, unless a read stopped short of the end of the file.
ReadsWholeRange ==
  \A s \in Readers :
    st[s].ended /\ ~st[s].cut /\ Careful =>
      LET to == Min({FileLen} \cup
                    IF st[s].opts.ranged THEN {st[s].opts.end + 1} ELSE {}) IN
      st[s].bytes = Max({0, to - Base(s)})

\* A write stream whose system calls do all they are asked to has in its file
\* the first bytes the application wrote, in order, from start on; all of them
\* when it emits 'finish'.
WritesInOrder ==
  \A s \in Writers :
    st[s].made /\ ~st[s].cut /\ ~st[s].failed /\ Careful =>
      /\ \A i \in DOMAIN file[s] :
           file[s][i] = IF i > Base(s) THEN i - Base(s) ELSE 0
      /\ st[s].bytes > 0 => Len(file[s]) >= Base(s) + st[s].bytes
      /\ st[s].finished => st[s].bytes = st[s].written

\* 'close' is the last event: after it a stream pushes no chunk, counts no byte
\* and emits no second 'close', although reads and writes were under way when
\* it was destroyed.
CloseIsLast ==
  [][\A s \in Streams :
       st[s].shut > 0 /\ Careful' =>
         /\ st'[s].chunks = st[s].chunks /\ st'[s].bytes = st[s].bytes
         /\ st'[s].shut = st[s].shut]_vars

\* A stream with autoClose whose data is read, or whose writer has ended it,
\* emits 'close' or 'error' in the end: what the example of the README waits
\* for before it unmounts.
EveryStreamCloses ==
  \A s \in Streams :
    (st[s].made /\ st[s].opts.autoClose /\ (s \in Readers \/ st[s].ending))
      ~> (st[s].shut > 0 \/ st[s].failed \/ stuck)
============================================================================
