----------------------------- MODULE FileCalls -----------------------------
(***************************************************************************)
(* The calls of lib/fs.js that take several system calls: readFile,        *)
(* writeFile and appendFile (writeAll), truncate, lchmod, lchown.  Each    *)
(* step submits the next system call to the operation queue, which serves  *)
(* one at a time in order (OpQueue), so the steps of concurrent calls      *)
(* interleave at system call granularity over one descriptor table and one *)
(* file.                                                                   *)
(*                                                                         *)
(* One action per system call: the kernel's answer and the whole callback  *)
(* that handles it.  The callbacks a user descriptor defers with           *)
(* process.nextTick run before anything else can and are part of the step. *)
(* A byte is <<j, i>>, the i-th byte written by call j, or <<App, i>>, a   *)
(* byte the file had at first.                                             *)
(***************************************************************************)
EXTENDS Naturals, Sequences

CONSTANTS
  Jobs,         \* the fs calls made
  App,          \* the application, owner of descriptor UserFd
  UserFd,       \* the descriptor it opened itself
  KindsUsed,    \* the kinds of calls it makes
  Fds,          \* descriptor numbers
  InitLens,     \* lengths the file may have at first
  DataLen,      \* number of bytes a call writes
  BufLen,       \* kReadFileBufferLength
  MaxLength,    \* kMaxLength, the largest Buffer
  SizeMod,      \* 2^32: parseLklStat casts st_size to 32 bits
  StatMayFail   \* whether fstat may report an error

ASSUME JobsAssumption == App \notin Jobs
ASSUME FdsAssumption == Fds \subseteq Nat /\ UserFd \in Fds
ASSUME LengthAssumption ==
  InitLens \subseteq Nat /\ DataLen \in Nat /\ BufLen \in Nat \ {0}
ASSUME WidthAssumption == MaxLength \in Nat /\ SizeMod \in Nat \ {0}

VARIABLES
  content,  \* the file: a sequence of bytes
  fds,      \* owner and offset of each open descriptor
  q,        \* system calls submitted and not served, oldest first
  ctx,      \* per call: ReadFileContext, or the arguments of writeAll
  rets,     \* per call: what its callback was called with, in order
  stuck     \* an exception went through the queue

vars == <<content, fds, q, ctx, rets, stuck>>

Reading == {"readFile", "readFd"}
Writing == {"writeFile", "appendFile", "writeFd", "appendFd"}
\* Those that may write over what the file has.
Overwriting == {"writeFile", "writeFd", "appendFd"}
\* Calls that open a file for a binding that is not implemented (ftruncate,
\* fchmod, fchown).
Unimplemented == {"truncate", "lchmod", "lchown"}
Kinds == Reading \cup Writing \cup Unimplemented
ASSUME KindsAssumption == KindsUsed \subseteq Kinds
IsUserFd(j) == ctx[j].kind \in {"readFd", "writeFd", "appendFd"}

\* A call not made yet.  seen is a history variable: the length of the file
\* when the call was made.
NoCall == [kind |-> "none", fd |-> UserFd, size |-> 0, pos |-> 0,
           err |-> FALSE, buf |-> <<>>, seen |-> 0]

Init ==
  /\ \E n \in InitLens : content = [i \in 1 .. n |-> <<App, i>>]
  /\ fds = [f \in {UserFd} |-> [owner |-> App, off |-> 0]]
  /\ q = <<>>
  /\ ctx = [j \in Jobs |-> NoCall]
  /\ rets = [j \in Jobs |-> <<>>]
  /\ stuck = FALSE

\* A queued system call: what syscall_entry copies for do_syscall.
Request(j, op, fd, len) == [job |-> j, op |-> op, fd |-> fd, len |-> len]

(***************************************************************************)
(* What the callbacks do, as steps that submit requests and call back.     *)
(***************************************************************************)
Submit(requests) == q' = Tail(q) \o requests
Return(j, err, data) ==
  rets' = [rets EXCEPT ![j] = Append(@, [err |-> err, data |-> data])]

\* ReadFileContext.prototype.read, with the size and position in c.
ReadRequest(j, c) ==
  Request(j, "read", c.fd, IF c.size = 0 THEN BufLen ELSE c.size - c.pos)

\* readFileAfterClose: Buffer.concat throws on more than kMaxLength bytes, out of
\* the queue, or for a descriptor of the application out of process.nextTick.
ReadFileAfterClose(j, c, err) ==
  IF ~c.err /\ c.size = 0 /\ Len(c.buf) > MaxLength
  THEN stuck' = ~IsUserFd(j) /\ UNCHANGED rets
  ELSE Return(j, c.err \/ err, IF c.err THEN <<>> ELSE c.buf)
       /\ UNCHANGED stuck

\* ReadFileContext.prototype.close.
Close(j, c) ==
  /\ ctx' = [ctx EXCEPT ![j] = c]
  /\ \/ IsUserFd(j) /\ Submit(<<>>) /\ ReadFileAfterClose(j, c, FALSE)
     \/ /\ ~IsUserFd(j)
        /\ Submit(<<Request(j, "close", c.fd, 0)>>)
        /\ UNCHANGED <<rets, stuck>>

WriteRequest(j, c) == Request(j, "write", c.fd, DataLen - c.pos)

(***************************************************************************)
(* The application makes a call.                                           *)
(***************************************************************************)
Call(j, kind) ==
  /\ ctx[j].kind = "none"
  /\ ctx' = [ctx EXCEPT ![j].kind = kind, ![j].seen = Len(content)]
  /\ q' = Append(q,
       CASE kind = "readFd" -> Request(j, "fstat", UserFd, 0)
         [] kind \in {"writeFd", "appendFd"} -> Request(j, "write", UserFd, DataLen)
         [] OTHER -> Request(j, "open", UserFd, 0))
  /\ UNCHANGED <<content, fds, rets, stuck>>

(***************************************************************************)
(* The system call at the head of the queue is served.                     *)
(***************************************************************************)
Pending(op) == q # <<>> /\ ~stuck /\ Head(q).op = op

Open(f) ==
  /\ fds' = [g \in DOMAIN fds \cup {f} |->
               IF g = f THEN [owner |-> Head(q).job, off |-> 0] ELSE fds[g]]
  /\ content' = IF ctx[Head(q).job].kind = "writeFile" THEN <<>> ELSE content

\* Mutant: the callback is not called when the file cannot be opened.
OpenFailedSilent(j) == Submit(<<>>) /\ UNCHANGED rets

OpenFailed(j) == Submit(<<>>) /\ Return(j, TRUE, <<>>)

\* The kernel gives the lowest descriptor that is free.
LowestFree(f) ==
  /\ f \notin DOMAIN fds
  /\ \A g \in Fds : g < f => g \in DOMAIN fds

\* readFileAfterOpen, writeFd, or the callback of truncate, lchmod or lchown,
\* which throws because its binding is not implemented.
AfterOpen(j, f) ==
  LET c == [ctx[j] EXCEPT !.fd = f] IN
  \/ /\ c.kind \notin Unimplemented
     /\ ctx' = [ctx EXCEPT ![j] = c]
     /\ Submit(<<IF c.kind = "readFile"
                 THEN Request(j, "fstat", c.fd, 0) ELSE WriteRequest(j, c)>>)
     /\ UNCHANGED <<rets, stuck>>
  \/ /\ c.kind \in Unimplemented
     /\ Submit(<<>>) /\ stuck' = TRUE
     /\ UNCHANGED <<ctx, rets>>

\* openat and its callback.
ServeOpen ==
  /\ Pending("open")
  /\ \/ OpenFailed(Head(q).job) /\ UNCHANGED <<content, fds, ctx, stuck>>
     \/ \E f \in Fds : LowestFree(f) /\ Open(f) /\ AfterOpen(Head(q).job, f)

\* readFileAfterStat, with st.size as the 32-bit integer parseLklStat makes.
ReadFileAfterStat(j, size) ==
  LET c == [ctx[j] EXCEPT !.size = size] IN
  \/ size > MaxLength /\ Close(j, [c EXCEPT !.err = TRUE])
  \/ /\ size <= MaxLength
     /\ ctx' = [ctx EXCEPT ![j] = c]
     /\ Submit(<<ReadRequest(j, c)>>)
     /\ UNCHANGED <<rets, stuck>>

\* fstat of binding.js on an error: the callback runs with the error, and then
\* again with the Stats of a buffer of zeros, which is no regular file.
FstatError(j) ==
  LET c == [ctx[j] EXCEPT !.err = TRUE, !.size = 0, !.buf = <<>>] IN
  /\ ctx' = [ctx EXCEPT ![j] = c]
  /\ \/ /\ IsUserFd(j)
        /\ Submit(<<ReadRequest(j, c)>>) /\ Return(j, TRUE, <<>>)
     \/ /\ ~IsUserFd(j)
        /\ Submit(<<Request(j, "close", c.fd, 0), ReadRequest(j, c)>>)
        /\ UNCHANGED rets
  /\ UNCHANGED stuck

ServeFstat ==
  /\ Pending("fstat")
  /\ \/ ReadFileAfterStat(Head(q).job, Len(content) % SizeMod)
     \/ StatMayFail /\ FstatError(Head(q).job)
  /\ UNCHANGED <<content, fds>>

\* Mutant: a short read ends the file.
ReadFileAfterReadShort(j, n, bytes) ==
  LET c == [ctx[j] EXCEPT !.pos = @ + n, !.buf = @ \o bytes] IN
  Close(j, [c EXCEPT !.err = FALSE])

\* Mutant: no return after an error.
ReadFileAfterReadNoReturn(j, n, bytes) ==
  LET c == [ctx[j] EXCEPT !.pos = @ + n, !.buf = @ \o bytes] IN
  /\ ctx' = [ctx EXCEPT ![j] = c]
  /\ Submit(<<Request(j, "close", c.fd, 0), ReadRequest(j, c)>>)
  /\ UNCHANGED <<rets, stuck>>

\* readFileAfterRead: n bytes, at the end of what was read so far.
ReadFileAfterRead(j, n, bytes) ==
  LET c == [ctx[j] EXCEPT !.pos = @ + n, !.buf = @ \o bytes] IN
  \/ /\ n = 0 \/ (c.size # 0 /\ c.pos = c.size)
     /\ Close(j, [c EXCEPT !.err = FALSE])
  \/ /\ n # 0 /\ (c.size # 0 => c.pos # c.size)
     /\ ctx' = [ctx EXCEPT ![j] = c]
     /\ Submit(<<ReadRequest(j, c)>>)
     /\ UNCHANGED <<rets, stuck>>

\* read(2) at the descriptor's offset: short reads happen, 0 is the end.
ServeRead ==
  /\ Pending("read")
  /\ LET j == Head(q).job
         f == Head(q).fd IN
     \/ /\ f \in DOMAIN fds
        /\ LET off == fds[f].off
               avail == IF Len(content) > off THEN Len(content) - off ELSE 0
               most == IF avail < Head(q).len THEN avail ELSE Head(q).len IN
           \E n \in 0 .. most :
             /\ n = 0 => most = 0
             /\ fds' = [fds EXCEPT ![f].off = off + n]
             /\ ReadFileAfterRead(j, n, SubSeq(content, off + 1, off + n))
     \/ Close(j, [ctx[j] EXCEPT !.err = TRUE]) /\ UNCHANGED fds
  /\ UNCHANGED content

\* n bytes of call j, from its byte c.pos + 1 on, at offset off of the file.
Written(j, n, off) ==
  [i \in 1 .. IF Len(content) <= off + n THEN off + n ELSE Len(content) |->
     IF off < i /\ i <= off + n THEN <<j, ctx[j].pos + i - off>>
     ELSE IF i <= Len(content) THEN content[i] ELSE <<App, 0>>]

\* Mutant: a short write counts as the whole.
WriteAllIgnoresShort(j, n) ==
  /\ ctx' = [ctx EXCEPT ![j].pos = DataLen]
  /\ \/ IsUserFd(j) /\ Submit(<<>>) /\ Return(j, FALSE, <<>>)
     \/ /\ ~IsUserFd(j)
        /\ Submit(<<Request(j, "close", ctx[j].fd, 0)>>) /\ UNCHANGED rets

\* writeAll's callback without an error: done, or the rest is written.
WriteAll(j, n) ==
  LET c == [ctx[j] EXCEPT !.pos = @ + n] IN
  /\ ctx' = [ctx EXCEPT ![j] = c]
  /\ \/ c.pos = DataLen /\ IsUserFd(j) /\ Submit(<<>>) /\ Return(j, FALSE, <<>>)
     \/ /\ c.pos = DataLen /\ ~IsUserFd(j)
        /\ Submit(<<Request(j, "close", c.fd, 0)>>) /\ UNCHANGED rets
     \/ c.pos # DataLen /\ Submit(<<WriteRequest(j, c)>>) /\ UNCHANGED rets

\* Mutant: the descriptor is not closed after an error.
WriteErrNoClose(j) ==
  /\ Submit(<<>>) /\ Return(j, TRUE, <<>>) /\ UNCHANGED ctx

\* writeAll's callback with an error.
WriteErr(j) ==
  \/ IsUserFd(j) /\ Submit(<<>>) /\ Return(j, TRUE, <<>>) /\ UNCHANGED ctx
  \/ /\ ~IsUserFd(j)
     /\ Submit(<<Request(j, "close", ctx[j].fd, 0)>>)
     /\ ctx' = [ctx EXCEPT ![j].err = TRUE]
     /\ UNCHANGED rets

\* pwrite64 at writeAll's position; or write(2), which appends to a file opened
\* with O_APPEND and otherwise goes by the offset of the descriptor.
Offset(j) ==
  IF ctx[j].kind = "appendFile" THEN Len(content)
  ELSE IF ctx[j].kind = "appendFd" THEN fds[UserFd].off ELSE ctx[j].pos

ServeWrite ==
  /\ Pending("write")
  /\ LET j == Head(q).job IN
     \/ \E n \in 0 .. Head(q).len :
          /\ n = 0 => Head(q).len = 0
          /\ content' = Written(j, n, Offset(j))
          /\ fds' = IF ctx[j].kind = "appendFd"
                    THEN [fds EXCEPT ![UserFd].off = Offset(j) + n] ELSE fds
          /\ WriteAll(j, n)
     \/ WriteErr(j) /\ UNCHANGED <<content, fds>>
  /\ UNCHANGED stuck

\* close: the descriptor is gone, whatever close reports.
ServeClose ==
  /\ Pending("close")
  /\ LET j == Head(q).job
         f == Head(q).fd IN
     /\ fds' = [g \in DOMAIN fds \ {f} |-> fds[g]]
     /\ Submit(<<>>)
     /\ \E err \in IF f \in DOMAIN fds THEN BOOLEAN ELSE {TRUE} :
          \/ ctx[j].kind \in Reading /\ ReadFileAfterClose(j, ctx[j], err)
          \/ /\ ctx[j].kind \in Writing
             /\ Return(j, err \/ ctx[j].err, <<>>) /\ UNCHANGED stuck
  /\ UNCHANGED <<content, ctx>>

\* Every call made has been served, or nothing will be any more.
Quiet == (q = <<>> \/ stuck) /\ UNCHANGED vars

Serve == ServeOpen \/ ServeFstat \/ ServeRead \/ ServeWrite \/ ServeClose

Next ==
  \/ \E j \in Jobs, kind \in KindsUsed : Call(j, kind)
  \/ ServeOpen \/ ServeFstat \/ ServeRead \/ ServeWrite \/ ServeClose
  \/ Quiet

Spec == Init /\ [][Next]_vars

\* The operation queue serves what was submitted (Bridge, EveryOpServed).
FairSpec == Spec /\ WF_vars(Serve)

(***************************************************************************)
(* Properties.                                                             *)
(***************************************************************************)
Ops == {"open", "fstat", "read", "write", "close"}
Bytes == (Jobs \cup {App}) \X Nat

\* Every variable has its type, and readFile stays inside the Buffer of the
\* size it allocated.
TypeOK ==
  /\ content \in Seq(Bytes)
  /\ DOMAIN fds \subseteq Fds
  /\ \A f \in DOMAIN fds : fds[f] \in [owner : Jobs \cup {App}, off : Nat]
  /\ q \in Seq([job : Jobs, op : Ops, fd : Fds, len : Nat])
  /\ ctx \in [Jobs -> [kind : Kinds \cup {"none"}, fd : Fds, size : Nat,
                       pos : Nat, err : BOOLEAN, buf : Seq(Bytes), seen : Nat]]
  /\ \A j \in Jobs : ctx[j].size # 0 => ctx[j].pos <= ctx[j].size
  /\ rets \in [Jobs -> Seq([err : BOOLEAN, data : Seq(Bytes)])]
  /\ stuck \in BOOLEAN

\* A call calls back at most once, and has nothing under way afterwards: the
\* contract of node's fs, which readFile and writeFile rely on binding.js for.
CallbackOnce ==
  \A j \in Jobs :
    /\ Len(rets[j]) <= 1
    /\ rets[j] # <<>> => \A i \in DOMAIN q : q[i].job # j

\* Each submitted system call names a descriptor that is still open and that
\* the call opened itself, or that the application passed to it; only the
\* former are ever closed.  Numbers are reused as soon as they are free, so a
\* late or repeated close would hit the file of another call.  In turn, a
\* descriptor that a call opened has that call still working on it, whatever
\* failed on the way (unless an exception stopped the queue), and the
\* application's own descriptor stays open: nothing leaks.
OwnDescriptor ==
  /\ TypeOK
  /\ \A i \in DOMAIN q :
       q[i].op # "open" =>
         /\ q[i].fd \in DOMAIN fds
         /\ \/ fds[q[i].fd].owner = q[i].job
            \/ IsUserFd(q[i].job) /\ q[i].fd = UserFd /\ q[i].op # "close"
  /\ UserFd \in DOMAIN fds /\ fds[UserFd].owner = App
  /\ \A f \in DOMAIN fds \ {UserFd} :
       stuck \/ \E i \in DOMAIN q : q[i].fd = f /\ q[i].job = fds[f].owner

Made(kinds) == {j \in Jobs : ctx[j].kind \in kinds}
Last(s) == s[Len(s)]
Succeeded(j) == rets[j] # <<>> /\ ~Last(rets[j]).err

\* b is how the file begins.
IsPrefix(b) == Len(b) <= Len(content) /\ b = SubSeq(content, 1, Len(b))

\* As long as calls only append, by path, a successful readFile returns a prefix of the
\* file that has all the bytes of when the call was made, although the file
\* grows between fstat and the reads and reads come back short.  Files whose
\* size does not fit in 32 bits are excepted.
ReadSnapshot ==
  Made(Overwriting) = {} =>
    \A j \in Made({"readFile"}) :
      Succeeded(j) =>
        /\ IsPrefix(Last(rets[j]).data)
        /\ Len(content) < SizeMod => Len(Last(rets[j]).data) >= ctx[j].seen

\* The bytes of call j that the file has are its data, in order and once.
HasData(j) ==
  LET mine == {p \in DOMAIN content : content[p][1] = j} IN
  /\ {content[p] : p \in mine} = {<<j, i>> : i \in 1 .. DataLen}
  /\ \A p, r \in mine : p < r => content[p][2] < content[r][2]

\* What a successful appendFile wrote is in the file, in order and once, next
\* to other appends; what a successful writeFile wrote, alone, is the file.
WritesComplete ==
  \A j \in Made({"appendFile", "writeFile"}) :
    Succeeded(j) =>
      /\ Made(Overwriting) = {} => HasData(j)
      /\ Made(Writing) = {j} /\ ctx[j].kind = "writeFile" =>
           content = [i \in 1 .. DataLen |-> <<j, i>>]

\* "File size is greater than possible Buffer": a file larger than kMaxLength
\* is never read successfully by readFile.
BigFileRejected ==
  \A j \in Made({"readFile"}) : Succeeded(j) => ctx[j].seen <= MaxLength

\* Every call calls back in the end, unless an exception stopped the queue, or
\* what it read is larger than a Buffer and readFileAfterClose throws.
EveryCallReturns ==
  \A j \in Jobs : ctx[j].kind # "none" ~>
              (rets[j] # <<>> \/ stuck \/ Len(ctx[j].buf) > MaxLength)
============================================================================
