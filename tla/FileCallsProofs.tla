------------------------- MODULE FileCallsProofs -------------------------
(***************************************************************************)
(* Proofs about FileCalls, for any number of calls, descriptors, file      *)
(* lengths and buffer sizes, as long as fstat reports no error (binding.js *)
(* then calls back twice: the run files_fstat_error shows).                *)
(*                                                                         *)
(* The properties are not inductive: they speak of what was returned and   *)
(* of descriptors.  What is missing is the control of a call, that it has  *)
(* at most one request under way and which (RequestInv), and what its      *)
(* buffer and the file hold at that point (ReadInv, AppendInv, WriteInv).  *)
(***************************************************************************)
EXTENDS FileCalls, TLAPS

Ctxs == [kind : Kinds \cup {"none"}, fd : Fds, size : Nat, pos : Nat,
         err : BOOLEAN, buf : Seq(Bytes), seen : Nat]
Requests == [job : Jobs, op : Ops, fd : Fds, len : Nat]
Results == [err : BOOLEAN, data : Seq(Bytes)]

\* What a request r under way says of its call's context c and of the
\* descriptors d: where in readFile, writeAll or close the call is.
RequestOK(r, c, d) ==
  /\ r.op = "open" =>
       /\ c.kind \in Kinds \ {"readFd", "writeFd", "appendFd"} /\ r.fd = UserFd
       /\ c.size = 0 /\ c.pos = 0 /\ c.buf = <<>> /\ ~c.err
  /\ r.op # "open" =>
       /\ r.fd = c.fd /\ r.fd \in DOMAIN d
       /\ IF c.kind \in {"readFd", "writeFd", "appendFd"}
            THEN r.fd = UserFd /\ r.op # "close"
            ELSE d[r.fd].owner = r.job
  /\ r.op \in {"fstat", "read"} => c.kind \in Reading
  /\ r.op = "fstat" => c.size = 0 /\ c.pos = 0 /\ c.buf = <<>>
  /\ r.op = "read" =>
       /\ r.len = IF c.size = 0 THEN BufLen ELSE c.size - c.pos
       /\ c.size # 0 => c.pos < c.size
  /\ r.op = "write" =>
       /\ c.kind \in Writing /\ c.size = 0 /\ ~c.err
       /\ c.pos <= DataLen /\ r.len = DataLen - c.pos
  /\ r.op = "close" =>
       /\ c.kind \in Reading \cup Writing
       /\ c.kind \in Writing => c.err \/ c.pos = DataLen

\* A call has one request under way at most, and none before it is made.
RequestInv ==
  /\ \A i, k \in DOMAIN q : q[i].job = q[k].job => i = k
  /\ \A i \in DOMAIN q : RequestOK(q[i], ctx[q[i].job], fds)
  /\ \A j \in Jobs : ctx[j].kind = "none" => ctx[j] = NoCall /\ rets[j] = <<>>
  /\ \A j \in Jobs : ctx[j].kind \in Writing /\ Succeeded(j) => ctx[j].pos = DataLen

Control == CallbackOnce /\ OwnDescriptor /\ RequestInv

AppendOnly == Made(Overwriting) = {}

\* b is how the file s begins.
Begins(b, s) == Len(b) <= Len(s) /\ \A i \in 1 .. Len(b) : b[i] = s[i]

\* b has what a read of the file s must have, for the context c of the call.
Whole(b, c, s) == Begins(b, s) /\ (Len(s) < SizeMod => Len(b) >= c.seen)

\* What the buffer of a readFile holds while its request r is under way.
ReadOK(r, c, d, s) ==
  /\ r.op = "fstat" => d[r.fd].off = 0
  /\ r.op = "read" =>
       /\ c.pos = Len(c.buf) /\ d[r.fd].off = c.pos /\ Begins(c.buf, s)
       /\ c.size # 0 /\ Len(s) < SizeMod => c.size >= c.seen
  /\ r.op = "close" => c.err \/ Whole(c.buf, c, s)

ReadInv ==
  AppendOnly =>
    /\ \A j \in Jobs : ctx[j].seen <= Len(content)
    /\ \A i \in DOMAIN q :
         ctx[q[i].job].kind = "readFile" =>
           ReadOK(q[i], ctx[q[i].job], fds, content)
    /\ \A j \in Made({"readFile"}) :
         Succeeded(j) => Whole(Last(rets[j]).data, ctx[j], content)

\* The bytes of call j in the file s are its first n, in order and once each.
HasBytes(j, n, s) ==
  /\ \A p \in DOMAIN s : s[p][1] = j => s[p][2] \in 1 .. n
  /\ \A i \in 1 .. n : \E p \in DOMAIN s : s[p] = <<j, i>>
  /\ \A p, r \in DOMAIN s :
       s[p][1] = j /\ s[r][1] = j /\ p < r => s[p][2] < s[r][2]

AppendInv ==
  AppendOnly =>
    \A j \in Jobs :
      HasBytes(j, IF ctx[j].kind = "appendFile" THEN ctx[j].pos ELSE 0, content)

\* The only call that writes, a writeFile, has written the first bytes of its
\* data and nothing else.
Alone(j) == Made(Writing) = {j} /\ ctx[j].kind = "writeFile"
Data(j, n) == [i \in 1 .. n |-> <<j, i>>]

WriteInv ==
  \A j \in Jobs : Alone(j) =>
    /\ \A i \in DOMAIN q :
         q[i].job = j /\ q[i].op # "open" => content = Data(j, ctx[j].pos)
    /\ Succeeded(j) => content = Data(j, ctx[j].pos)

IInv == Control /\ ReadInv /\ AppendInv /\ WriteInv


-----------------------------------------------------------------------------
\* The head of the queue is served and nothing follows it.
LEMMA QueueDone ==
  ASSUME q \in Seq(Requests), q # <<>>, Submit(<<>>)
  PROVE  /\ q' \in Seq(Requests) /\ Len(q') = Len(q) - 1
         /\ \A i \in 1 .. Len(q) - 1 : q'[i] = q[i + 1]
BY DEF Submit

\* The head of the queue is served and r is submitted.
LEMMA QueueMore ==
  ASSUME q \in Seq(Requests), q # <<>>, NEW r \in Requests, Submit(<<r>>)
  PROVE  /\ q' \in Seq(Requests) /\ Len(q') = Len(q) /\ q'[Len(q)] = r
         /\ \A i \in 1 .. Len(q) - 1 : q'[i] = q[i + 1]
BY DEF Submit


\* From d to e only descriptors of call j come, go or change hands.
OthersKept(j, d, e) ==
  /\ DOMAIN e \subseteq Fds
  /\ \A f \in DOMAIN e : e[f] \in [owner : Jobs \cup {App}, off : Nat]
  /\ \A f \in DOMAIN d : d[f].owner # j => f \in DOMAIN e /\ e[f].owner = d[f].owner
  /\ \A f \in DOMAIN e : e[f].owner # j => f \in DOMAIN d /\ e[f].owner = d[f].owner

\* What every callback of call j, whose request is served, has in common: it
\* changes its own context only, and keeps the kind of the call.
OwnStep(j, c) ==
  /\ q # <<>> /\ ~stuck /\ Head(q).job = j /\ j \in Jobs
  /\ c \in Ctxs /\ c.kind = ctx[j].kind /\ c.seen = ctx[j].seen
  /\ c.size # 0 => c.pos <= c.size
  /\ ctx' = [ctx EXCEPT ![j] = c]
  /\ content' \in Seq(Bytes) /\ OthersKept(j, fds, fds')

\* Call j calls back with res, or not at all.
Answers(j, res) == rets' \in {rets, [rets EXCEPT ![j] = Append(@, res)]}

\* The types, with the sets named.
LEMMA Types ==
  ASSUME Control
  PROVE  /\ q \in Seq(Requests) /\ ctx \in [Jobs -> Ctxs]
         /\ rets \in [Jobs -> Seq(Results)] /\ content \in Seq(Bytes)
BY Zenon DEF Control, OwnDescriptor, TypeOK, Requests, Ctxs, Results

\* The request served is the only one of its call.
LEMMA HeadRequest ==
  ASSUME Control, q # <<>>
  PROVE  /\ Head(q) = q[1] /\ Head(q) \in Requests /\ Len(q) \in Nat \ {0}
         /\ DOMAIN q = 1 .. Len(q)
         /\ Head(q).job \in Jobs /\ Head(q).op \in Ops /\ Head(q).fd \in Fds
         /\ Head(q).len \in Nat /\ Head(q).job # App
         /\ ctx[Head(q).job] \in Ctxs /\ ctx[Head(q).job].kind \in Kinds
         /\ rets[Head(q).job] = <<>>
         /\ RequestOK(Head(q), ctx[Head(q).job], fds)
         /\ \A i \in 2 .. Len(q) : q[i].job # Head(q).job
<1>1. q \in Seq(Requests) /\ ctx \in [Jobs -> Ctxs]
  BY Zenon, Types
<1>2. /\ Head(q) = q[1] /\ Len(q) \in Nat \ {0} /\ DOMAIN q = 1 .. Len(q)
      /\ q[1] \in Requests
  BY <1>1
<1>3. /\ q[1].job \in Jobs /\ q[1].op \in Ops /\ q[1].fd \in Fds /\ q[1].len \in Nat
      /\ q[1].job # App
  BY Zenon, <1>2, JobsAssumption DEF Requests
<1>4. 1 \in DOMAIN q /\ \A i \in 2 .. Len(q) : i \in DOMAIN q /\ i # 1
  BY <1>2
<1>5. RequestOK(q[1], ctx[q[1].job], fds)
  BY Zenon, <1>4 DEF Control, RequestInv
<1>6. \A i \in 2 .. Len(q) : q[i].job # q[1].job
  BY Zenon, <1>4 DEF Control, RequestInv
<1>7. rets[q[1].job] = <<>>
  BY Zenon, <1>3, <1>4 DEF Control, CallbackOnce
<1>8. ctx[q[1].job] \in Ctxs
  BY Zenon, <1>1, <1>3
<1>9. ctx[q[1].job].kind \in Kinds
  BY Zenon, <1>3, <1>5 DEF RequestOK, Ops, Kinds, Reading, Writing
<1> QED BY Zenon, <1>2, <1>3, <1>5, <1>6, <1>7, <1>8, <1>9

\* The requests of the other calls are as they were.
LEMMA OtherRequests ==
  ASSUME Control, NEW j, NEW c, OwnStep(j, c),
         NEW i \in 2 .. Len(q)
  PROVE  /\ RequestOK(q[i], ctx'[q[i].job], fds') /\ q[i].job # j
         /\ ctx'[q[i].job] = ctx[q[i].job]
<1>1. /\ i \in DOMAIN q /\ q[i].job \in Jobs /\ q[i].job # j /\ j # App
      /\ RequestOK(q[i], ctx[q[i].job], fds)
  <2>1. /\ q # <<>> /\ Head(q).job = j /\ DOMAIN q = 1 .. Len(q) /\ j # App
        /\ Len(q) \in Nat
    BY Zenon, HeadRequest DEF OwnStep
  <2>2. i \in DOMAIN q /\ q[i].job # j
    BY <2>1, HeadRequest
  <2>3. q[i] \in Requests
    BY <2>2, Types
  <2> QED BY Zenon, <2>1, <2>2, <2>3 DEF Control, RequestInv, Requests
<1>2. ctx'[q[i].job] = ctx[q[i].job]
  BY Zenon, <1>1 DEF OwnStep, Control, OwnDescriptor, TypeOK
<1>3. UserFd \in DOMAIN fds' /\ fds'[UserFd].owner = App
  BY Zenon, <1>1 DEF OwnStep, OthersKept, Control, OwnDescriptor
<1>4. RequestOK(q[i], ctx[q[i].job], fds')
  BY Zenon, <1>1, <1>3 DEF RequestOK, OwnStep, OthersKept
<1> QED BY Zenon, <1>1, <1>2, <1>4

\* The call is over: it calls back, or its exception stops the queue.
LEMMA CallDone ==
  ASSUME Control, NEW j, NEW c, OwnStep(j, c), Submit(<<>>),
         NEW res \in Results, Answers(j, res),
         stuck' \in BOOLEAN, \A f \in DOMAIN fds' : fds'[f].owner = j => stuck',
         c.kind \in Writing /\ ~res.err => c.pos = DataLen
  PROVE  Control'
<1>1. /\ j \in Jobs /\ j # App /\ rets[j] = <<>> /\ ctx[j].kind \in Kinds
      /\ Len(q) \in Nat \ {0} /\ DOMAIN q = 1 .. Len(q) /\ q[1].job = j
      /\ q \in Seq(Requests)
  BY Zenon, HeadRequest DEF OwnStep, Control, OwnDescriptor, TypeOK, Requests
<1>2. /\ q' \in Seq(Requests) /\ Len(q') = Len(q) - 1
      /\ \A i \in 1 .. Len(q) - 1 : q'[i] = q[i + 1]
  BY Zenon, <1>1, QueueDone DEF OwnStep
<1>3. DOMAIN q' = 1 .. Len(q) - 1
  BY <1>1, <1>2
<1>4. \A i \in DOMAIN q' : /\ i + 1 \in 2 .. Len(q) /\ q'[i] = q[i + 1] /\ q'[i].job # j
                           /\ RequestOK(q'[i], ctx'[q'[i].job], fds')
  BY <1>1, <1>2, <1>3, OtherRequests
<1>5. /\ ctx' \in [Jobs -> Ctxs] /\ ctx'[j] = c
      /\ \A k \in Jobs \ {j} : ctx'[k] = ctx[k]
  BY <1>1 DEF OwnStep, Control, OwnDescriptor, TypeOK, Ctxs
<1>6. /\ rets' \in [Jobs -> Seq(Results)] /\ rets'[j] \in {<<>>, <<res>>}
      /\ \A k \in Jobs \ {j} : rets'[k] = rets[k]
  <2>1. rets \in [Jobs -> Seq(Results)] /\ <<res>> \in Seq(Results)
    BY Types
  <2>2. Append(rets[j], res) = <<res>>
    BY <1>1
  <2>3. rets' \in {rets, [rets EXCEPT ![j] = <<res>>]}
    BY Zenon, <2>2 DEF Answers
  <2>4. CASE rets' = rets
    BY Zenon, <1>1, <2>1, <2>4
  <2>5. CASE rets' = [rets EXCEPT ![j] = <<res>>]
    BY Zenon, <1>1, <2>1, <2>5
  <2> QED BY Zenon, <2>3, <2>4, <2>5
<1>7. TypeOK'
  BY Zenon, <1>2, <1>5, <1>6 DEF OwnStep, OthersKept, Control, OwnDescriptor, TypeOK,
     Ctxs, Requests, Results
<1>8. CallbackOnce'
  <2>1. Len(rets'[j]) <= 1
    <3>1. CASE rets'[j] = <<>>
      BY <3>1
    <3>2. CASE rets'[j] = <<res>>
      BY <3>2
    <3> QED BY Zenon, <1>6, <3>1, <3>2
  <2>2. \A k \in Jobs \ {j} : Len(rets'[k]) <= 1
    BY Zenon, <1>6 DEF Control, CallbackOnce
  <2>3. \A k \in Jobs \ {j} : rets'[k] # <<>> => \A i \in DOMAIN q' : q'[i].job # k
    BY <1>1, <1>4, <1>6 DEF Control, CallbackOnce
  <2> QED BY Zenon, <1>4, <2>1, <2>2, <2>3 DEF CallbackOnce
<1>9. OwnDescriptor'
  <2>1. UserFd \in DOMAIN fds' /\ fds'[UserFd].owner = App
    BY Zenon, <1>1 DEF OwnStep, OthersKept, Control, OwnDescriptor
  <2>2. \A i \in DOMAIN q' : q'[i].op # "open" =>
          /\ q'[i].fd \in DOMAIN fds'
          /\ \/ fds'[q'[i].fd].owner = q'[i].job
             \/ ctx'[q'[i].job].kind \in {"readFd", "writeFd", "appendFd"} /\ q'[i].fd = UserFd
                /\ q'[i].op # "close"
    BY Zenon, <1>4 DEF RequestOK
  <2>3. ASSUME NEW f \in DOMAIN fds' \ {UserFd}, fds'[f].owner # j
        PROVE  \E i \in DOMAIN q' : q'[i].fd = f /\ q'[i].job = fds'[f].owner
    <3>1. f \in DOMAIN fds /\ fds'[f].owner = fds[f].owner
      BY Zenon, <2>3 DEF OwnStep, OthersKept
    <3>2. PICK k \in DOMAIN q : q[k].fd = f /\ q[k].job = fds[f].owner
      BY Zenon, <2>3, <3>1 DEF OwnStep, Control, OwnDescriptor
    <3>3. k # 1
      BY Zenon, <1>1, <2>3, <3>1, <3>2
    <3>4. k - 1 \in DOMAIN q' /\ q'[k - 1] = q[k]
      BY <1>1, <1>2, <1>3, <3>3
    <3> QED BY Zenon, <3>1, <3>2, <3>4
  <2> QED BY Zenon, <1>7, <2>1, <2>2, <2>3 DEF OwnDescriptor, IsUserFd
<1>10. RequestInv'
  <2>1. \A i, k \in DOMAIN q' : q'[i].job = q'[k].job => i = k
    BY <1>1, <1>3, <1>4 DEF Control, RequestInv
  <2>2. \A k \in Jobs : ctx'[k].kind = "none" => ctx'[k] = NoCall /\ rets'[k] = <<>>
    <3>1. ctx'[j].kind # "none"
      BY Zenon, <1>1, <1>5 DEF OwnStep, Kinds, Reading, Writing, Unimplemented
    <3> QED BY Zenon, <1>5, <1>6, <3>1 DEF Control, RequestInv
  <2>3. \A k \in Jobs : ctx'[k].kind \in Writing /\ rets'[k] # <<>> /\ ~Last(rets'[k]).err
                        => ctx'[k].pos = DataLen
    BY <1>5, <1>6 DEF Control, RequestInv, Succeeded, Last
  <2> QED BY Zenon, <1>4, <2>1, <2>2, <2>3 DEF RequestInv, Succeeded
<1> QED BY Zenon, <1>8, <1>9, <1>10 DEF Control


\* The call goes on with request r, on the only descriptor it has.
LEMMA CallMore ==
  ASSUME Control, NEW j, NEW c, OwnStep(j, c), NEW r \in Requests, Submit(<<r>>),
         UNCHANGED <<rets, stuck>>, r.job = j, RequestOK(r, c, fds'),
         \A f \in DOMAIN fds' : fds'[f].owner = j => r.fd = f
  PROVE  Control'
<1>1. /\ j \in Jobs /\ j # App /\ rets[j] = <<>> /\ ctx[j].kind \in Kinds
      /\ Len(q) \in Nat \ {0} /\ DOMAIN q = 1 .. Len(q) /\ q[1].job = j
      /\ q \in Seq(Requests)
  BY Zenon, HeadRequest, Types DEF OwnStep
<1>2. /\ q' \in Seq(Requests) /\ Len(q') = Len(q) /\ q'[Len(q)] = r
      /\ \A i \in 1 .. Len(q) - 1 : q'[i] = q[i + 1]
  BY Zenon, <1>1, QueueMore DEF OwnStep
<1>3. DOMAIN q' = 1 .. Len(q)
  BY <1>1, <1>2
<1>4. \A i \in 1 .. Len(q) - 1 :
        /\ i + 1 \in 2 .. Len(q) /\ q'[i] = q[i + 1] /\ q'[i].job # j
        /\ RequestOK(q'[i], ctx'[q'[i].job], fds')
  BY <1>1, <1>2, OtherRequests
<1>5. /\ ctx' \in [Jobs -> Ctxs] /\ ctx'[j] = c
      /\ \A k \in Jobs \ {j} : ctx'[k] = ctx[k]
  BY Zenon, <1>1, Types DEF OwnStep
<1>6. \A i \in DOMAIN q' : RequestOK(q'[i], ctx'[q'[i].job], fds')
  <2>1. RequestOK(q'[Len(q)], ctx'[q'[Len(q)].job], fds')
    BY Zenon, <1>2, <1>5
  <2> QED BY <1>1, <1>3, <1>4, <2>1
<1>7. TypeOK'
  BY Zenon, <1>2, <1>5, Types DEF OwnStep, OthersKept, Control, OwnDescriptor, TypeOK,
     Ctxs, Requests
<1>8. CallbackOnce'
  <2>1. \A k \in Jobs : Len(rets'[k]) <= 1
    BY Zenon DEF Control, CallbackOnce
  <2>2. ASSUME NEW k \in Jobs, rets'[k] # <<>>, NEW i \in DOMAIN q' PROVE q'[i].job # k
    <3>1. CASE i = Len(q)
      BY Zenon, <1>1, <1>2, <2>2, <3>1
    <3>2. CASE i \in 1 .. Len(q) - 1
      BY <1>1, <1>4, <2>2, <3>2 DEF Control, CallbackOnce
    <3> QED BY <1>1, <1>3, <2>2, <3>1, <3>2
  <2> QED BY Zenon, <2>1, <2>2 DEF CallbackOnce
<1>9. OwnDescriptor'
  <2>1. UserFd \in DOMAIN fds' /\ fds'[UserFd].owner = App
    BY Zenon, <1>1 DEF OwnStep, OthersKept, Control, OwnDescriptor
  <2>2. \A i \in DOMAIN q' : q'[i].op # "open" =>
          /\ q'[i].fd \in DOMAIN fds'
          /\ \/ fds'[q'[i].fd].owner = q'[i].job
             \/ ctx'[q'[i].job].kind \in {"readFd", "writeFd", "appendFd"} /\ q'[i].fd = UserFd
                /\ q'[i].op # "close"
    BY Zenon, <1>6 DEF RequestOK
  <2>3. ASSUME NEW f \in DOMAIN fds' \ {UserFd}, fds'[f].owner # j
        PROVE  \E i \in DOMAIN q' : q'[i].fd = f /\ q'[i].job = fds'[f].owner
    <3>1. f \in DOMAIN fds /\ fds'[f].owner = fds[f].owner
      BY Zenon, <2>3 DEF OwnStep, OthersKept
    <3>2. PICK k \in DOMAIN q : q[k].fd = f /\ q[k].job = fds[f].owner
      BY Zenon, <2>3, <3>1 DEF OwnStep, Control, OwnDescriptor
    <3>3. k # 1
      BY Zenon, <1>1, <2>3, <3>1, <3>2
    <3>4. k - 1 \in DOMAIN q' /\ q'[k - 1] = q[k]
      BY <1>1, <1>2, <1>3, <3>3
    <3> QED BY Zenon, <3>1, <3>2, <3>4
  <2>4. ASSUME NEW f \in DOMAIN fds' \ {UserFd}, fds'[f].owner = j
        PROVE  \E i \in DOMAIN q' : q'[i].fd = f /\ q'[i].job = fds'[f].owner
    <3>1. Len(q) \in DOMAIN q'
      BY <1>1, <1>3
    <3> QED BY Zenon, <1>2, <2>4, <3>1
  <2> QED BY Zenon, <1>7, <2>1, <2>2, <2>3, <2>4 DEF OwnDescriptor, IsUserFd
<1>10. RequestInv'
  <2>1. ASSUME NEW i \in DOMAIN q', NEW k \in DOMAIN q', q'[i].job = q'[k].job, i < k
        PROVE  FALSE
    <3>1. i \in 1 .. Len(q) - 1
      BY <1>1, <1>3, <2>1
    <3>2. CASE k = Len(q)
      BY Zenon, <1>2, <1>4, <2>1, <3>1, <3>2
    <3>3. CASE k \in 1 .. Len(q) - 1
      <4>1. i + 1 \in DOMAIN q /\ k + 1 \in DOMAIN q /\ q[i + 1].job = q[k + 1].job
        BY <1>1, <1>4, <2>1, <3>1, <3>3
      <4>2. i + 1 = k + 1
        BY Zenon, <4>1 DEF Control, RequestInv
      <4> QED BY <2>1, <3>1, <3>3, <4>2
    <3> QED BY <1>1, <1>3, <2>1, <3>2, <3>3
  <2>2. \A i, k \in DOMAIN q' : q'[i].job = q'[k].job => i = k
    BY <1>1, <1>3, <2>1
  <2>3. \A k \in Jobs : ctx'[k].kind = "none" => ctx'[k] = NoCall /\ rets'[k] = <<>>
    <3>1. ctx'[j].kind # "none"
      BY Zenon, <1>1, <1>5 DEF OwnStep, Kinds, Reading, Writing, Unimplemented
    <3> QED BY Zenon, <1>5, <3>1 DEF Control, RequestInv
  <2>4. \A k \in Jobs : ctx'[k].kind \in Writing /\ rets'[k] # <<>> /\ ~Last(rets'[k]).err
                        => ctx'[k].pos = DataLen
    BY Zenon, <1>1, <1>5 DEF Control, RequestInv, Succeeded
  <2> QED BY Zenon, <1>6, <2>2, <2>3, <2>4 DEF RequestInv, Succeeded
<1> QED BY Zenon, <1>8, <1>9, <1>10 DEF Control


(***************************************************************************)
(* What the buffers and the file hold.                                     *)
(***************************************************************************)
\* What a step of call j with context c leaves of the data of other calls: the
\* offsets of their descriptors, and the file, which grows at most.
DataStep(j, c) ==
  /\ c.kind \notin Writing => content' = content
  /\ AppendOnly => Begins(content, content')
  /\ \A f \in DOMAIN fds : fds[f].owner \notin {j, App} => fds'[f] = fds[f]

\* The other calls have the requests and the results they had.
OthersWait(j) ==
  /\ \A i \in DOMAIN q' : q'[i].job # j => \E k \in DOMAIN q : q[k] = q'[i]
  /\ \A k \in Jobs \ {j} : rets'[k] = rets[k]

\* No call changes its kind.
LEMMA MadeKept ==
  ASSUME Control, NEW j, NEW c, OwnStep(j, c)
  PROVE  /\ AppendOnly' = AppendOnly /\ Made(Writing)' = Made(Writing)
         /\ Made({"readFile"})' = Made({"readFile"})
         /\ \A k \in Jobs : ctx'[k].kind = ctx[k].kind /\ ctx'[k].seen = ctx[k].seen
         /\ ctx'[j] = c /\ \A k \in Jobs \ {j} : ctx'[k] = ctx[k]
<1>1. ctx'[j] = c /\ \A k \in Jobs \ {j} : ctx'[k] = ctx[k]
  BY Zenon, Types DEF OwnStep
<1>2. \A k \in Jobs : ctx'[k].kind = ctx[k].kind /\ ctx'[k].seen = ctx[k].seen
  BY Zenon, <1>1 DEF OwnStep
<1> QED BY Zenon, <1>1, <1>2 DEF AppendOnly, Made

\* A file that grows still begins with what was read of it.
LEMMA BeginsGrown ==
  ASSUME NEW b, NEW s, NEW t, Len(b) \in Nat, Len(s) \in Nat, Len(t) \in Nat,
         Begins(b, s), Begins(s, t)
  PROVE  Begins(b, t)
BY DEF Begins

\* What the other readers have is still how the file begins.
LEMMA ReadKept ==
  ASSUME Control, Control', ReadInv, NEW j, NEW c, OwnStep(j, c), DataStep(j, c), OthersWait(j),
         c.kind = "readFile" /\ AppendOnly =>
           /\ \A i \in DOMAIN q' : q'[i].job = j => ReadOK(q'[i], c, fds', content')
           /\ rets'[j] # <<>> /\ ~Last(rets'[j]).err =>
                Whole(Last(rets'[j]).data, c, content')
  PROVE  ReadInv'
<1> SUFFICES ASSUME AppendOnly'
             PROVE  /\ \A k \in Jobs : ctx'[k].seen <= Len(content')
                    /\ \A i \in DOMAIN q' : ctx'[q'[i].job].kind = "readFile" =>
                         ReadOK(q'[i], ctx'[q'[i].job], fds', content')
                    /\ \A k \in Made({"readFile"})' :
                         rets'[k] # <<>> /\ ~Last(rets'[k]).err =>
                           Whole(Last(rets'[k]).data, ctx'[k], content')
  BY Zenon DEF ReadInv, Succeeded
<1>1. /\ AppendOnly /\ Begins(content, content') /\ Made({"readFile"})' = Made({"readFile"})
      /\ \A k \in Jobs : ctx'[k].kind = ctx[k].kind /\ ctx'[k].seen = ctx[k].seen
      /\ ctx'[j] = c /\ \A k \in Jobs \ {j} : ctx'[k] = ctx[k]
  BY Zenon, MadeKept DEF DataStep
<1>2. /\ content \in Seq(Bytes) /\ content' \in Seq(Bytes) /\ Len(content) \in Nat
      /\ Len(content') \in Nat /\ Len(content) <= Len(content')
  BY <1>1, Types DEF OwnStep, Begins
<1>3. \A k \in Jobs : ctx'[k].seen <= Len(content')
  <2>1. \A k \in Jobs : ctx[k].seen \in Nat /\ ctx[k].seen <= Len(content)
    BY Zenon, <1>1, Types DEF ReadInv, Ctxs
  <2> QED BY <1>1, <1>2, <2>1
<1>4. ASSUME NEW b \in Seq(Bytes), NEW k \in Jobs \ {j}, Whole(b, ctx[k], content)
      PROVE  Whole(b, ctx'[k], content')
  <2>1. Begins(b, content')
    BY <1>1, <1>2, <1>4, BeginsGrown DEF Whole
  <2>2. Len(b) >= ctx[k].seen \/ ~(Len(content') < SizeMod)
    BY <1>2, <1>4, WidthAssumption DEF Whole
  <2> QED BY Zenon, <1>1, <2>1, <2>2 DEF Whole
<1>5. ASSUME NEW i \in DOMAIN q', ctx'[q'[i].job].kind = "readFile"
      PROVE  ReadOK(q'[i], ctx'[q'[i].job], fds', content')
  <2>1. CASE q'[i].job = j
    BY Zenon, <1>1, <1>5, <2>1
  <2>2. CASE q'[i].job # j
    <3>1. PICK m \in DOMAIN q : q[m] = q'[i]
      BY Zenon, <2>2 DEF OthersWait
    <3> DEFINE k == q[m].job
    <3>2. /\ k \in Jobs \ {j} /\ ctx[k].kind = "readFile" /\ ctx[k] \in Ctxs /\ ctx'[k] = ctx[k]
          /\ RequestOK(q[m], ctx[k], fds) /\ ReadOK(q[m], ctx[k], fds, content)
      <4>1. q[m] \in Requests
        BY Types
      <4>2. k \in Jobs \ {j}
        BY Zenon, <2>2, <3>1, <4>1 DEF Requests
      <4> QED BY <1>1, <1>5, <3>1, <4>2, Types DEF Control, RequestInv, ReadInv
    <3> HIDE DEF k
    <3>3. q[m].op # "open" => fds'[q[m].fd] = fds[q[m].fd]
      BY Zenon, <3>2, JobsAssumption DEF k, RequestOK, DataStep
    <3>4. ctx[k].buf \in Seq(Bytes) /\ Len(ctx[k].buf) \in Nat
      BY <3>2 DEF Ctxs
    <3>5. q[m].op = "fstat" => fds'[q[m].fd].off = 0
      BY Zenon, <3>2, <3>3 DEF ReadOK
    <3>6. q[m].op = "close" => ctx[k].err \/ Whole(ctx[k].buf, ctx'[k], content')
      BY Zenon, <1>4, <3>2, <3>4 DEF ReadOK
    <3>7. q[m].op = "read" =>
            /\ ctx[k].pos = Len(ctx[k].buf) /\ fds'[q[m].fd].off = ctx[k].pos
            /\ Begins(ctx[k].buf, content')
            /\ ctx[k].size # 0 /\ Len(content') < SizeMod => ctx[k].size >= ctx[k].seen
      <4>1. SUFFICES ASSUME q[m].op = "read"
                     PROVE  /\ Begins(ctx[k].buf, content')
                            /\ ctx[k].size # 0 /\ Len(content') < SizeMod =>
                                 ctx[k].size >= ctx[k].seen
        BY Zenon, <3>2, <3>3 DEF ReadOK
      <4>2. Begins(ctx[k].buf, content')
        BY Zenon, <1>1, <1>2, <3>2, <3>4, <4>1, BeginsGrown DEF ReadOK
      <4> QED BY <1>2, <3>2, <4>1, <4>2, WidthAssumption DEF ReadOK
    <3> QED BY Zenon, <3>1, <3>2, <3>5, <3>6, <3>7 DEF ReadOK, k
  <2> QED BY Zenon, <2>1, <2>2
<1>6. ASSUME NEW k \in Made({"readFile"})', rets'[k] # <<>>, ~Last(rets'[k]).err
      PROVE  Whole(Last(rets'[k]).data, ctx'[k], content')
  <2>1. k \in Jobs /\ ctx[k].kind = "readFile" /\ k \in Made({"readFile"})
    BY Zenon, <1>1, <1>6 DEF Made
  <2>2. CASE k = j
    BY Zenon, <1>1, <1>6, <2>1, <2>2 DEF OwnStep
  <2>3. CASE k # j
    <3>1. rets[k] # <<>> /\ ~Last(rets[k]).err /\ rets'[k] = rets[k]
      BY Zenon, <1>6, <2>1, <2>3 DEF OthersWait
    <3>2. Whole(Last(rets[k]).data, ctx[k], content)
      BY Zenon, <1>1, <2>1, <3>1 DEF ReadInv, Succeeded
    <3>3. Last(rets[k]).data \in Seq(Bytes)
      <4>1. rets[k] \in Seq(Results) /\ rets[k] # <<>>
        BY Zenon, <2>1, <3>1, Types
      <4>2. Last(rets[k]) \in Results
        BY <4>1 DEF Last
      <4> QED BY Zenon, <4>2 DEF Results
    <3> QED BY Zenon, <1>4, <2>1, <2>3, <3>1, <3>2, <3>3
  <2> QED BY Zenon, <2>2, <2>3
<1> QED BY Zenon, <1>3, <1>5, <1>6


\* What the only writer wrote is the file.
LEMMA WriteKept ==
  ASSUME Control, WriteInv, NEW j, NEW c, OwnStep(j, c), DataStep(j, c), OthersWait(j),
         Alone(j) =>
           \/ content' = Data(j, c.pos)
           \/ /\ \A i \in DOMAIN q' : q'[i].job # j
              /\ ~(rets'[j] # <<>> /\ ~Last(rets'[j]).err)
  PROVE  WriteInv'
<1> SUFFICES ASSUME NEW k \in Jobs, Alone(k)'
             PROVE  /\ \A i \in DOMAIN q' :
                         q'[i].job = k /\ q'[i].op # "open" => content' = Data(k, ctx'[k].pos)
                    /\ rets'[k] # <<>> /\ ~Last(rets'[k]).err => content' = Data(k, ctx'[k].pos)
  BY Zenon DEF WriteInv, Succeeded, Data
<1>1. /\ Alone(k) /\ Made(Writing)' = Made(Writing) /\ j \in Jobs
      /\ ctx'[j] = c /\ \A l \in Jobs \ {j} : ctx'[l] = ctx[l]
  <2>1. /\ Made(Writing)' = Made(Writing) /\ ctx'[k].kind = ctx[k].kind
        /\ ctx'[j] = c /\ \A l \in Jobs \ {j} : ctx'[l] = ctx[l]
    BY Zenon, MadeKept
  <2> QED BY Zenon, <2>1 DEF Alone, OwnStep
<1>2. CASE k = j
  BY Zenon, <1>1, <1>2
<1>3. CASE k # j
  <2>1. content' = content
    BY <1>1, <1>3, MadeKept DEF Alone, Made, OwnStep, DataStep
  <2>2. ctx'[k] = ctx[k] /\ rets'[k] = rets[k]
    BY Zenon, <1>1, <1>3 DEF OthersWait
  <2>3. \A i \in DOMAIN q' : q'[i].job = k => \E m \in DOMAIN q : q[m] = q'[i]
    BY Zenon, <1>3 DEF OthersWait
  <2> QED BY <1>1, <2>1, <2>2, <2>3 DEF WriteInv, Succeeded
<1> QED BY Zenon, <1>2, <1>3

\* A request of q' is one of q or follows from the head.
LEMMA WaitDone ==
  ASSUME Control, NEW j, NEW c, OwnStep(j, c), Submit(<<>>),
         NEW res, Answers(j, res)
  PROVE  OthersWait(j) /\ \A i \in DOMAIN q' : q'[i].job # j
<1>1. /\ q \in Seq(Requests) /\ q # <<>> /\ Len(q) \in Nat \ {0} /\ DOMAIN q = 1 .. Len(q)
      /\ \A i \in 2 .. Len(q) : q[i].job # j
  BY Zenon, HeadRequest, Types DEF OwnStep
<1>2. /\ q' \in Seq(Requests) /\ Len(q') = Len(q) - 1
      /\ \A i \in 1 .. Len(q) - 1 : q'[i] = q[i + 1]
  BY Zenon, <1>1, QueueDone
<1>3. \A i \in DOMAIN q' : i + 1 \in 2 .. Len(q) /\ q'[i] = q[i + 1]
  BY <1>1, <1>2
<1>4. \A k \in Jobs \ {j} : rets'[k] = rets[k]
  BY Zenon, Types DEF Answers
<1> QED BY <1>1, <1>3, <1>4 DEF OthersWait

\* The call of writeAll goes on and the requests of the others wait.
LEMMA WaitMore ==
  ASSUME Control, NEW j, NEW c, OwnStep(j, c), NEW r \in Requests, Submit(<<r>>),
         r.job = j, UNCHANGED rets
  PROVE  OthersWait(j) /\ \A i \in DOMAIN q' : q'[i].job = j => q'[i] = r
<1>1. /\ q \in Seq(Requests) /\ q # <<>> /\ Len(q) \in Nat \ {0} /\ DOMAIN q = 1 .. Len(q)
      /\ \A i \in 2 .. Len(q) : q[i].job # j
  BY Zenon, HeadRequest, Types DEF OwnStep
<1>2. /\ q' \in Seq(Requests) /\ Len(q') = Len(q) /\ q'[Len(q)] = r
      /\ \A i \in 1 .. Len(q) - 1 : q'[i] = q[i + 1]
  BY Zenon, <1>1, QueueMore
<1>3. ASSUME NEW i \in DOMAIN q', i # Len(q)
      PROVE  i + 1 \in 2 .. Len(q) /\ q'[i] = q[i + 1]
  BY <1>1, <1>2, <1>3
<1>4. \A i \in DOMAIN q' : q'[i].job = j => q'[i] = r
  BY Zenon, <1>1, <1>2, <1>3
<1>5. ASSUME NEW i \in DOMAIN q', q'[i].job # j PROVE \E k \in DOMAIN q : q[k] = q'[i]
  <2>1. i # Len(q)
    BY Zenon, <1>2, <1>5
  <2>2. i + 1 \in DOMAIN q /\ q'[i] = q[i + 1]
    BY <1>1, <1>3, <2>1
  <2> QED BY Zenon, <2>2
<1> QED BY Zenon, <1>4, <1>5 DEF OthersWait

\* What was appended is in the file when nothing was written.
LEMMA AppendKept ==
  ASSUME Control, AppendInv, NEW j, NEW c, OwnStep(j, c),
         AppendOnly => content' = content /\ (c.kind = "appendFile" => c.pos = ctx[j].pos)
  PROVE  AppendInv'
<1> SUFFICES ASSUME AppendOnly', NEW k \in Jobs
             PROVE  HasBytes(k, IF ctx'[k].kind = "appendFile" THEN ctx'[k].pos ELSE 0, content')
  BY Zenon DEF AppendInv, HasBytes
<1>1. /\ AppendOnly /\ ctx'[k].kind = ctx[k].kind
      /\ ctx'[j] = c /\ \A l \in Jobs \ {j} : ctx'[l] = ctx[l]
  BY Zenon, MadeKept
<1>2. ctx'[k].kind = "appendFile" => ctx'[k].pos = ctx[k].pos
  BY Zenon, <1>1 DEF OwnStep
<1> QED BY Zenon, <1>1, <1>2 DEF AppendInv

\* The call of a callback that ends it keeps the invariant.
LEMMA Finished ==
  ASSUME IInv, NEW j, NEW c, OwnStep(j, c), DataStep(j, c), Submit(<<>>), AppendInv',
         NEW res \in Results, Answers(j, res),
         stuck' \in BOOLEAN, \A f \in DOMAIN fds' : fds'[f].owner = j => stuck',
         ~res.err =>
           /\ c.kind \in Writing => c.pos = DataLen
           /\ c.kind = "readFile" /\ AppendOnly => Whole(res.data, c, content')
           /\ Alone(j) => content' = Data(j, c.pos)
  PROVE  IInv'
<1>1. Control /\ ReadInv /\ WriteInv /\ j \in Jobs /\ rets[j] = <<>>
  BY Zenon, HeadRequest DEF IInv, OwnStep
<1>2. Control'
  BY Zenon, <1>1, CallDone
<1>3. OthersWait(j) /\ \A i \in DOMAIN q' : q'[i].job # j
  BY Zenon, <1>1, WaitDone
<1>4. rets'[j] = <<>> \/ (rets'[j] # <<>> /\ Last(rets'[j]) = res)
  <2>1. CASE rets' = rets
    <3>1. rets'[j] = <<>>
      BY Zenon, <1>1, <2>1
    <3> QED BY Zenon, <3>1
  <2>2. CASE rets' = [rets EXCEPT ![j] = Append(@, res)]
    <3>1. rets'[j] = <<res>>
      BY <1>1, <2>2, Types
    <3> QED BY <3>1 DEF Last
  <2> QED BY Zenon, <2>1, <2>2 DEF Answers
<1>5. ReadInv'
  BY Zenon, <1>1, <1>2, <1>3, <1>4, ReadKept
<1>6. WriteInv'
  BY Zenon, <1>1, <1>3, <1>4, WriteKept
<1> QED BY Zenon, <1>2, <1>5, <1>6 DEF IInv

\* The callback that goes on with request r keeps the invariant.
LEMMA Continued ==
  ASSUME IInv, NEW j, NEW c, OwnStep(j, c), DataStep(j, c), AppendInv',
         NEW r \in Requests, Submit(<<r>>), UNCHANGED <<rets, stuck>>, r.job = j,
         RequestOK(r, c, fds'), \A f \in DOMAIN fds' : fds'[f].owner = j => r.fd = f,
         c.kind = "readFile" /\ AppendOnly => ReadOK(r, c, fds', content'),
         Alone(j) => content' = Data(j, c.pos)
  PROVE  IInv'
<1>1. Control /\ ReadInv /\ WriteInv /\ j \in Jobs /\ rets[j] = <<>>
  BY Zenon, HeadRequest DEF IInv, OwnStep
<1>2. Control'
  BY Zenon, <1>1, CallMore
<1>3. OthersWait(j) /\ \A i \in DOMAIN q' : q'[i].job = j => q'[i] = r
  BY <1>1, WaitMore
<1>4. ReadInv'
  BY Zenon, <1>1, <1>2, <1>3, ReadKept
<1>5. WriteInv'
  BY Zenon, <1>1, <1>3, WriteKept
<1> QED BY Zenon, <1>2, <1>4, <1>5 DEF IInv


(***************************************************************************)
(* The steps.                                                              *)
(***************************************************************************)
\* The descriptors a call owns are the one its request names, if any.
LEMMA Held ==
  ASSUME Control, q # <<>>, ~stuck
  PROVE  /\ \A f \in DOMAIN fds : fds[f].owner = Head(q).job =>
              f = Head(q).fd /\ f # UserFd /\ Head(q).op # "open"
         /\ fds[UserFd].owner # Head(q).job
<1>1. fds[UserFd].owner # Head(q).job
  BY Zenon, HeadRequest DEF Control, OwnDescriptor
<1>2. ASSUME NEW f \in DOMAIN fds, fds[f].owner = Head(q).job
      PROVE  f = Head(q).fd /\ f # UserFd /\ Head(q).op # "open"
  <2>1. f # UserFd
    BY Zenon, <1>1, <1>2
  <2>2. PICK i \in DOMAIN q : q[i].fd = f /\ q[i].job = fds[f].owner
    BY Zenon, <2>1 DEF Control, OwnDescriptor
  <2>3. i = 1
    BY <1>2, <2>2, HeadRequest
  <2> QED BY Zenon, <2>1, <2>2, <2>3, HeadRequest DEF RequestOK
<1> QED BY Zenon, <1>1, <1>2

\* A context that does not change, and descriptors and a file that do not.
LEMMA SameContext ==
  ASSUME Control, NEW j \in Jobs
  PROVE  [ctx EXCEPT ![j] = ctx[j]] = ctx /\ (ctx[j].size # 0 => ctx[j].pos <= ctx[j].size)
BY Zenon, Types DEF Control, OwnDescriptor, TypeOK

\* A callback may leave the descriptors alone.
LEMMA SameFds ==
  ASSUME Control, UNCHANGED fds, NEW j
  PROVE  OthersKept(j, fds, fds')
BY Zenon DEF Control, OwnDescriptor, TypeOK, OthersKept

\* A system call may leave the file alone.
LEMMA SameContent ==
  ASSUME Control, UNCHANGED content
  PROVE  Begins(content, content') /\ content' \in Seq(Bytes)
BY Types DEF Begins

\* The file as open(O_TRUNC) leaves it.
LEMMA NoData == \A j : Data(j, 0) = <<>>
BY DEF Data

\* The file cannot be opened: the call is over.
LEMMA OpenFailedStep ==
  ASSUME IInv, Pending("open"), OpenFailed(Head(q).job),
         UNCHANGED <<content, fds, ctx, stuck>>
  PROVE  IInv'
<1> DEFINE j == Head(q).job
           c == ctx[j]
           res == [err |-> TRUE, data |-> <<>>]
<1>1. /\ Control /\ q # <<>> /\ ~stuck /\ j \in Jobs /\ c \in Ctxs
      /\ stuck' \in BOOLEAN
  BY Zenon, HeadRequest DEF IInv, Pending, Control, OwnDescriptor, TypeOK
<1>2. res \in Results /\ res.err
  BY DEF Results
<1>3. Submit(<<>>) /\ Answers(j, res)
  BY Zenon DEF OpenFailed, Return, Answers
<1> HIDE DEF j, c, res
<1>4. OwnStep(j, c)
  BY Zenon, <1>1, SameContext, SameFds, SameContent DEF OwnStep, j, c
<1>5. DataStep(j, c)
  BY Zenon, <1>1, SameContent DEF DataStep
<1>6. \A f \in DOMAIN fds' : fds'[f].owner # j
  BY Zenon, <1>1, Held DEF Pending, j
<1>7. AppendInv'
  BY Zenon, <1>1, <1>4, AppendKept DEF IInv, c
<1> QED BY Zenon, <1>1, <1>2, <1>3, <1>4, <1>5, <1>6, <1>7, Finished

\* A free descriptor is given to call j.
LEMMA OpenedFd ==
  ASSUME Control, NEW j \in Jobs, NEW f \in Fds, f \notin DOMAIN fds, Head(q).job = j,
         q # <<>>, ~stuck, Head(q).op = "open", Open(f)
  PROVE  /\ OthersKept(j, fds, fds')
         /\ f \in DOMAIN fds' /\ fds'[f] = [owner |-> j, off |-> 0]
         /\ \A g \in DOMAIN fds : g \in DOMAIN fds' /\ fds'[g] = fds[g]
         /\ \A g \in DOMAIN fds' : fds'[g].owner = j => g = f
         /\ content' \in Seq(Bytes)
<1>1. /\ DOMAIN fds' = DOMAIN fds \cup {f} /\ fds'[f] = [owner |-> j, off |-> 0]
      /\ \A g \in DOMAIN fds : fds'[g] = fds[g]
  BY Zenon DEF Open
<1>2. [owner |-> j, off |-> 0] \in [owner : Jobs \cup {App}, off : Nat]
  BY Zenon
<1>3. DOMAIN fds' \subseteq Fds
      /\ \A g \in DOMAIN fds' : fds'[g] \in [owner : Jobs \cup {App}, off : Nat]
  BY Zenon, <1>1, <1>2 DEF Control, OwnDescriptor, TypeOK
<1>4. \A g \in DOMAIN fds : fds[g].owner # j
  BY Zenon, Held
<1>5. content' \in Seq(Bytes)
  BY Types DEF Open
<1> QED BY <1>1, <1>3, <1>4, <1>5 DEF OthersKept

\* The file is open and readFile or writeAll goes on.
LEMMA OpenedStep ==
  ASSUME IInv, Pending("open"), NEW f \in Fds, f \notin DOMAIN fds, Open(f),
         NEW c, c = [ctx[Head(q).job] EXCEPT !.fd = f],
         c.kind \notin Unimplemented, ctx' = [ctx EXCEPT ![Head(q).job] = c],
         Submit(<<IF c.kind = "readFile"
                  THEN Request(Head(q).job, "fstat", c.fd, 0)
                  ELSE WriteRequest(Head(q).job, c)>>),
         UNCHANGED <<rets, stuck>>
  PROVE  IInv'
<1> DEFINE j == Head(q).job
           r == IF c.kind = "readFile" THEN Request(j, "fstat", c.fd, 0) ELSE WriteRequest(j, c)
<1>1. /\ Control /\ q # <<>> /\ ~stuck /\ j \in Jobs /\ ctx[j] \in Ctxs /\ ctx[j].kind \in Kinds
      /\ RequestOK(Head(q), ctx[j], fds) /\ Head(q).op = "open"
  BY Zenon, HeadRequest DEF IInv, Pending
<1>2. /\ c \in Ctxs /\ c.kind = ctx[j].kind /\ c.seen = ctx[j].seen /\ c.fd = f
      /\ c.size = 0 /\ c.pos = 0 /\ c.buf = <<>> /\ ~c.err
      /\ c.kind \in {"readFile", "writeFile", "appendFile"}
  BY Zenon, <1>1 DEF Ctxs, RequestOK, Kinds, Reading, Writing
<1> HIDE DEF j
<1>3. /\ r \in Requests /\ r.job = j /\ r.fd = f
      /\ r.op = (IF c.kind = "readFile" THEN "fstat" ELSE "write")
      /\ c.kind # "readFile" => r.len = DataLen
  BY <1>1, <1>2, LengthAssumption DEF Request, WriteRequest, Requests, Ops, Ctxs
<1>4. Submit(<<r>>) /\ ctx' = [ctx EXCEPT ![j] = c]
  BY Zenon DEF j
<1> HIDE DEF r
<1>5. /\ OthersKept(j, fds, fds') /\ f \in DOMAIN fds' /\ fds'[f] = [owner |-> j, off |-> 0]
      /\ \A g \in DOMAIN fds : g \in DOMAIN fds' /\ fds'[g] = fds[g]
      /\ \A g \in DOMAIN fds' : fds'[g].owner = j => g = f
      /\ content' \in Seq(Bytes)
  BY Zenon, <1>1, OpenedFd DEF j
<1>6. OwnStep(j, c)
  BY Zenon, <1>1, <1>2, <1>4, <1>5 DEF OwnStep, j
<1>7. content' = IF c.kind = "writeFile" THEN <<>> ELSE content
  BY Zenon, <1>2 DEF Open, j
<1>8. AppendOnly => content' = content
  BY Zenon, <1>1, <1>2, <1>7 DEF AppendOnly, Made, Overwriting
<1>9. DataStep(j, c)
  <2>1. c.kind \notin Writing => content' = content
    BY Zenon, <1>7 DEF Writing
  <2> QED BY Zenon, <1>1, <1>5, <1>8, <2>1, SameContent DEF DataStep
<1>10. AppendInv'
  BY Zenon, <1>1, <1>2, <1>6, <1>8, AppendKept DEF IInv, RequestOK
<1>11. RequestOK(r, c, fds')
  <2>1. fds'[f].owner = j
    BY <1>5
  <2>2. CASE c.kind = "readFile"
    BY Zenon, <1>2, <1>3, <1>5, <2>1, <2>2 DEF RequestOK, Reading
  <2>3. CASE c.kind # "readFile"
    <3>1. r.op = "write" /\ r.len = DataLen - c.pos /\ c.pos <= DataLen
      BY <1>2, <1>3, <2>3, LengthAssumption
    <3> QED BY Zenon, <1>2, <1>3, <1>5, <2>1, <2>3, <3>1 DEF RequestOK, Writing
  <2> QED BY Zenon, <2>2, <2>3
<1>12. c.kind = "readFile" => ReadOK(r, c, fds', content')
  BY <1>3, <1>5 DEF ReadOK
<1>13. Alone(j) => content' = Data(j, c.pos)
  <2>1. Data(j, c.pos) = <<>>
    BY Zenon, <1>2, NoData
  <2>2. ASSUME ctx[j].kind = "writeFile" PROVE content' = <<>>
    BY Zenon, <1>2, <1>7, <2>2
  <2> QED BY Zenon, <2>1, <2>2 DEF Alone
<1>14. \A g \in DOMAIN fds' : fds'[g].owner = j => r.fd = g
  BY Zenon, <1>3, <1>5
<1>15. r \in Requests /\ r.job = j /\ Submit(<<r>>)
  BY Zenon, <1>3, <1>4
<1> QED BY Zenon, <1>6, <1>9, <1>10, <1>11, <1>12, <1>13, <1>14, <1>15, Continued

\* truncate, lchmod or lchown throws once its file is open.
LEMMA OpenThrowsStep ==
  ASSUME IInv, Pending("open"), NEW f \in Fds, f \notin DOMAIN fds, Open(f),
         ctx[Head(q).job].kind \in Unimplemented, Submit(<<>>), stuck' = TRUE,
         UNCHANGED <<ctx, rets>>
  PROVE  IInv'
<1> DEFINE j == Head(q).job
           c == ctx[j]
           res == [err |-> TRUE, data |-> <<>>]
<1>1. /\ Control /\ q # <<>> /\ ~stuck /\ j \in Jobs /\ c \in Ctxs /\ Head(q).op = "open"
  BY Zenon, HeadRequest DEF IInv, Pending
<1>2. res \in Results /\ res.err /\ Answers(j, res)
  BY DEF Results, Answers
<1>3. c.kind \notin Writing /\ content' = content
  BY Zenon DEF Unimplemented, Writing, Open
<1> HIDE DEF j, c, res
<1>4. /\ OthersKept(j, fds, fds') /\ content' \in Seq(Bytes)
      /\ \A g \in DOMAIN fds : g \in DOMAIN fds' /\ fds'[g] = fds[g]
  BY Zenon, <1>1, OpenedFd DEF j
<1>5. OwnStep(j, c)
  BY Zenon, <1>1, <1>4, SameContext DEF OwnStep, j, c
<1>6. DataStep(j, c)
  BY Zenon, <1>1, <1>3, <1>4, SameContent DEF DataStep
<1>7. AppendInv'
  BY Zenon, <1>1, <1>3, <1>5, AppendKept DEF IInv, c
<1>8. stuck' \in BOOLEAN /\ stuck'
  BY Zenon
<1> QED BY Zenon, <1>1, <1>2, <1>5, <1>6, <1>7, <1>8, Finished


\* readFileAfterOpen's system calls leave the owners of descriptors alone.
SameOwners ==
  /\ DOMAIN fds' = DOMAIN fds
  /\ \A f \in DOMAIN fds : fds'[f].owner = fds[f].owner
  /\ \A f \in DOMAIN fds : fds'[f] \in [owner : Jobs \cup {App}, off : Nat]

\* ReadFileContext.close: the descriptor is closed if readFile opened it, and
\* the buffer is returned afterwards.
LEMMA CloseStep ==
  ASSUME IInv, NEW j, NEW c, OwnStep(j, c), DataStep(j, c), UNCHANGED content, SameOwners,
         Head(q).op # "open", c.kind \in Reading, c.fd = ctx[j].fd, Close(j, c),
         c.kind = "readFile" /\ AppendOnly => c.err \/ Whole(c.buf, c, content)
  PROVE  IInv'
<1>1. /\ Control /\ q # <<>> /\ ~stuck /\ j \in Jobs /\ Head(q).job = j /\ c \in Ctxs
      /\ RequestOK(Head(q), ctx[j], fds) /\ c.kind = ctx[j].kind /\ stuck \in BOOLEAN
  BY Zenon, HeadRequest DEF IInv, OwnStep, Control, OwnDescriptor, TypeOK
<1>2. \A f \in DOMAIN fds' : fds'[f].owner = j => f = Head(q).fd /\ f # UserFd
  BY Zenon, <1>1, Held DEF SameOwners
<1>3. AppendInv'
  BY Zenon, <1>1, AppendKept DEF IInv, Reading
<1>4. c.kind \notin Writing /\ ~Alone(j)
  BY Zenon, <1>1 DEF Reading, Writing, Alone
<1>5. CASE IsUserFd(j)
  <2>1. Submit(<<>>) /\ ReadFileAfterClose(j, c, FALSE) /\ c.kind # "readFile"
    BY Zenon, <1>1, <1>5 DEF Close, IsUserFd
  <2>2. \A f \in DOMAIN fds' : fds'[f].owner # j
    BY Zenon, <1>1, <1>2, <1>5 DEF RequestOK, IsUserFd
  <2> DEFINE res == [err |-> c.err \/ FALSE, data |-> IF c.err THEN <<>> ELSE c.buf]
  <2>3. res \in Results
    BY <1>1 DEF Ctxs, Results
  <2>4. Answers(j, res)
    BY Zenon, <2>1 DEF ReadFileAfterClose, Return, Answers
  <2>5. stuck' \in BOOLEAN
    <3>1. stuck' \in {TRUE, FALSE} \/ stuck' = stuck
      BY Zenon, <2>1 DEF ReadFileAfterClose, IsUserFd
    <3> QED BY <1>1, <3>1, Zenon
  <2> HIDE DEF res
  <2> QED BY Zenon, <1>3, <1>4, <2>1, <2>2, <2>3, <2>4, <2>5, Finished
<1>6. CASE ~IsUserFd(j)
  <2> DEFINE r == Request(j, "close", c.fd, 0)
  <2>1. Submit(<<r>>) /\ UNCHANGED <<rets, stuck>> /\ c.kind = "readFile"
    BY Zenon, <1>1, <1>6 DEF Close, IsUserFd, Reading
  <2>2. r \in Requests /\ r.job = j /\ r.fd = c.fd /\ r.op = "close"
    BY Zenon, <1>1 DEF Request, Requests, Ops, Ctxs
  <2> HIDE DEF r
  <2>3. /\ c.fd = Head(q).fd /\ c.fd \in DOMAIN fds' /\ fds'[c.fd].owner = j
    BY <1>1, <2>1 DEF RequestOK, SameOwners
  <2>4. RequestOK(r, c, fds')
    BY Zenon, <2>1, <2>2, <2>3 DEF RequestOK, Reading, Writing
  <2>5. \A f \in DOMAIN fds' : fds'[f].owner = j => r.fd = f
    BY Zenon, <1>2, <2>2, <2>3
  <2>6. AppendOnly => ReadOK(r, c, fds', content')
    BY Zenon, <2>1, <2>2 DEF ReadOK
  <2> QED BY Zenon, <1>3, <1>4, <2>1, <2>2, <2>4, <2>5, <2>6, Continued
<1> QED BY Zenon, <1>5, <1>6

\* A read follows: of BUFFER_LENGTH bytes, or of what is left of the size.
LEMMA ReadNextStep ==
  ASSUME IInv, NEW j, NEW c, OwnStep(j, c), DataStep(j, c), UNCHANGED content, SameOwners,
         Head(q).op # "open", c.kind \in Reading, c.fd = ctx[j].fd,
         Submit(<<ReadRequest(j, c)>>), UNCHANGED <<rets, stuck>>, c.size # 0 => c.pos < c.size,
         c.kind = "readFile" /\ AppendOnly =>
           /\ c.pos = Len(c.buf) /\ fds'[c.fd].off = c.pos /\ Begins(c.buf, content)
           /\ c.size # 0 /\ Len(content) < SizeMod => c.size >= c.seen
  PROVE  IInv'
<1> DEFINE r == ReadRequest(j, c)
<1>1. /\ Control /\ q # <<>> /\ ~stuck /\ j \in Jobs /\ Head(q).job = j /\ c \in Ctxs
      /\ RequestOK(Head(q), ctx[j], fds) /\ c.kind = ctx[j].kind
  BY Zenon, HeadRequest DEF IInv, OwnStep
<1>2. \A f \in DOMAIN fds' : fds'[f].owner = j => f = Head(q).fd
  BY Zenon, <1>1, Held DEF SameOwners
<1>3. AppendInv'
  BY Zenon, <1>1, AppendKept DEF IInv, Reading
<1>4. c.kind \notin Writing /\ ~Alone(j)
  BY Zenon, <1>1 DEF Reading, Writing, Alone
<1>5. /\ r.job = j /\ r.fd = c.fd /\ r.op = "read"
      /\ r.len = IF c.size = 0 THEN BufLen ELSE c.size - c.pos
  BY Zenon DEF ReadRequest, Request
<1>6. r \in Requests
  <2>1. c.size \in Nat /\ c.pos \in Nat /\ c.fd \in Fds
    BY Zenon, <1>1 DEF Ctxs
  <2>2. (IF c.size = 0 THEN BufLen ELSE c.size - c.pos) \in Nat
    BY <2>1, LengthAssumption
  <2> QED BY Zenon, <1>1, <2>1, <2>2 DEF ReadRequest, Request, Requests, Ops
<1> HIDE DEF r
<1>7. c.fd = Head(q).fd
  BY Zenon, <1>1 DEF RequestOK
<1>8. RequestOK(r, c, fds')
  BY <1>1, <1>5, <1>7 DEF RequestOK, SameOwners
<1>9. c.kind = "readFile" /\ AppendOnly => ReadOK(r, c, fds', content')
  BY Zenon, <1>5 DEF ReadOK
<1>10. Submit(<<r>>)
  BY Zenon DEF r
<1> QED BY <1>2, <1>3, <1>4, <1>5, <1>6, <1>7, <1>8, <1>9, <1>10, Continued

\* The cast of parseLklStat changes no size below 2^32.
LEMMA SmallSize ==
  ASSUME NEW n \in Nat
  PROVE  n % SizeMod \in Nat /\ (n < SizeMod => n % SizeMod = n)
BY WidthAssumption

\* readFileAfterStat: the size fits in a Buffer and is read, or it does not.
LEMMA ServeFstatStep ==
  ASSUME IInv, ~StatMayFail, ServeFstat
  PROVE  IInv'
<1> DEFINE j == Head(q).job
           size == Len(content) % SizeMod
           c == [ctx[j] EXCEPT !.size = size]
           e == [c EXCEPT !.err = TRUE]
<1>1. /\ Control /\ q # <<>> /\ ~stuck /\ j \in Jobs /\ ctx[j] \in Ctxs
      /\ RequestOK(Head(q), ctx[j], fds) /\ Head(q).op = "fstat"
  BY Zenon, HeadRequest DEF IInv, ServeFstat, Pending
<1>2. UNCHANGED <<content, fds>> /\ ReadFileAfterStat(j, size)
  BY Zenon DEF ServeFstat
<1>3. Len(content) \in Nat /\ size \in Nat /\ (Len(content) < SizeMod => size = Len(content))
  <2>1. Len(content) \in Nat
    BY <1>1, Types
  <2> QED BY Zenon, <2>1, SmallSize
<1> HIDE DEF size
<1>4. /\ ctx[j].pos = 0 /\ ctx[j].buf = <<>> /\ ctx[j].kind \in Reading /\ ctx[j].fd = Head(q).fd
  BY Zenon, <1>1 DEF RequestOK
<1>5. /\ c \in Ctxs /\ c.kind = ctx[j].kind /\ c.seen = ctx[j].seen /\ c.fd = ctx[j].fd
      /\ c.size = size /\ c.pos = 0 /\ c.buf = <<>>
  BY Zenon, <1>1, <1>3, <1>4 DEF Ctxs
<1>6. /\ e \in Ctxs /\ e.kind = ctx[j].kind /\ e.seen = ctx[j].seen /\ e.fd = ctx[j].fd
      /\ e.pos = 0 /\ e.err /\ e.size = size
  BY Zenon, <1>1, <1>3, <1>4 DEF Ctxs
<1>7. SameOwners /\ OthersKept(j, fds, fds') /\ content' \in Seq(Bytes)
  BY Zenon, <1>1, <1>2, SameFds, SameContent DEF SameOwners, Control, OwnDescriptor, TypeOK
<1>8. \/ size > MaxLength /\ Close(j, e)
      \/ ctx' = [ctx EXCEPT ![j] = c] /\ Submit(<<ReadRequest(j, c)>>) /\ UNCHANGED <<rets, stuck>>
  BY Zenon, <1>2 DEF ReadFileAfterStat
<1> HIDE DEF j, c, e
<1>9. CASE Close(j, e)
  <2>1. OwnStep(j, e)
    BY <1>1, <1>3, <1>6, <1>7, <1>9 DEF OwnStep, Close, j
  <2>2. DataStep(j, e)
    BY Zenon, <1>1, <1>2, SameContent DEF DataStep
  <2> QED BY Zenon, <1>1, <1>2, <1>4, <1>6, <1>7, <1>9, <2>1, <2>2, CloseStep
<1>10. CASE /\ ctx' = [ctx EXCEPT ![j] = c] /\ Submit(<<ReadRequest(j, c)>>)
            /\ UNCHANGED <<rets, stuck>>
  <2>1. OwnStep(j, c)
    BY <1>1, <1>3, <1>5, <1>7, <1>10 DEF OwnStep, j
  <2>2. DataStep(j, c)
    BY Zenon, <1>1, <1>2, SameContent DEF DataStep
  <2>3. Begins(c.buf, content) /\ Len(c.buf) = 0
    BY <1>3, <1>5 DEF Begins
  <2>4. c.kind = "readFile" /\ AppendOnly =>
          /\ fds'[c.fd].off = 0 /\ (c.size # 0 /\ Len(content) < SizeMod => c.size >= c.seen)
    <3>1. SUFFICES ASSUME c.kind = "readFile", AppendOnly
                   PROVE  fds[c.fd].off = 0 /\ c.seen <= Len(content)
      BY Zenon, <1>1, <1>2, <1>3, <1>5 DEF Ctxs
    <3>2. ReadOK(Head(q), ctx[j], fds, content)
      <4>1. 1 \in DOMAIN q /\ Head(q) = q[1] /\ q[1].job = j /\ ctx[j].kind = "readFile"
        BY <1>1, <1>5, <3>1, HeadRequest DEF j
      <4> QED BY Zenon, <3>1, <4>1 DEF IInv, ReadInv
    <3> QED BY Zenon, <1>1, <1>4, <1>5, <3>1, <3>2 DEF IInv, ReadInv, ReadOK
  <2>5. c.size # 0 => c.pos < c.size
    BY <1>3, <1>5
  <2> QED BY Zenon, <1>1, <1>2, <1>4, <1>5, <1>7, <1>10, <2>1, <2>2, <2>3, <2>4, <2>5, ReadNextStep
<1> QED BY Zenon, <1>8, <1>9, <1>10

\* What the concatenation of two sequences is.
LEMMA Concat ==
  ASSUME NEW a \in Seq(Bytes), NEW b \in Seq(Bytes)
  PROVE  /\ a \o b \in Seq(Bytes) /\ Len(a \o b) = Len(a) + Len(b)
         /\ \A i \in 1 .. Len(a) + Len(b) :
              (a \o b)[i] = IF i <= Len(a) THEN a[i] ELSE b[i - Len(a)]
OBVIOUS

\* What read(2) returns: n bytes of the file from its offset on.
LEMMA BytesRead ==
  ASSUME NEW s \in Seq(Bytes), NEW off \in Nat, NEW n \in Nat, n = 0 \/ off + n <= Len(s)
  PROVE  /\ SubSeq(s, off + 1, off + n) \in Seq(Bytes)
         /\ Len(SubSeq(s, off + 1, off + n)) = n
         /\ \A i \in 1 .. n : SubSeq(s, off + 1, off + n)[i] = s[off + i]
<1>1. Len(SubSeq(s, off + 1, off + n)) = n
  OBVIOUS
<1>2. \A i \in 1 .. n : SubSeq(s, off + 1, off + n)[i] = s[off + i]
  OBVIOUS
<1>3. SubSeq(s, off + 1, off + n) \in Seq(Bytes)
  OBVIOUS
<1> QED BY Zenon, <1>1, <1>2, <1>3

\* The buffer that holds the file up to the offset holds it up to the new one.
LEMMA BufferGrows ==
  ASSUME NEW s \in Seq(Bytes), NEW b \in Seq(Bytes), NEW n \in Nat,
         Begins(b, s), n = 0 \/ Len(b) + n <= Len(s)
  PROVE  /\ Len(b \o SubSeq(s, Len(b) + 1, Len(b) + n)) = Len(b) + n
         /\ Begins(b \o SubSeq(s, Len(b) + 1, Len(b) + n), s)
<1> DEFINE u == SubSeq(s, Len(b) + 1, Len(b) + n)
           t == b \o u
<1>1. Len(b) \in Nat /\ Len(s) \in Nat
  OBVIOUS
<1>2. u \in Seq(Bytes) /\ Len(u) = n /\ \A i \in 1 .. n : u[i] = s[Len(b) + i]
  BY <1>1, BytesRead
<1> HIDE DEF u
<1>3. /\ t \in Seq(Bytes) /\ Len(t) = Len(b) + n
      /\ \A i \in 1 .. Len(b) : t[i] = b[i]
      /\ \A i \in Len(b) + 1 .. Len(b) + n : t[i] = u[i - Len(b)]
  <2>1. /\ t \in Seq(Bytes) /\ Len(t) = Len(b) + Len(u)
        /\ \A i \in 1 .. Len(b) + Len(u) :
             t[i] = IF i <= Len(b) THEN b[i] ELSE u[i - Len(b)]
    BY Zenon, <1>2, Concat
  <2> QED BY <1>1, <1>2, <2>1
<1> HIDE DEF t
<1>4. ASSUME NEW i \in 1 .. Len(t) PROVE t[i] = s[i]
  <2>1. CASE i <= Len(b)
    BY <1>1, <1>3, <2>1 DEF Begins
  <2>2. CASE i > Len(b)
    <3>1. i \in Len(b) + 1 .. Len(b) + n /\ i - Len(b) \in 1 .. n
      BY <1>1, <1>3, <2>2
    <3> QED BY <1>1, <1>2, <1>3, <3>1
  <2> QED BY <1>1, <2>1, <2>2
<1>5. Begins(t, s)
  BY <1>1, <1>3, <1>4 DEF Begins
<1> QED BY Zenon, <1>3, <1>5 DEF t, u

\* read(2) fails: readFile closes the descriptor and returns the error.
LEMMA ReadFailedStep ==
  ASSUME IInv, Pending("read"), UNCHANGED <<fds, content>>,
         Close(Head(q).job, [ctx[Head(q).job] EXCEPT !.err = TRUE])
  PROVE  IInv'
<1> DEFINE j == Head(q).job
           c == [ctx[j] EXCEPT !.err = TRUE]
<1>1. /\ Control /\ q # <<>> /\ ~stuck /\ j \in Jobs /\ ctx[j] \in Ctxs
      /\ RequestOK(Head(q), ctx[j], fds) /\ Head(q).op = "read"
      /\ ctx[j].size # 0 => ctx[j].pos <= ctx[j].size
  BY Zenon, HeadRequest, SameContext DEF IInv, Pending
<1>2. /\ c \in Ctxs /\ c.kind = ctx[j].kind /\ c.seen = ctx[j].seen /\ c.fd = ctx[j].fd
      /\ c.pos = ctx[j].pos /\ c.size = ctx[j].size /\ c.err /\ c.kind \in Reading
  BY Zenon, <1>1 DEF Ctxs, RequestOK
<1>3. Close(j, c)
  BY Zenon
<1> HIDE DEF j, c
<1>4. SameOwners /\ OthersKept(j, fds, fds') /\ content' \in Seq(Bytes)
  BY Zenon, <1>1, SameFds, SameContent DEF SameOwners, Control, OwnDescriptor, TypeOK
<1>5. OwnStep(j, c)
  BY Zenon, <1>1, <1>2, <1>3, <1>4 DEF OwnStep, Close, j
<1>6. DataStep(j, c)
  BY Zenon, <1>1, SameContent DEF DataStep
<1> QED BY Zenon, <1>1, <1>2, <1>3, <1>4, <1>5, <1>6, CloseStep


\* The context of the reading call after n bytes were read at offset off.
AfterRead(off, n) ==
  [ctx[Head(q).job] EXCEPT !.pos = @ + n, !.buf = @ \o SubSeq(content, off + 1, off + n)]

\* The context after n bytes were read: the buffer stays inside its size, and
\* holds how the file begins if no one else moves the offset.
LEMMA ReadContext ==
  ASSUME IInv, Pending("read"), NEW n \in 0 .. Head(q).len,
         NEW off, off = fds[Head(q).fd].off, n = 0 \/ off + n <= Len(content)
  PROVE  LET c == AfterRead(off, n) IN
         /\ c \in Ctxs /\ c.kind = ctx[Head(q).job].kind /\ c.seen = ctx[Head(q).job].seen
         /\ c.fd = ctx[Head(q).job].fd /\ c.size = ctx[Head(q).job].size /\ off \in Nat
         /\ c.size # 0 => c.pos <= c.size
         /\ c.kind = "readFile" /\ AppendOnly =>
              /\ c.pos = off + n /\ Len(c.buf) = off + n /\ Begins(c.buf, content)
              /\ c.size # 0 /\ Len(content) < SizeMod => c.size >= c.seen
<1> DEFINE j == Head(q).job
           bytes == SubSeq(content, off + 1, off + n)
           c == AfterRead(off, n)
<1>0. c = [ctx[j] EXCEPT !.pos = @ + n, !.buf = @ \o bytes]
  BY Zenon DEF AfterRead
<1> HIDE DEF c
<1>1. /\ Control /\ q # <<>> /\ ~stuck /\ j \in Jobs /\ ctx[j] \in Ctxs
      /\ RequestOK(Head(q), ctx[j], fds) /\ Head(q).op = "read" /\ content \in Seq(Bytes)
      /\ Head(q) = q[1] /\ 1 \in DOMAIN q /\ Head(q).len \in Nat
  BY HeadRequest, Types DEF IInv, Pending
<1>2. off \in Nat /\ n \in Nat
  <2>1. Head(q).fd \in DOMAIN fds
    BY Zenon, <1>1 DEF RequestOK
  <2>2. fds[Head(q).fd] \in [owner : Jobs \cup {App}, off : Nat]
    BY Zenon, <1>1, <2>1 DEF Control, OwnDescriptor, TypeOK
  <2> QED BY <2>2
<1>3. bytes \in Seq(Bytes)
  BY Zenon, <1>1, <1>2, BytesRead
<1>4. /\ c.kind = ctx[j].kind /\ c.seen = ctx[j].seen /\ c.fd = ctx[j].fd
      /\ c.size = ctx[j].size /\ c.err = ctx[j].err
      /\ c.pos = ctx[j].pos + n /\ c.buf = ctx[j].buf \o bytes
  BY Zenon, <1>0, <1>1 DEF Ctxs
<1>5. c \in Ctxs
  <2>1. ctx[j].pos + n \in Nat
    BY <1>1, <1>2 DEF Ctxs
  <2>2. ctx[j].buf \o bytes \in Seq(Bytes)
    <3>1. ctx[j].buf \in Seq(Bytes)
      BY Zenon, <1>1 DEF Ctxs
    <3> HIDE DEF bytes
    <3> QED BY Zenon, <1>3, <3>1, Concat
  <2> HIDE DEF bytes
  <2> QED BY Zenon, <1>0, <1>1, <2>1, <2>2 DEF Ctxs
<1>6. c.size # 0 => c.pos <= c.size
  <2>1. ctx[j].size \in Nat /\ ctx[j].pos \in Nat
    BY Zenon, <1>1 DEF Ctxs
  <2>2. ctx[j].size # 0 => Head(q).len = ctx[j].size - ctx[j].pos
    BY Zenon, <1>1 DEF RequestOK
  <2>3. n <= Head(q).len /\ Head(q).len \in Nat
    BY <1>1
  <2>4. SUFFICES ASSUME ctx[j].size # 0 PROVE ctx[j].pos + n <= ctx[j].size
    BY Zenon, <1>4
  <2> HIDE DEF j
  <2> QED BY <1>2, <2>1, <2>2, <2>3, <2>4
<1>7. ASSUME c.kind = "readFile", AppendOnly
      PROVE  /\ c.pos = off + n /\ Len(c.buf) = off + n /\ Begins(c.buf, content)
             /\ c.size # 0 /\ Len(content) < SizeMod => c.size >= c.seen
  <2>1. ReadOK(Head(q), ctx[j], fds, content)
    BY Zenon, <1>1, <1>4, <1>7 DEF IInv, ReadInv
  <2>2. /\ ctx[j].pos = off /\ Len(ctx[j].buf) = off /\ Begins(ctx[j].buf, content)
        /\ ctx[j].size # 0 /\ Len(content) < SizeMod => ctx[j].size >= ctx[j].seen
        /\ ctx[j].buf \in Seq(Bytes)
    BY Zenon, <1>1, <2>1 DEF ReadOK, Ctxs
  <2> HIDE DEF j
  <2>3. /\ Len(ctx[j].buf \o bytes) = off + n /\ Begins(ctx[j].buf \o bytes, content)
    <3> DEFINE b == ctx[j].buf
    <3>1. b \in Seq(Bytes) /\ Len(b) = off /\ Begins(b, content)
      BY Zenon, <2>2
    <3> HIDE DEF b
    <3>2. /\ Len(b \o SubSeq(content, Len(b) + 1, Len(b) + n)) = Len(b) + n
          /\ Begins(b \o SubSeq(content, Len(b) + 1, Len(b) + n), content)
      BY Zenon, <1>1, <1>2, <3>1, BufferGrows
    <3> QED BY Zenon, <3>1, <3>2 DEF b
  <2> QED BY Zenon, <1>4, <2>2, <2>3
<1> QED BY Zenon, <1>2, <1>4, <1>5, <1>6, <1>7 DEF c

\* readFileAfterRead: the end of the file or of the buffer, or another read.
LEMMA ReadBytesStep ==
  ASSUME IInv, Pending("read"), UNCHANGED content, NEW n \in 0 .. Head(q).len,
         NEW off, off = fds[Head(q).fd].off, n = 0 \/ off + n <= Len(content),
         n = 0 => Len(content) <= off, Head(q).fd \in DOMAIN fds,
         fds' = [fds EXCEPT ![Head(q).fd].off = off + n],
         ReadFileAfterRead(Head(q).job, n, SubSeq(content, off + 1, off + n))
  PROVE  IInv'
<1> DEFINE j == Head(q).job
           c == AfterRead(off, n)
           e == [c EXCEPT !.err = FALSE]
<1>1. /\ Control /\ q # <<>> /\ ~stuck /\ j \in Jobs /\ ctx[j] \in Ctxs /\ j # App
      /\ RequestOK(Head(q), ctx[j], fds) /\ Head(q).op = "read" /\ content \in Seq(Bytes)
      /\ Head(q).len \in Nat /\ Len(content) \in Nat /\ n \in Nat
  BY HeadRequest, Types DEF IInv, Pending
<1>2. /\ c \in Ctxs /\ c.kind = ctx[j].kind /\ c.seen = ctx[j].seen
      /\ c.fd = ctx[j].fd /\ c.size = ctx[j].size /\ off \in Nat
      /\ c.size # 0 => c.pos <= c.size
      /\ c.kind = "readFile" /\ AppendOnly =>
           /\ c.pos = off + n /\ Len(c.buf) = off + n /\ Begins(c.buf, content)
           /\ c.size # 0 /\ Len(content) < SizeMod => c.size >= c.seen
  BY ReadContext
<1>3. \/ (n = 0 \/ (c.size # 0 /\ c.pos = c.size)) /\ Close(j, e)
      \/ /\ n # 0 /\ (c.size # 0 => c.pos # c.size)
         /\ ctx' = [ctx EXCEPT ![j] = c]
         /\ Submit(<<ReadRequest(j, c)>>)
         /\ UNCHANGED <<rets, stuck>>
  BY Zenon DEF ReadFileAfterRead, AfterRead
<1> HIDE DEF c
<1>4. /\ e \in Ctxs /\ e.kind = c.kind /\ e.seen = c.seen /\ e.fd = c.fd /\ e.size = c.size
      /\ e.pos = c.pos /\ e.buf = c.buf
  BY Zenon, <1>2 DEF Ctxs
<1> HIDE DEF j, e
<1>5. ctx[j].kind \in Reading /\ ctx[j].fd = Head(q).fd
  BY Zenon, <1>1 DEF RequestOK
<1>6. /\ DOMAIN fds' = DOMAIN fds
      /\ fds'[Head(q).fd] = [fds[Head(q).fd] EXCEPT !.off = off + n]
      /\ \A f \in DOMAIN fds \ {Head(q).fd} : fds'[f] = fds[f]
  BY Zenon
<1>7. /\ fds[Head(q).fd] \in [owner : Jobs \cup {App}, off : Nat]
      /\ fds'[Head(q).fd].off = off + n
      /\ fds'[Head(q).fd].owner = fds[Head(q).fd].owner
      /\ fds'[Head(q).fd] \in [owner : Jobs \cup {App}, off : Nat]
  <2>1. fds[Head(q).fd] \in [owner : Jobs \cup {App}, off : Nat]
    BY Zenon, <1>1 DEF Control, OwnDescriptor, TypeOK
  <2>2. off + n \in Nat
    BY <1>1, <1>2
  <2> QED BY Zenon, <1>6, <2>1, <2>2
<1>8. SameOwners
  BY Zenon, <1>1, <1>6, <1>7 DEF SameOwners, Control, OwnDescriptor, TypeOK
<1>9. OthersKept(j, fds, fds') /\ content' \in Seq(Bytes)
  BY Zenon, <1>1, <1>8 DEF OthersKept, SameOwners, Control, OwnDescriptor, TypeOK
<1>10. fds[Head(q).fd].owner \in {j, App}
  BY Zenon, <1>1 DEF Control, OwnDescriptor, RequestOK, j
<1>11. \A f \in DOMAIN fds : fds[f].owner \notin {j, App} => fds'[f] = fds[f]
  BY Zenon, <1>6, <1>10
<1>12. CASE (n = 0 \/ (c.size # 0 /\ c.pos = c.size)) /\ Close(j, e)
  <2>1. OwnStep(j, e)
    BY Zenon, <1>1, <1>2, <1>4, <1>9, <1>12 DEF OwnStep, Close, j
  <2>2. DataStep(j, e)
    BY Zenon, <1>1, <1>11, SameContent DEF DataStep
  <2>3. e.kind = "readFile" /\ AppendOnly => Whole(e.buf, e, content)
    <3>1. SUFFICES ASSUME c.kind = "readFile", AppendOnly, Len(content) < SizeMod
                   PROVE  Len(c.buf) >= c.seen
      BY Zenon, <1>2, <1>4 DEF Whole
    <3>2. c.seen \in Nat /\ c.seen <= Len(content) /\ c.size \in Nat
      BY Zenon, <1>1, <1>2, <3>1 DEF IInv, ReadInv, Ctxs
    <3>3. CASE n = 0
      BY <1>1, <1>2, <3>1, <3>2, <3>3
    <3>4. CASE c.size # 0 /\ c.pos = c.size
      BY Zenon, <1>1, <1>2, <3>1, <3>2, <3>4
    <3> QED BY Zenon, <1>12, <3>3, <3>4
  <2> QED BY Zenon, <1>1, <1>2, <1>4, <1>5, <1>8, <1>12, <2>1, <2>2, <2>3, CloseStep
<1>13. CASE /\ n # 0 /\ (c.size # 0 => c.pos # c.size)
            /\ ctx' = [ctx EXCEPT ![j] = c]
            /\ Submit(<<ReadRequest(j, c)>>)
            /\ UNCHANGED <<rets, stuck>>
  <2>1. OwnStep(j, c)
    BY Zenon, <1>1, <1>2, <1>9, <1>13 DEF OwnStep, j
  <2>2. DataStep(j, c)
    BY Zenon, <1>1, <1>11, SameContent DEF DataStep
  <2>3. c.size # 0 => c.pos < c.size
    BY <1>2, <1>13 DEF Ctxs
  <2>4. c.kind = "readFile" /\ AppendOnly =>
          /\ c.pos = Len(c.buf) /\ fds'[c.fd].off = c.pos /\ Begins(c.buf, content)
          /\ c.size # 0 /\ Len(content) < SizeMod => c.size >= c.seen
    BY Zenon, <1>2, <1>5, <1>7
  <2> QED BY Zenon, <1>1, <1>2, <1>5, <1>8, <1>13, <2>1, <2>2, <2>3, <2>4, ReadNextStep
<1> QED BY Zenon, <1>3, <1>12, <1>13

\* read(2) at the descriptor's offset, and its callback.
LEMMA ServeReadStep ==
  ASSUME IInv, ServeRead
  PROVE  IInv'
<1> DEFINE f == Head(q).fd
           off == fds[f].off
           avail == IF Len(content) > off THEN Len(content) - off ELSE 0
           most == IF avail < Head(q).len THEN avail ELSE Head(q).len
<1>1. /\ Pending("read") /\ q # <<>> /\ Control /\ UNCHANGED content
      /\ Head(q).len \in Nat /\ Len(content) \in Nat
      /\ RequestOK(Head(q), ctx[Head(q).job], fds) /\ Head(q).op = "read"
  <2>1. Pending("read") /\ q # <<>> /\ Control /\ UNCHANGED content /\ Head(q).op = "read"
    BY Zenon DEF IInv, ServeRead, Pending
  <2> QED BY <2>1, HeadRequest, Types
<1>2. CASE UNCHANGED fds /\ Close(Head(q).job, [ctx[Head(q).job] EXCEPT !.err = TRUE])
  BY Zenon, <1>1, <1>2, ReadFailedStep
<1>3. ASSUME f \in DOMAIN fds, NEW n \in 0 .. most, n = 0 => most = 0,
             fds' = [fds EXCEPT ![f].off = off + n],
             ReadFileAfterRead(Head(q).job, n, SubSeq(content, off + 1, off + n))
      PROVE  IInv'
  <2>1. off \in Nat
    BY Zenon, <1>1, <1>3 DEF Control, OwnDescriptor, TypeOK
  <2>2. Head(q).len > 0
    <3>1. ctx[Head(q).job].size \in Nat /\ ctx[Head(q).job].pos \in Nat
      BY Zenon, <1>1, HeadRequest DEF Ctxs
    <3> QED BY <1>1, <3>1, LengthAssumption DEF RequestOK
  <2> HIDE DEF off
  <2>3. /\ n \in 0 .. Head(q).len /\ (n = 0 \/ off + n <= Len(content))
        /\ n = 0 => Len(content) <= off
    BY <1>1, <1>3, <2>1, <2>2
  <2> HIDE DEF f
  <2> QED BY Zenon, <1>1, <1>3, <2>3, ReadBytesStep DEF f, off
<1> QED BY Zenon, <1>2, <1>3 DEF ServeRead


\* What a write of n bytes of call j at offset off makes of the file.
LEMMA FileWritten ==
  ASSUME Control, NEW j \in Jobs, NEW n \in Nat, NEW off \in Nat, ctx[j].pos \in Nat
  PROVE  /\ Written(j, n, off) \in Seq(Bytes)
         /\ Len(Written(j, n, off)) = IF Len(content) <= off + n THEN off + n ELSE Len(content)
         /\ \A i \in 1 .. Len(Written(j, n, off)) :
              Written(j, n, off)[i] =
                IF off < i /\ i <= off + n THEN <<j, ctx[j].pos + i - off>>
                ELSE IF i <= Len(content) THEN content[i] ELSE <<App, 0>>
<1> DEFINE m == IF Len(content) <= off + n THEN off + n ELSE Len(content)
           byte(i) == IF off < i /\ i <= off + n THEN <<j, ctx[j].pos + i - off>>
                      ELSE IF i <= Len(content) THEN content[i] ELSE <<App, 0>>
<1>1. content \in Seq(Bytes) /\ Len(content) \in Nat /\ m \in Nat
  BY Types
<1>2. Written(j, n, off) = [i \in 1 .. m |-> byte(i)]
  BY Zenon DEF Written
<1>3. ASSUME NEW i \in 1 .. m PROVE byte(i) \in Bytes
  <2>1. CASE off < i /\ i <= off + n
    BY <2>1 DEF Bytes
  <2>2. CASE ~(off < i /\ i <= off + n) /\ i <= Len(content)
    BY <1>1, <2>2
  <2>3. CASE ~(off < i /\ i <= off + n) /\ ~(i <= Len(content))
    BY Zenon, <2>3 DEF Bytes
  <2> QED BY Zenon, <2>1, <2>2, <2>3
<1> HIDE DEF byte, m
<1>4. /\ [i \in 1 .. m |-> byte(i)] \in Seq(Bytes)
      /\ Len([i \in 1 .. m |-> byte(i)]) = m
  BY <1>1, <1>3
<1> QED BY Zenon, <1>2, <1>4 DEF byte, m

\* An append leaves the bytes of every call in order.
LEMMA AppendWritten ==
  ASSUME IInv, AppendOnly, NEW j \in Jobs, ctx[j].kind = "appendFile",
         NEW n \in Nat, content' = Written(j, n, Len(content))
  PROVE  /\ Begins(content, content')
         /\ \A k \in Jobs \ {j} :
              HasBytes(k, IF ctx[k].kind = "appendFile" THEN ctx[k].pos ELSE 0, content')
         /\ HasBytes(j, ctx[j].pos + n, content')
<1> DEFINE len == Len(content)
           pos == ctx[j].pos
<1>1. Control /\ content \in Seq(Bytes) /\ len \in Nat /\ pos \in Nat
  BY Types DEF IInv, Ctxs
<1>2. /\ content' \in Seq(Bytes) /\ Len(content') = len + n
      /\ \A i \in 1 .. len + n :
           content'[i] = IF len < i THEN <<j, pos + i - len>> ELSE content[i]
  <2>1. /\ content' \in Seq(Bytes)
        /\ Len(content') = IF len <= len + n THEN len + n ELSE len
        /\ \A i \in 1 .. Len(content') : content'[i] =
             IF len < i /\ i <= len + n THEN <<j, pos + i - len>>
             ELSE IF i <= len THEN content[i] ELSE <<App, 0>>
    BY <1>1, FileWritten
  <2> HIDE DEF pos, len
  <2>2. Len(content') = len + n
    BY <1>1, <2>1
  <2>3. ASSUME NEW i \in 1 .. len + n
        PROVE  content'[i] = IF len < i THEN <<j, pos + i - len>> ELSE content[i]
    <3>1. i \in 1 .. Len(content') /\ i <= len + n
      BY <1>1, <2>2
    <3>2. CASE len < i
      BY Zenon, <2>1, <3>1, <3>2
    <3>3. CASE ~(len < i)
      <4>1. i <= len
        BY <1>1, <3>3
      <4> QED BY Zenon, <2>1, <3>1, <3>3, <4>1
    <3> QED BY Zenon, <3>2, <3>3
  <2> QED BY Zenon, <2>1, <2>2, <2>3
<1>3. DOMAIN content = 1 .. len /\ DOMAIN content' = 1 .. len + n
  BY <1>1, <1>2
<1>4. \A k \in Jobs : HasBytes(k, IF ctx[k].kind = "appendFile" THEN ctx[k].pos ELSE 0, content)
  BY Zenon DEF IInv, AppendInv
<1>5. HasBytes(j, pos, content)
  BY Zenon, <1>4
<1>6. Begins(content, content')
  BY <1>1, <1>2 DEF Begins
<1> HIDE DEF len, pos
<1>7. /\ \A i \in 1 .. len : content'[i] = content[i]
      /\ \A i \in len + 1 .. len + n :
           /\ content'[i] = <<j, pos + i - len>>
           /\ content'[i][1] = j /\ content'[i][2] = pos + i - len
  BY <1>1, <1>2
<1>8. ASSUME NEW k \in Jobs \ {j}, NEW m, HasBytes(k, m, content) PROVE HasBytes(k, m, content')
  <2>1. \A p \in DOMAIN content' : content'[p][1] = k => p \in 1 .. len
    BY <1>1, <1>3, <1>7, <1>8
  <2>2. 1 .. len \subseteq 1 .. len + n
    BY <1>1
  <2>3. \A p \in DOMAIN content' : content'[p][1] = k => content'[p][2] \in 1 .. m
    BY Zenon, <1>3, <1>7, <1>8, <2>1 DEF HasBytes
  <2>4. ASSUME NEW i \in 1 .. m PROVE \E p \in DOMAIN content' : content'[p] = <<k, i>>
    <3>1. PICK p \in DOMAIN content : content[p] = <<k, i>>
      BY Zenon, <1>8 DEF HasBytes
    <3> QED BY Zenon, <1>3, <1>7, <2>2, <3>1
  <2>5. \A p, r \in DOMAIN content' :
          content'[p][1] = k /\ content'[r][1] = k /\ p < r => content'[p][2] < content'[r][2]
    BY <1>3, <1>7, <1>8, <2>1 DEF HasBytes
  <2> QED BY Zenon, <2>3, <2>4, <2>5 DEF HasBytes
<1>9. HasBytes(j, pos + n, content')
  <2>1. ASSUME NEW p \in DOMAIN content', content'[p][1] = j PROVE content'[p][2] \in 1 .. pos + n
    <3>1. CASE p \in 1 .. len
      BY <1>1, <1>3, <1>5, <1>7, <2>1, <3>1 DEF HasBytes
    <3>2. CASE p \in len + 1 .. len + n
      BY <1>1, <1>7, <3>2
    <3> QED BY <1>1, <1>3, <3>1, <3>2
  <2>2. ASSUME NEW i \in 1 .. pos + n PROVE \E p \in DOMAIN content' : content'[p] = <<j, i>>
    <3>1. CASE i \in 1 .. pos
      <4>1. PICK p \in DOMAIN content : content[p] = <<j, i>>
        BY Zenon, <1>5, <3>1 DEF HasBytes
      <4> QED BY <1>1, <1>3, <1>7, <4>1
    <3>2. CASE i \in pos + 1 .. pos + n
      <4>1. i - pos + len \in len + 1 .. len + n /\ pos + (i - pos + len) - len = i
        BY <1>1, <3>2
      <4>2. content'[i - pos + len] = <<j, i>>
        BY Zenon, <1>7, <4>1
      <4>3. i - pos + len \in DOMAIN content'
        BY <1>1, <1>3, <4>1
      <4> QED BY Zenon, <4>2, <4>3
    <3> QED BY <1>1, <3>1, <3>2
  <2>3. ASSUME NEW p \in DOMAIN content', NEW r \in DOMAIN content',
               content'[p][1] = j, content'[r][1] = j, p < r
        PROVE  content'[p][2] < content'[r][2]
    <3>1. CASE r \in 1 .. len
      <4>1. p \in 1 .. len
        BY <1>1, <1>3, <2>3, <3>1
      <4> QED BY Zenon, <1>3, <1>5, <1>7, <2>3, <3>1, <4>1 DEF HasBytes
    <3>2. CASE r \in len + 1 .. len + n /\ p \in 1 .. len
      <4>1. content'[p][2] \in 1 .. pos
        BY Zenon, <1>3, <1>5, <1>7, <2>3, <3>2 DEF HasBytes
      <4> QED BY <1>1, <1>7, <3>2, <4>1
    <3>3. CASE r \in len + 1 .. len + n /\ p \in len + 1 .. len + n
      BY <1>1, <1>7, <2>3, <3>3
    <3> QED BY <1>1, <1>3, <2>3, <3>1, <3>2, <3>3
  <2> QED BY Zenon, <2>1, <2>2, <2>3 DEF HasBytes
<1>10. \A k \in Jobs \ {j} :
         HasBytes(k, IF ctx[k].kind = "appendFile" THEN ctx[k].pos ELSE 0, content')
  BY Zenon, <1>4, <1>8
<1> QED BY Zenon, <1>6, <1>9, <1>10 DEF pos


\* A write by the only writer continues its data.
LEMMA AloneWritten ==
  ASSUME Control, NEW j \in Jobs, ctx[j].pos \in Nat, NEW n \in Nat,
         content = Data(j, ctx[j].pos), content' = Written(j, n, ctx[j].pos)
  PROVE  content' = Data(j, ctx[j].pos + n)
<1> DEFINE pos == ctx[j].pos
<1>1. pos \in Nat /\ Len(content) = pos /\ \A i \in 1 .. pos : content[i] = <<j, i>>
  BY DEF Data
<1>2. /\ content' \in Seq(Bytes)
      /\ Len(content') = IF Len(content) <= pos + n THEN pos + n ELSE Len(content)
      /\ \A i \in 1 .. Len(content') :
           content'[i] = IF pos < i /\ i <= pos + n THEN <<j, pos + i - pos>>
                         ELSE IF i <= Len(content) THEN content[i] ELSE <<App, 0>>
  BY Zenon, FileWritten
<1> HIDE DEF pos
<1>3. Len(content') = pos + n
  BY <1>1, <1>2
<1>4. ASSUME NEW i \in 1 .. pos + n PROVE content'[i] = <<j, i>>
  <2>1. i \in 1 .. Len(content') /\ i <= pos + n
    BY <1>1, <1>3
  <2>2. CASE pos < i
    <3>1. pos + i - pos = i
      BY <1>1
    <3> QED BY Zenon, <1>2, <2>1, <2>2, <3>1
  <2>3. CASE ~(pos < i)
    <3>1. i \in 1 .. pos /\ i <= Len(content)
      BY <1>1, <2>3
    <3>2. content'[i] = content[i]
      BY Zenon, <1>2, <2>1, <2>3, <3>1
    <3> QED BY Zenon, <1>1, <3>1, <3>2
  <2> QED BY Zenon, <2>2, <2>3
<1>5. content' = [i \in 1 .. pos + n |-> <<j, i>>]
  <2>1. content' \in [1 .. pos + n -> Bytes]
    BY <1>2, <1>3
  <2>2. content' = [i \in 1 .. pos + n |-> content'[i]]
    BY Zenon, <2>1
  <2> QED BY Zenon, <1>4, <2>2
<1> QED BY Zenon, <1>5 DEF Data, pos

\* The system call of writeAll fails.
LEMMA WriteErrStep ==
  ASSUME IInv, Pending("write"), WriteErr(Head(q).job), UNCHANGED <<content, fds, stuck>>
  PROVE  IInv'
<1> DEFINE j == Head(q).job
           old == ctx[j]
           c == [old EXCEPT !.err = TRUE]
           res == [err |-> TRUE, data |-> <<>>]
<1>1. /\ Control /\ q # <<>> /\ ~stuck /\ j \in Jobs /\ old \in Ctxs
      /\ RequestOK(Head(q), old, fds) /\ Head(q).op = "write" /\ stuck' \in BOOLEAN
      /\ old.size # 0 => old.pos <= old.size
      /\ Head(q) = q[1] /\ 1 \in DOMAIN q
  <2>1. Control /\ q # <<>> /\ ~stuck /\ Head(q).op = "write"
    BY Zenon DEF IInv, Pending
  <2>2. stuck' \in BOOLEAN
    BY Zenon, <2>1 DEF Control, OwnDescriptor, TypeOK
  <2> QED BY <2>1, <2>2, HeadRequest, SameContext
<1>2. /\ c \in Ctxs /\ c.kind = old.kind /\ c.seen = old.seen /\ c.fd = old.fd
      /\ c.pos = old.pos /\ c.size = old.size /\ c.err
  BY Zenon, <1>1 DEF Ctxs
<1>3. /\ old.kind \in Writing /\ old.fd = Head(q).fd /\ Head(q).fd \in DOMAIN fds
      /\ old.kind # "readFile"
  BY Zenon, <1>1 DEF RequestOK, Writing
<1>4. res \in Results /\ res.err
  BY DEF Results
<1>5. \/ IsUserFd(j) /\ Submit(<<>>) /\ Answers(j, res) /\ UNCHANGED ctx
      \/ /\ ~IsUserFd(j) /\ Submit(<<Request(j, "close", old.fd, 0)>>)
         /\ ctx' = [ctx EXCEPT ![j] = c] /\ UNCHANGED rets
  BY Zenon, <1>1, Types DEF WriteErr, Return, Answers
<1> HIDE DEF j, c, res, old
<1>6. OthersKept(j, fds, fds') /\ content' \in Seq(Bytes) /\ Begins(content, content')
  BY Zenon, <1>1, SameFds, SameContent
<1>7. \A f \in DOMAIN fds' : fds'[f].owner = j => f = Head(q).fd /\ f # UserFd
  BY Zenon, <1>1, Held DEF j
<1>8. CASE IsUserFd(j) /\ Submit(<<>>) /\ Answers(j, res) /\ UNCHANGED ctx
  <2>1. OwnStep(j, old)
    BY Zenon, <1>1, <1>6, <1>8, SameContext DEF OwnStep, j, old
  <2>2. DataStep(j, old)
    BY Zenon, <1>6 DEF DataStep
  <2>3. \A f \in DOMAIN fds' : fds'[f].owner # j
    BY Zenon, <1>1, <1>7, <1>8 DEF IsUserFd, RequestOK, old
  <2>4. AppendInv'
    BY Zenon, <1>1, <2>1, AppendKept DEF IInv, old
  <2> QED BY Zenon, <1>1, <1>4, <1>8, <2>1, <2>2, <2>3, <2>4, Finished
<1>9. CASE /\ ~IsUserFd(j) /\ Submit(<<Request(j, "close", old.fd, 0)>>)
           /\ ctx' = [ctx EXCEPT ![j] = c] /\ UNCHANGED rets
  <2> DEFINE r == Request(j, "close", old.fd, 0)
  <2>1. OwnStep(j, c)
    BY Zenon, <1>1, <1>2, <1>6, <1>9 DEF OwnStep, j, old
  <2>2. DataStep(j, c)
    BY Zenon, <1>6 DEF DataStep
  <2>3. AppendInv'
    BY Zenon, <1>1, <1>2, <2>1, AppendKept DEF IInv, old
  <2>4. r \in Requests /\ r.job = j /\ r.fd = Head(q).fd /\ r.op = "close"
    BY Zenon, <1>1, <1>3 DEF Request, Requests, Ops, Ctxs
  <2>5. Submit(<<r>>)
    BY Zenon, <1>9
  <2> HIDE DEF r
  <2>6. RequestOK(r, c, fds')
    <3>1. c.kind \notin {"readFd", "writeFd", "appendFd"} /\ fds[Head(q).fd].owner = j
      BY Zenon, <1>1, <1>2, <1>3, <1>9 DEF RequestOK, IsUserFd, Writing, old, j
    <3> QED BY Zenon, <1>2, <1>3, <2>4, <3>1 DEF RequestOK
  <2>7. Alone(j) => content' = Data(j, c.pos)
    BY Zenon, <1>1, <1>2 DEF IInv, WriteInv, j, old
  <2>8. \A f \in DOMAIN fds' : fds'[f].owner = j => r.fd = f
    BY Zenon, <1>7, <2>4
  <2> QED BY <1>2, <1>3, <1>9, <2>1, <2>2, <2>3, <2>4, <2>5, <2>6, <2>7, <2>8, Continued
<1> QED BY Zenon, <1>5, <1>8, <1>9


\* n bytes of writeAll's rest were written: done, or the rest follows.
LEMMA WriteAllStep ==
  ASSUME IInv, Pending("write"), NEW n \in 0 .. Head(q).len, UNCHANGED stuck,
         content' = Written(Head(q).job, n, Offset(Head(q).job)),
         fds' = IF ctx[Head(q).job].kind = "appendFd"
                THEN [fds EXCEPT ![UserFd].off = Offset(Head(q).job) + n] ELSE fds,
         WriteAll(Head(q).job, n)
  PROVE  IInv'
<1> DEFINE j == Head(q).job
           old == ctx[j]
           c == [old EXCEPT !.pos = @ + n]
           res == [err |-> FALSE, data |-> <<>>]
<1>1. /\ Control /\ q # <<>> /\ ~stuck /\ Head(q).op = "write" /\ stuck' \in BOOLEAN
  BY Zenon DEF IInv, Pending, Control, OwnDescriptor, TypeOK
<1>2. /\ j \in Jobs /\ old \in Ctxs /\ RequestOK(Head(q), old, fds)
      /\ old.size # 0 => old.pos <= old.size
      /\ Head(q) = q[1] /\ 1 \in DOMAIN q /\ Head(q).len \in Nat
      /\ content \in Seq(Bytes) /\ Len(content) \in Nat
  BY <1>1, HeadRequest, SameContext, Types
<1>3. /\ old.kind \in Writing /\ old.fd = Head(q).fd /\ Head(q).fd \in DOMAIN fds
      /\ old.kind # "readFile" /\ old.pos \in Nat /\ old.pos <= DataLen
      /\ Head(q).len = DataLen - old.pos /\ ~old.err /\ old.size = 0
  BY Zenon, <1>1, <1>2 DEF RequestOK, Writing, Ctxs
<1>4. n \in Nat /\ old.pos + n \in Nat /\ old.pos + n <= DataLen
  <2>1. n \in Nat /\ n <= Head(q).len
    BY <1>2
  <2>2. \A p \in Nat : Head(q).len = DataLen - p => p + n \in Nat /\ p + n <= DataLen
    BY <2>1, LengthAssumption
  <2> QED BY Zenon, <1>3, <2>1, <2>2
<1>5. /\ c \in Ctxs /\ c.kind = old.kind /\ c.seen = old.seen /\ c.fd = old.fd
      /\ c.pos = old.pos + n /\ c.size = old.size /\ c.err = old.err
  BY Zenon, <1>2, <1>4 DEF Ctxs
<1>6. res \in Results /\ ~res.err
  BY DEF Results
<1>7. /\ ctx' = [ctx EXCEPT ![j] = c]
      /\ \/ c.pos = DataLen /\ IsUserFd(j) /\ Submit(<<>>) /\ Answers(j, res)
         \/ /\ c.pos = DataLen /\ ~IsUserFd(j)
            /\ Submit(<<Request(j, "close", c.fd, 0)>>) /\ UNCHANGED rets
         \/ c.pos # DataLen /\ Submit(<<WriteRequest(j, c)>>) /\ UNCHANGED rets
  BY Zenon DEF WriteAll, Return, Answers
<1> HIDE DEF c, res
<1>23. Offset(j) \in Nat /\ fds[UserFd].off \in Nat
  <2>1. fds[UserFd].off \in Nat
    BY Zenon, <1>1 DEF Control, OwnDescriptor, TypeOK
  <2> QED BY Zenon, <1>2, <1>3, <2>1 DEF Offset
<1>8. content' \in Seq(Bytes)
  BY Zenon, <1>1, <1>2, <1>3, <1>4, <1>23, FileWritten
<1>24. /\ DOMAIN fds' = DOMAIN fds /\ \A f \in DOMAIN fds \ {UserFd} : fds'[f] = fds[f]
       /\ UserFd \in DOMAIN fds /\ fds[UserFd].owner = App /\ fds'[UserFd].owner = App
       /\ fds'[UserFd] \in [owner : Jobs \cup {App}, off : Nat]
  <2>1. /\ UserFd \in DOMAIN fds /\ fds[UserFd].owner = App
        /\ fds[UserFd] \in [owner : Jobs \cup {App}, off : Nat]
    BY Zenon, <1>1 DEF Control, OwnDescriptor, TypeOK
  <2>2. Offset(j) + n \in Nat
    BY <1>4, <1>23
  <2>3. CASE fds' = fds
    BY Zenon, <2>1, <2>3
  <2>4. CASE fds' = [fds EXCEPT ![UserFd].off = Offset(j) + n]
    BY Zenon, <2>1, <2>2, <2>4
  <2> QED BY Zenon, <2>3, <2>4
<1>9. OthersKept(j, fds, fds')
  BY Zenon, <1>1, <1>24 DEF OthersKept, Control, OwnDescriptor, TypeOK
<1>10. OwnStep(j, c)
  BY Zenon, <1>1, <1>2, <1>3, <1>5, <1>7, <1>8, <1>9 DEF OwnStep
<1> HIDE DEF j, old
<1>11. AppendOnly =>
         /\ old.kind = "appendFile" /\ Begins(content, content')
         /\ \A k \in Jobs \ {j} :
              HasBytes(k, IF ctx[k].kind = "appendFile" THEN ctx[k].pos ELSE 0, content')
         /\ HasBytes(j, old.pos + n, content')
  <2>1. SUFFICES ASSUME AppendOnly PROVE old.kind = "appendFile"
    BY Zenon, <1>2, <1>4, AppendWritten DEF j, old, Offset
  <2> QED BY Zenon, <1>2, <1>3, <2>1 DEF AppendOnly, Made, Overwriting, Writing, j, old
<1>12. DataStep(j, c)
  BY Zenon, <1>3, <1>5, <1>11, <1>24 DEF DataStep
<1>13. AppendInv'
  <2> SUFFICES ASSUME AppendOnly', NEW k \in Jobs
               PROVE  HasBytes(k, IF ctx'[k].kind = "appendFile" THEN ctx'[k].pos ELSE 0,
                               content')
    BY Zenon DEF AppendInv, HasBytes
  <2>1. AppendOnly /\ ctx'[j] = c /\ \A l \in Jobs \ {j} : ctx'[l] = ctx[l]
    BY Zenon, <1>1, <1>10, MadeKept
  <2>2. CASE k = j
    BY Zenon, <1>5, <1>11, <2>1, <2>2
  <2>3. CASE k # j
    BY Zenon, <1>11, <2>1, <2>3
  <2> QED BY Zenon, <2>2, <2>3
<1>14. Alone(j) => content' = Data(j, c.pos)
  <2>1. SUFFICES ASSUME Alone(j) PROVE content' = Data(j, old.pos + n)
    BY Zenon, <1>5
  <2>2. old.kind = "writeFile" /\ content = Data(j, old.pos)
    BY Zenon, <1>1, <1>2, <2>1 DEF IInv, WriteInv, Alone, j, old
  <2>3. content' = Written(j, n, ctx[j].pos)
    BY Zenon, <2>2 DEF j, old, Offset
  <2> QED BY Zenon, <1>1, <1>2, <1>3, <1>4, <2>2, <2>3, AloneWritten DEF old
<1>15. \A f \in DOMAIN fds' : fds'[f].owner = j => f = Head(q).fd /\ f # UserFd
  BY Zenon, <1>1, <1>2, <1>24, Held, JobsAssumption DEF j
<1>16. ASSUME NEW r \in Requests, r.job = j, r.fd = c.fd, Submit(<<r>>), UNCHANGED rets,
              RequestOK(r, c, fds')
       PROVE  IInv'
  <2>1. \A f \in DOMAIN fds' : fds'[f].owner = j => r.fd = f
    BY Zenon, <1>3, <1>5, <1>15, <1>16
  <2>2. c.kind # "readFile"
    BY Zenon, <1>3, <1>5
  <2> QED BY Zenon, <1>10, <1>12, <1>13, <1>14, <1>16, <2>1, <2>2, Continued
<1>17. c.fd \in Fds /\ c.fd \in DOMAIN fds' /\ c.fd = Head(q).fd
  BY Zenon, <1>3, <1>5, <1>24 DEF Ctxs
<1>18. IF c.kind \in {"readFd", "writeFd", "appendFd"} THEN c.fd = UserFd ELSE fds'[c.fd].owner = j
  BY Zenon, <1>1, <1>2, <1>3, <1>5, <1>24 DEF RequestOK, j
<1>19. IsUserFd(j) <=> c.kind \in {"readFd", "writeFd", "appendFd"}
  BY Zenon, <1>5 DEF IsUserFd, old
<1>20. CASE c.pos = DataLen /\ IsUserFd(j) /\ Submit(<<>>) /\ Answers(j, res)
  <2>1. \A f \in DOMAIN fds' : fds'[f].owner # j
    BY Zenon, <1>15, <1>17, <1>18, <1>19, <1>20
  <2>2. c.kind # "readFile"
    BY Zenon, <1>3, <1>5
  <2> QED BY Zenon, <1>1, <1>6, <1>10, <1>12, <1>13, <1>14, <1>20, <2>1, <2>2, Finished
<1>21. CASE /\ c.pos = DataLen /\ ~IsUserFd(j)
            /\ Submit(<<Request(j, "close", c.fd, 0)>>) /\ UNCHANGED rets
  <2> DEFINE r == Request(j, "close", c.fd, 0)
  <2>1. r \in Requests /\ r.job = j /\ r.fd = c.fd /\ r.op = "close"
    BY Zenon, <1>2, <1>17 DEF Request, Requests, Ops
  <2>2. Submit(<<r>>)
    BY Zenon, <1>21
  <2> HIDE DEF r
  <2>3. RequestOK(r, c, fds')
    BY Zenon, <1>3, <1>5, <1>17, <1>18, <1>19, <1>21, <2>1 DEF RequestOK
  <2> QED BY Zenon, <1>16, <1>21, <2>1, <2>2, <2>3
<1>22. CASE c.pos # DataLen /\ Submit(<<WriteRequest(j, c)>>) /\ UNCHANGED rets
  <2> DEFINE r == WriteRequest(j, c)
  <2>1. r.job = j /\ r.fd = c.fd /\ r.op = "write" /\ r.len = DataLen - c.pos
    BY Zenon DEF WriteRequest, Request
  <2>2. r \in Requests
    <3>1. DataLen - c.pos \in Nat
      BY <1>4, <1>5, LengthAssumption
    <3> QED BY Zenon, <1>2, <1>17, <3>1 DEF WriteRequest, Request, Requests, Ops
  <2>3. Submit(<<r>>)
    BY Zenon, <1>22
  <2> HIDE DEF r
  <2>4. RequestOK(r, c, fds')
    BY Zenon, <1>3, <1>4, <1>5, <1>17, <1>18, <2>1 DEF RequestOK
  <2> QED BY Zenon, <1>16, <1>22, <2>1, <2>2, <2>3, <2>4
<1> QED BY Zenon, <1>7, <1>20, <1>21, <1>22


\* close, and the callback that ends readFile or writeAll.
LEMMA ServeCloseStep ==
  ASSUME IInv, ServeClose
  PROVE  IInv'
<1> DEFINE j == Head(q).job
           f == Head(q).fd
           c == ctx[j]
<1>1. /\ Control /\ q # <<>> /\ ~stuck /\ Head(q).op = "close" /\ stuck \in BOOLEAN
      /\ fds' = [g \in DOMAIN fds \ {f} |-> fds[g]] /\ Submit(<<>>)
      /\ UNCHANGED <<content, ctx>>
  BY Zenon DEF IInv, ServeClose, Pending, Control, OwnDescriptor, TypeOK
<1>2. PICK err \in BOOLEAN :
        \/ c.kind \in Reading /\ ReadFileAfterClose(j, c, err)
        \/ /\ c.kind \in Writing
           /\ Return(j, err \/ c.err, <<>>) /\ UNCHANGED stuck
  BY Zenon DEF ServeClose
<1>3. /\ j \in Jobs /\ c \in Ctxs /\ RequestOK(Head(q), c, fds)
      /\ Head(q) = q[1] /\ 1 \in DOMAIN q
      /\ c.size # 0 => c.pos <= c.size
  BY <1>1, HeadRequest, SameContext
<1>4. /\ f = c.fd /\ f \in DOMAIN fds /\ fds[f].owner = j
      /\ c.kind \in Writing => c.err \/ c.pos = DataLen
  BY Zenon, <1>1, <1>3 DEF RequestOK
<1>5. /\ DOMAIN fds' = DOMAIN fds \ {f} /\ \A g \in DOMAIN fds' : fds'[g] = fds[g]
  BY Zenon, <1>1
<1>6. \A g \in DOMAIN fds' : fds'[g].owner # j
  BY Zenon, <1>1, <1>5, Held
<1>7. OthersKept(j, fds, fds')
  BY Zenon, <1>1, <1>4, <1>5 DEF OthersKept, Control, OwnDescriptor, TypeOK
<1>8. OwnStep(j, c)
  BY Zenon, <1>1, <1>3, <1>7, SameContext, SameContent DEF OwnStep
<1>9. DataStep(j, c)
  BY Zenon, <1>1, <1>4, <1>5, SameContent DEF DataStep
<1>10. AppendInv'
  BY Zenon, <1>1, <1>8, AppendKept DEF IInv
<1>11. Alone(j) => content' = Data(j, c.pos)
  BY Zenon, <1>1, <1>3 DEF IInv, WriteInv
<1>12. c.kind = "readFile" /\ AppendOnly => c.err \/ Whole(c.buf, c, content')
  <2>1. SUFFICES ASSUME c.kind = "readFile", AppendOnly PROVE c.err \/ Whole(c.buf, c, content)
    BY Zenon, <1>1
  <2>2. ReadOK(Head(q), c, fds, content)
    BY Zenon, <1>3, <2>1 DEF IInv, ReadInv
  <2> QED BY Zenon, <1>1, <2>2 DEF ReadOK
<1> HIDE DEF j, c
<1>13. CASE c.kind \in Reading /\ ReadFileAfterClose(j, c, err)
  <2> DEFINE res == [err |-> c.err \/ err, data |-> IF c.err THEN <<>> ELSE c.buf]
  <2>1. /\ res \in Results
        /\ ~res.err => ~c.err /\ res.data = c.buf
    BY <1>3 DEF Ctxs, Results
  <2>2. Answers(j, res)
    BY Zenon, <1>13 DEF ReadFileAfterClose, Return, Answers
  <2>3. stuck' \in BOOLEAN
    <3>1. stuck' \in {TRUE, FALSE} \/ stuck' = stuck
      BY Zenon, <1>13 DEF ReadFileAfterClose, IsUserFd
    <3> QED BY <1>1, <3>1, Zenon
  <2> HIDE DEF res
  <2>4. c.kind \notin Writing
    BY Zenon, <1>13 DEF Reading, Writing
  <2> QED BY Zenon, <1>1, <1>6, <1>8, <1>9, <1>10, <1>11, <1>12, <2>1, <2>2, <2>3, <2>4, Finished
<1>14. CASE /\ c.kind \in Writing
            /\ Return(j, err \/ c.err, <<>>) /\ UNCHANGED stuck
  <2> DEFINE res == [err |-> err \/ c.err, data |-> <<>>]
  <2>1. /\ res \in Results
        /\ ~res.err => ~c.err
    BY <1>3 DEF Ctxs, Results
  <2>2. Answers(j, res)
    BY Zenon, <1>14 DEF Return, Answers
  <2> HIDE DEF res
  <2>3. c.kind # "readFile" /\ stuck' \in BOOLEAN
    BY Zenon, <1>1, <1>14 DEF Writing
  <2> QED BY Zenon, <1>1, <1>4, <1>6, <1>8, <1>9, <1>10, <1>11, <2>1, <2>2, <2>3, Finished
<1> QED BY Zenon, <1>2, <1>13, <1>14

\* openat and its callback.
LEMMA ServeOpenStep ==
  ASSUME IInv, ServeOpen
  PROVE  IInv'
<1>1. Pending("open")
  BY Zenon DEF ServeOpen
<1>2. CASE OpenFailed(Head(q).job) /\ UNCHANGED <<content, fds, ctx, stuck>>
  BY Zenon, <1>1, <1>2, OpenFailedStep
<1>3. ASSUME NEW f \in Fds, LowestFree(f), Open(f), AfterOpen(Head(q).job, f)
      PROVE  IInv'
  <2> DEFINE c == [ctx[Head(q).job] EXCEPT !.fd = f]
  <2>1. f \notin DOMAIN fds
    BY Zenon, <1>3 DEF LowestFree
  <2>2. c.kind = ctx[Head(q).job].kind
    BY Zenon, <1>1, HeadRequest DEF IInv, Pending, Ctxs
  <2>3. CASE /\ c.kind \notin Unimplemented
             /\ ctx' = [ctx EXCEPT ![Head(q).job] = c]
             /\ Submit(<<IF c.kind = "readFile"
                         THEN Request(Head(q).job, "fstat", c.fd, 0)
                         ELSE WriteRequest(Head(q).job, c)>>)
             /\ UNCHANGED <<rets, stuck>>
    BY Zenon, <1>1, <1>3, <2>1, <2>3, OpenedStep
  <2>4. CASE /\ c.kind \in Unimplemented
             /\ Submit(<<>>) /\ stuck' = TRUE /\ UNCHANGED <<ctx, rets>>
    <3> HIDE DEF c
    <3> QED BY Zenon, <1>1, <1>3, <2>1, <2>2, <2>4, OpenThrowsStep
  <2> QED BY Zenon, <1>3, <2>3, <2>4 DEF AfterOpen
<1> QED BY Zenon, <1>2, <1>3 DEF ServeOpen

\* write or pwrite64 and its callback.
LEMMA ServeWriteStep ==
  ASSUME IInv, ServeWrite
  PROVE  IInv'
<1>1. Pending("write") /\ UNCHANGED stuck
  BY Zenon DEF ServeWrite
<1>2. \/ WriteErr(Head(q).job) /\ UNCHANGED <<content, fds>>
      \/ \E n \in 0 .. Head(q).len :
           /\ content' = Written(Head(q).job, n, Offset(Head(q).job))
           /\ fds' = IF ctx[Head(q).job].kind = "appendFd"
                     THEN [fds EXCEPT ![UserFd].off = Offset(Head(q).job) + n] ELSE fds
           /\ WriteAll(Head(q).job, n)
  BY Zenon DEF ServeWrite
<1> QED BY Zenon, <1>1, <1>2, WriteErrStep, WriteAllStep


\* The application makes a call: its first request is the last of the queue.
LEMMA CallStep ==
  ASSUME IInv, NEW j \in Jobs, NEW kind \in KindsUsed, Call(j, kind)
  PROVE  IInv'
<1> DEFINE op == IF kind = "readFd" THEN "fstat"
                 ELSE IF kind \in {"writeFd", "appendFd"} THEN "write" ELSE "open"
           len == IF kind \in {"writeFd", "appendFd"} THEN DataLen ELSE 0
           r == Request(j, op, UserFd, len)
           c == [ctx[j] EXCEPT !.kind = kind, !.seen = Len(content)]
<1>1. /\ Control /\ kind \in Kinds /\ q \in Seq(Requests) /\ ctx \in [Jobs -> Ctxs]
      /\ content \in Seq(Bytes) /\ Len(content) \in Nat /\ UserFd \in Fds /\ j # App
      /\ ctx[j].kind = "none" /\ UNCHANGED <<content, fds, rets, stuck>>
  BY Types, KindsAssumption, FdsAssumption, JobsAssumption DEF IInv, Call
<1>2. ctx[j] = NoCall /\ rets[j] = <<>>
  BY Zenon, <1>1 DEF Control, RequestInv
<1>3. q' = Append(q, r)
  BY Zenon DEF Call, Request
<1>4. /\ r \in Requests /\ r.job = j /\ r.op = op /\ r.fd = UserFd /\ r.len = len
  BY Zenon, <1>1, LengthAssumption DEF Request, Requests, Ops
<1>5. ctx' = [ctx EXCEPT ![j] = c]
  BY Zenon, <1>1 DEF Call
<1>6. /\ c \in Ctxs /\ c.kind = kind /\ c.seen = Len(content) /\ c.fd = UserFd
      /\ c.size = 0 /\ c.pos = 0 /\ c.buf = <<>> /\ ~c.err
  <2>1. ctx[j] \in Ctxs
    BY Zenon, <1>1
  <2>2. c \in Ctxs /\ c.kind = kind /\ c.seen = Len(content)
    BY Zenon, <1>1, <2>1 DEF Ctxs
  <2>3. /\ c.fd = ctx[j].fd /\ c.size = ctx[j].size /\ c.pos = ctx[j].pos
        /\ c.buf = ctx[j].buf /\ c.err = ctx[j].err
    BY Zenon, <2>1 DEF Ctxs
  <2>4. /\ NoCall.fd = UserFd /\ NoCall.size = 0 /\ NoCall.pos = 0
        /\ NoCall.buf = <<>> /\ ~NoCall.err
    BY Zenon DEF NoCall
  <2> QED BY Zenon, <1>2, <2>2, <2>3, <2>4
<1> HIDE DEF c, r
<1>7. /\ ctx' \in [Jobs -> Ctxs] /\ ctx'[j] = c /\ \A k \in Jobs \ {j} : ctx'[k] = ctx[k]
  BY Zenon, <1>1, <1>5, <1>6
<1>8. /\ q' \in Seq(Requests) /\ Len(q') = Len(q) + 1 /\ Len(q) \in Nat
      /\ q'[Len(q) + 1] = r /\ \A i \in 1 .. Len(q) : q'[i] = q[i]
      /\ DOMAIN q = 1 .. Len(q) /\ DOMAIN q' = 1 .. Len(q) + 1
  BY <1>1, <1>3, <1>4
<1>9. \A i \in DOMAIN q : q[i].job \in Jobs \ {j} /\ RequestOK(q[i], ctx[q[i].job], fds)
  <2>1. ASSUME NEW i \in DOMAIN q
        PROVE  q[i].job \in Jobs /\ q[i].op \in Ops /\ RequestOK(q[i], ctx[q[i].job], fds)
    <3>1. q[i] \in Requests
      BY <1>1
    <3>2. RequestOK(q[i], ctx[q[i].job], fds)
      BY Zenon, <1>1 DEF Control, RequestInv
    <3> QED BY Zenon, <3>1, <3>2 DEF Requests
  <2>2. ASSUME NEW i \in DOMAIN q, q[i].job = j PROVE FALSE
    BY Zenon, <1>1, <2>1, <2>2 DEF RequestOK, Ops, Kinds, Reading, Writing, Unimplemented
  <2> QED BY Zenon, <2>1, <2>2
<1>10. UserFd \in DOMAIN fds /\ fds[UserFd].owner = App
  BY Zenon, <1>1 DEF Control, OwnDescriptor
<1>11. RequestOK(r, c, fds)
  BY <1>1, <1>4, <1>6, <1>10, LengthAssumption DEF RequestOK, Kinds, Reading, Writing
<1>12. \A i \in DOMAIN q' : /\ RequestOK(q'[i], ctx'[q'[i].job], fds')
                            /\ \/ i \in DOMAIN q /\ q'[i] = q[i] /\ q[i].job \in Jobs \ {j}
                               \/ i = Len(q) + 1 /\ q'[i] = r
  <2>1. ASSUME NEW i \in DOMAIN q PROVE RequestOK(q'[i], ctx'[q'[i].job], fds')
    BY Zenon, <1>1, <1>7, <1>8, <1>9, <2>1
  <2>2. RequestOK(q'[Len(q) + 1], ctx'[q'[Len(q) + 1].job], fds')
    BY Zenon, <1>1, <1>4, <1>7, <1>8, <1>11
  <2> QED BY <1>8, <1>9, <2>1, <2>2
<1>13. Control'
  <2>1. TypeOK'
    BY Zenon, <1>1, <1>6, <1>7, <1>8 DEF Control, OwnDescriptor, TypeOK, Ctxs, Requests
  <2>2. CallbackOnce'
    BY Zenon, <1>1, <1>2, <1>4, <1>12 DEF Control, CallbackOnce
  <2>3. \A i \in DOMAIN q' : q'[i].op # "open" =>
          /\ q'[i].fd \in DOMAIN fds'
          /\ \/ fds'[q'[i].fd].owner = q'[i].job
             \/ ctx'[q'[i].job].kind \in {"readFd", "writeFd", "appendFd"} /\ q'[i].fd = UserFd
                /\ q'[i].op # "close"
    BY Zenon, <1>12 DEF RequestOK
  <2>4. ASSUME NEW f \in DOMAIN fds' \ {UserFd}, ~stuck'
        PROVE  \E i \in DOMAIN q' : q'[i].fd = f /\ q'[i].job = fds'[f].owner
    <3>1. PICK k \in DOMAIN q : q[k].fd = f /\ q[k].job = fds[f].owner
      BY Zenon, <1>1, <2>4 DEF Control, OwnDescriptor
    <3> QED BY <1>1, <1>8, <3>1
  <2>5. OwnDescriptor'
    BY Zenon, <1>1, <1>10, <2>1, <2>3, <2>4 DEF OwnDescriptor, IsUserFd
  <2>6. \A i, k \in DOMAIN q' : q'[i].job = q'[k].job => i = k
    BY <1>1, <1>4, <1>12 DEF Control, RequestInv
  <2>7. \A k \in Jobs : ctx'[k].kind = "none" => ctx'[k] = NoCall /\ rets'[k] = <<>>
    <3>1. ctx'[j].kind # "none"
      BY Zenon, <1>1, <1>6, <1>7 DEF Kinds, Reading, Writing, Unimplemented
    <3> QED BY Zenon, <1>1, <1>7, <3>1 DEF Control, RequestInv
  <2>8. \A k \in Jobs : ctx'[k].kind \in Writing /\ rets'[k] # <<>> /\ ~Last(rets'[k]).err
                        => ctx'[k].pos = DataLen
    BY Zenon, <1>1, <1>2, <1>7 DEF Control, RequestInv, Succeeded
  <2>9. RequestInv'
    BY Zenon, <1>12, <2>6, <2>7, <2>8 DEF RequestInv, Succeeded
  <2> QED BY Zenon, <2>2, <2>5, <2>9 DEF Control
<1>14. /\ AppendOnly' => AppendOnly
       /\ \A k \in Jobs \ {j} : ctx'[k].kind = ctx[k].kind
       /\ \A k \in Made({"readFile"})' \ {j} : k \in Made({"readFile"}) /\ k \in Jobs
  BY Zenon, <1>1, <1>7 DEF AppendOnly, Made, Overwriting
<1>15. ReadInv'
  <2> SUFFICES ASSUME AppendOnly'
               PROVE  /\ \A k \in Jobs : ctx'[k].seen <= Len(content')
                      /\ \A i \in DOMAIN q' : ctx'[q'[i].job].kind = "readFile" =>
                           ReadOK(q'[i], ctx'[q'[i].job], fds', content')
                      /\ \A k \in Made({"readFile"})' :
                           rets'[k] # <<>> /\ ~Last(rets'[k]).err =>
                             Whole(Last(rets'[k]).data, ctx'[k], content')
    BY Zenon DEF ReadInv, Succeeded
  <2>1. \A k \in Jobs : ctx'[k].seen <= Len(content')
    BY <1>1, <1>6, <1>7, <1>14 DEF IInv, ReadInv
  <2>2. ASSUME NEW i \in DOMAIN q', ctx'[q'[i].job].kind = "readFile"
        PROVE  ReadOK(q'[i], ctx'[q'[i].job], fds', content')
    <3>1. CASE i = Len(q) + 1 /\ q'[i] = r
      BY Zenon, <1>4, <1>6, <1>7, <2>2, <3>1 DEF ReadOK
    <3>2. CASE i \in DOMAIN q /\ q'[i] = q[i] /\ q[i].job \in Jobs \ {j}
      BY Zenon, <1>1, <1>7, <1>14, <2>2, <3>2 DEF IInv, ReadInv
    <3> QED BY Zenon, <1>12, <3>1, <3>2
  <2>3. ASSUME NEW k \in Made({"readFile"})', rets'[k] # <<>>, ~Last(rets'[k]).err
        PROVE  Whole(Last(rets'[k]).data, ctx'[k], content')
    BY Zenon, <1>1, <1>2, <1>7, <1>14, <2>3 DEF IInv, ReadInv, Succeeded
  <2> QED BY Zenon, <2>1, <2>2, <2>3
<1>16. AppendInv'
  <2> SUFFICES ASSUME AppendOnly', NEW k \in Jobs
               PROVE  HasBytes(k, IF ctx'[k].kind = "appendFile" THEN ctx'[k].pos ELSE 0,
                               content')
    BY Zenon DEF AppendInv, HasBytes
  <2>1. HasBytes(k, IF ctx[k].kind = "appendFile" THEN ctx[k].pos ELSE 0, content)
    BY Zenon, <1>14 DEF IInv, AppendInv
  <2>2. CASE k = j
    BY Zenon, <1>1, <1>6, <1>7, <2>1, <2>2
  <2>3. CASE k # j
    BY Zenon, <1>1, <1>7, <2>1, <2>3
  <2> QED BY Zenon, <2>2, <2>3
<1>17. WriteInv'
  <2> SUFFICES ASSUME NEW k \in Jobs, Alone(k)'
               PROVE  /\ \A i \in DOMAIN q' :
                           q'[i].job = k /\ q'[i].op # "open" => content' = Data(k, ctx'[k].pos)
                      /\ rets'[k] # <<>> /\ ~Last(rets'[k]).err => content' = Data(k, ctx'[k].pos)
    BY Zenon DEF WriteInv, Succeeded, Data
  <2>1. CASE k = j
    <3>1. kind = "writeFile"
      BY Zenon, <1>6, <1>7, <2>1 DEF Alone
    <3> QED BY Zenon, <1>1, <1>2, <1>4, <1>12, <2>1, <3>1
  <2>2. CASE k # j
    <3>1. Alone(k) /\ ctx'[k] = ctx[k]
      <4>1. Made(Writing)' = {k} /\ ctx[k].kind = "writeFile" /\ ctx'[k] = ctx[k]
        BY Zenon, <1>7, <2>2 DEF Alone
      <4>2. j \notin Made(Writing)
        BY Zenon, <1>1 DEF Made, Writing
      <4>3. Made(Writing) = {k}
        BY Zenon, <1>7, <4>1, <4>2 DEF Made
      <4> QED BY Zenon, <4>1, <4>3 DEF Alone
    <3>2. \A i \in DOMAIN q' : q'[i].job = k => i \in DOMAIN q /\ q'[i] = q[i]
      BY Zenon, <1>4, <1>12, <2>2
    <3> QED BY Zenon, <1>1, <3>1, <3>2 DEF IInv, WriteInv, Succeeded
  <2> QED BY Zenon, <2>1, <2>2
<1> QED BY Zenon, <1>13, <1>15, <1>16, <1>17 DEF IInv

\* At first there is a file and the application's descriptor.
LEMMA InitInv == Init => IInv
<1> SUFFICES ASSUME Init PROVE IInv
  BY Zenon
<1>1. PICK n \in InitLens : content = [i \in 1 .. n |-> <<App, i>>]
  BY Zenon DEF Init
<1>2. n \in Nat /\ UserFd \in Fds
  BY Zenon, LengthAssumption, FdsAssumption
<1>3. content \in Seq(Bytes) /\ DOMAIN content = 1 .. n
  BY <1>1, <1>2 DEF Bytes
<1>4. /\ DOMAIN fds = {UserFd} /\ fds[UserFd] = [owner |-> App, off |-> 0]
      /\ q = <<>> /\ DOMAIN q = {} /\ stuck \in BOOLEAN /\ ~stuck
      /\ \A j \in Jobs : ctx[j] = NoCall /\ rets[j] = <<>>
      /\ ctx = [j \in Jobs |-> NoCall] /\ rets = [j \in Jobs |-> <<>>]
  <2>1. stuck \in BOOLEAN /\ ~stuck
    BY Zenon DEF Init
  <2>2. q = <<>> /\ DOMAIN q = {}
    BY DEF Init
  <2>3. DOMAIN fds = {UserFd} /\ fds[UserFd] = [owner |-> App, off |-> 0]
    BY Zenon DEF Init
  <2>4. /\ \A j \in Jobs : ctx[j] = NoCall /\ rets[j] = <<>>
        /\ ctx = [j \in Jobs |-> NoCall] /\ rets = [j \in Jobs |-> <<>>]
    BY Zenon DEF Init
  <2> QED BY Zenon, <2>1, <2>2, <2>3, <2>4
<1>5. NoCall \in Ctxs /\ NoCall.kind = "none" /\ NoCall.size = 0 /\ NoCall.seen = 0
  BY <1>2 DEF NoCall, Ctxs
<1>6. TypeOK
  <2>1. q \in Seq(Requests) /\ rets \in [Jobs -> Seq(Results)] /\ ctx \in [Jobs -> Ctxs]
    BY <1>4, <1>5
  <2>2. fds[UserFd] \in [owner : Jobs \cup {App}, off : Nat]
    BY <1>4
  <2> QED BY Zenon, <1>2, <1>3, <1>4, <1>5, <2>1, <2>2 DEF TypeOK, Requests, Results, Ctxs
<1>7. CallbackOnce
  <2>1. Len(<<>>) <= 1
    OBVIOUS
  <2> QED BY Zenon, <1>4, <2>1 DEF CallbackOnce
<1>8. OwnDescriptor
  BY <1>4, <1>6 DEF OwnDescriptor
<1>9. RequestInv
  BY Zenon, <1>4, <1>5 DEF RequestInv, Succeeded
<1>10. \A j \in Jobs : ctx[j].kind = "none" /\ ~Succeeded(j) /\ ctx[j].seen = 0
  BY Zenon, <1>4, <1>5 DEF Succeeded
<1>11. ReadInv
  BY <1>3, <1>4, <1>10 DEF ReadInv, Made
<1>12. AppendInv
  <2>1. \A p \in DOMAIN content : content[p][1] = App
    BY Zenon, <1>1, <1>2
  <2>2. ASSUME NEW j \in Jobs PROVE HasBytes(j, 0, content)
    BY <2>1, JobsAssumption DEF HasBytes
  <2> QED BY Zenon, <1>10, <2>2 DEF AppendInv
<1>13. WriteInv
  BY Zenon, <1>10 DEF WriteInv, Alone
<1> QED BY Zenon, <1>7, <1>8, <1>9, <1>11, <1>12, <1>13 DEF IInv, Control

\* A step that changes nothing.
LEMMA Stutter ==
  ASSUME IInv, UNCHANGED vars
  PROVE  IInv'
<1>1. Control'
  <2>1. CallbackOnce'
    BY Zenon DEF IInv, vars, Control, CallbackOnce
  <2>2. OwnDescriptor'
    BY Zenon DEF IInv, vars, Control, OwnDescriptor, TypeOK, IsUserFd
  <2>3. RequestInv'
    BY Zenon DEF IInv, vars, Control, RequestInv, Succeeded
  <2> QED BY Zenon, <2>1, <2>2, <2>3 DEF Control
<1>2. ReadInv' /\ AppendInv' /\ WriteInv'
  BY Zenon DEF IInv, vars, ReadInv, AppendInv, WriteInv, AppendOnly, Alone, Made, Succeeded
<1> QED BY Zenon, <1>1, <1>2 DEF IInv

\* Every step preserves the invariant.
LEMMA NextInv == ~StatMayFail /\ IInv /\ [Next]_vars => IInv'
<1> SUFFICES ASSUME ~StatMayFail, IInv, [Next]_vars PROVE IInv'
  BY Zenon
<1>1. ASSUME NEW j \in Jobs, NEW kind \in KindsUsed, Call(j, kind) PROVE IInv'
  BY Zenon, <1>1, CallStep
<1>2. CASE ServeOpen
  BY Zenon, <1>2, ServeOpenStep
<1>3. CASE ServeFstat
  BY Zenon, <1>3, ServeFstatStep
<1>4. CASE ServeRead
  BY Zenon, <1>4, ServeReadStep
<1>5. CASE ServeWrite
  BY Zenon, <1>5, ServeWriteStep
<1>6. CASE ServeClose
  BY Zenon, <1>6, ServeCloseStep
<1>7. CASE UNCHANGED vars
  BY Zenon, <1>7, Stutter
<1> QED BY Zenon, <1>1, <1>2, <1>3, <1>4, <1>5, <1>6, <1>7 DEF Next, Quiet


-----------------------------------------------------------------------------
(***************************************************************************)
(* The theorems.                                                           *)
(***************************************************************************)
\* Bytes that are those of the file's beginning are a prefix of it.
LEMMA BeginsIsPrefix ==
  ASSUME content \in Seq(Bytes), NEW b \in Seq(Bytes), Begins(b, content)
  PROVE  IsPrefix(b)
<1>1. Len(b) \in Nat /\ Len(content) \in Nat /\ Len(b) <= Len(content)
  BY DEF Begins
<1>2. b = [i \in 1 .. Len(b) |-> b[i]]
  OBVIOUS
<1>3. SubSeq(content, 1, Len(b)) = [i \in 1 .. Len(b) |-> content[i]]
  BY <1>1
<1> QED BY Zenon, <1>1, <1>2, <1>3 DEF Begins, IsPrefix

\* The data of a returned readFile is a sequence of bytes.
LEMMA ReturnedData ==
  ASSUME Control, NEW j \in Jobs, Succeeded(j)
  PROVE  Last(rets[j]).data \in Seq(Bytes)
<1>1. rets[j] \in Seq(Results) /\ rets[j] # <<>>
  BY Zenon, Types DEF Succeeded
<1>2. Last(rets[j]) \in Results
  BY <1>1 DEF Last
<1> QED BY Zenon, <1>2 DEF Results

\* The invariant implies the properties.
LEMMA IInvImplies == IInv => CallbackOnce /\ OwnDescriptor /\ ReadSnapshot /\ WritesComplete
<1> SUFFICES ASSUME IInv PROVE ReadSnapshot /\ WritesComplete
  BY Zenon DEF IInv, Control
<1>1. Control /\ content \in Seq(Bytes) /\ Len(content) \in Nat
  BY Types DEF IInv
<1>2. ReadSnapshot
  <2> SUFFICES ASSUME AppendOnly, NEW j \in Made({"readFile"}), Succeeded(j)
               PROVE  /\ IsPrefix(Last(rets[j]).data)
                      /\ Len(content) < SizeMod => Len(Last(rets[j]).data) >= ctx[j].seen
    BY Zenon DEF ReadSnapshot, AppendOnly
  <2>1. Whole(Last(rets[j]).data, ctx[j], content)
    BY Zenon DEF IInv, ReadInv
  <2>2. Last(rets[j]).data \in Seq(Bytes)
    BY Zenon, <1>1, ReturnedData DEF Made
  <2> QED BY Zenon, <1>1, <2>1, <2>2, BeginsIsPrefix DEF Whole
<1>3. WritesComplete
  <2> SUFFICES ASSUME NEW j \in Made({"appendFile", "writeFile"}), Succeeded(j)
               PROVE  /\ AppendOnly => HasData(j)
                      /\ Alone(j) => content = Data(j, DataLen)
    BY Zenon DEF WritesComplete, AppendOnly, Alone, Data
  <2>1. j \in Jobs /\ ctx[j].kind \in {"appendFile", "writeFile"} /\ ctx[j].pos = DataLen
    BY Zenon, <1>1 DEF Made, Control, RequestInv, Writing
  <2>2. Alone(j) => content = Data(j, DataLen)
    BY Zenon, <2>1 DEF IInv, WriteInv
  <2>3. ASSUME AppendOnly PROVE HasData(j)
    <3>1. ctx[j].kind = "appendFile"
      BY Zenon, <2>1, <2>3 DEF AppendOnly, Made, Overwriting
    <3>2. HasBytes(j, DataLen, content)
      BY Zenon, <2>1, <2>3, <3>1 DEF IInv, AppendInv
    <3> DEFINE mine == {p \in DOMAIN content : content[p][1] = j}
    <3>3. \A p \in mine : content[p] = <<j, content[p][2]>> /\ content[p][2] \in 1 .. DataLen
      BY <1>1, <3>2 DEF HasBytes, Bytes
    <3>4. {content[p] : p \in mine} \subseteq {<<j, i>> : i \in 1 .. DataLen}
      BY <3>3
    <3>5. \A i \in 1 .. DataLen : \E p \in mine : content[p] = <<j, i>>
      BY <3>2 DEF HasBytes
    <3>6. {<<j, i>> : i \in 1 .. DataLen} \subseteq {content[p] : p \in mine}
      BY Zenon, <3>5
    <3>7. \A p, r \in mine : p < r => content[p][2] < content[r][2]
      BY Zenon, <3>2 DEF HasBytes
    <3> QED BY Zenon, <3>4, <3>6, <3>7 DEF HasData
  <2> QED BY Zenon, <2>2, <2>3
<1> QED BY Zenon, <1>2, <1>3

\* The inductive invariant holds through every interleaving of calls at system
\* call granularity, if fstat reports no error.
THEOREM Inductive == ASSUME ~StatMayFail PROVE Spec => []IInv
BY InitInv, NextInv, PTL DEF Spec

\* readFile, writeFile, appendFile, truncate, lchmod and lchown call back at
\* most once, after their last system call.
THEOREM CalledBackOnce == ASSUME ~StatMayFail PROVE Spec => []CallbackOnce
BY Inductive, IInvImplies, PTL

\* Every system call is on a descriptor its call opened or was given, only the
\* former are closed, and none leaks: readFile and writeFile close on all paths.
THEOREM DescriptorsOwned == ASSUME ~StatMayFail PROVE Spec => []OwnDescriptor
BY Inductive, IInvImplies, PTL

\* While other calls only append, readFile returns a prefix of the file with at
\* least the bytes of when it was called (readFileAfterStat, readFileAfterRead).
THEOREM ReadFileSnapshot == ASSUME ~StatMayFail PROVE Spec => []ReadSnapshot
BY Inductive, IInvImplies, PTL

\* What writeAll reports as written is in the file, whatever short writes the
\* kernel makes of it.
THEOREM WriteAllComplete == ASSUME ~StatMayFail PROVE Spec => []WritesComplete
BY Inductive, IInvImplies, PTL
=============================================================================
