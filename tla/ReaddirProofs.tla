--------------------------- MODULE ReaddirProofs ---------------------------
(***************************************************************************)
(* Proofs about Readdir, for any number of calls, names, places, changes,  *)
(* descriptors and entries that fit in the buffer.                         *)
(*                                                                         *)
(* The properties are not inductive: they speak of descriptors and of what *)
(* was returned.  IInv adds where a call is (it has one request under way  *)
(* at most) and what its result holds by then: every lasting name up to    *)
(* the place its descriptor has reached in the directory, and none that is *)
(* yet to come unless it was created again.                                *)
(***************************************************************************)
EXTENDS Readdir, TLAPS, WellFoundedInduction

Ops == {"open", "getdents64", "close"}
Ctxs == [made : BOOLEAN, fd : Nat, result : Seq(Names \ Dots), err : BOOLEAN,
         kept : SUBSET Names, seen : SUBSET Names, again : SUBSET Names]
Requests == [call : Calls, op : Ops]
Results == [err : BOOLEAN, names : Seq(Names \ Dots)]

\* A directory with places at, and the number of changes yet to come.
DirOK(at, k) ==
  /\ Dots \subseteq DOMAIN at /\ DOMAIN at \subseteq Names
  /\ IsInjective(at) /\ \A n \in DOMAIN at : at[n] \in Places
  /\ k \in 0 .. MaxChanges

Types ==
  /\ DirOK(dir, left)
  /\ DOMAIN fds \subseteq Fds
  /\ \A f \in DOMAIN fds : fds[f] \in [owner : Calls, last : Nat]
  /\ q \in Seq(Requests)
  /\ ctx \in [Calls -> Ctxs]
  /\ rets \in [Calls -> Seq(Results)]
  /\ stuck \in BOOLEAN

\* Only members of again come twice in s.
OnceUnless(s, again) ==
  \A i, k \in DOMAIN s : s[i] = s[k] => i = k \/ s[i] \in again

\* The result of a call with context c is right for the places at up to last.
ListedTo(c, last, at) ==
  /\ OnceUnless(c.result, c.again)
  /\ Range(c.result) \subseteq c.seen
  /\ \A n \in Range(c.result) \cap DOMAIN at : n \in c.again \/ at[n] <= last
  /\ \A n \in c.kept \ Dots : at[n] <= last => n \in Range(c.result)

\* What a request r under way says of its call's context c, the descriptors d
\* and the places at: where in readdir the call is.
RequestOK(r, c, d, at) ==
  /\ c.made
  /\ r.op = "open" => c.result = <<>>
  /\ r.op # "open" =>
       /\ c.fd \in DOMAIN d /\ d[c.fd].owner = r.call
       /\ ListedTo(c, d[c.fd].last, at)
  /\ r.op = "close" => c.err \/ c.kept \ Dots \subseteq Range(c.result)

\* What a call with context c may have called back with.
ReturnOK(ret, c) ==
  ret # <<>> /\ ~ret[1].err =>
    /\ OnceUnless(ret[1].names, c.again)
    /\ c.kept \ Dots \subseteq Range(ret[1].names)
    /\ Range(ret[1].names) \subseteq c.seen \ Dots

\* A call has one request under way at most, and none once it has called back.
RequestInv ==
  /\ \A i, k \in DOMAIN q : q[i].call = q[k].call => i = k
  /\ \A i \in DOMAIN q :
       RequestOK(q[i], ctx[q[i].call], fds, dir) /\ rets[q[i].call] = <<>>
  /\ \A f \in DOMAIN fds :
       /\ ctx[fds[f].owner].fd = f
       /\ \E i \in DOMAIN q : q[i].call = fds[f].owner /\ q[i].op # "open"

CallInv ==
  \A c \in Calls :
    /\ UnderWay(c) =>
         ctx[c].kept \subseteq DOMAIN dir /\ DOMAIN dir \subseteq ctx[c].seen
    /\ ~ctx[c].made => rets[c] = <<>>
    /\ ReturnOK(rets[c], ctx[c])
    /\ ~CallbackMayThrow => Len(rets[c]) <= 1

IInv == Types /\ RequestInv /\ CallInv


-----------------------------------------------------------------------------
(***************************************************************************)
(* Numbers and parseDirent64.                                              *)
(***************************************************************************)
\* A set of numbers has a smallest one: what takes the place of induction.
LEMMA Smallest ==
  ASSUME NEW S \in SUBSET Nat, S # {}
  PROVE  \E x \in S : \A y \in S : x <= y
<1> DEFINE less == {ss \in Nat \X Nat : ss[1] < ss[2]}
<1>1. IsWellFoundedOn(less, Nat)
  BY Zenon, NatLessThanWellFounded DEF OpToRel
<1>2. PICK x \in S : \A y \in S : <<y, x>> \notin less
  <2> HIDE DEF less
  <2> QED BY Zenon, <1>1, WFMin
<1>3. ASSUME NEW y \in S PROVE x <= y
  <2>1. <<y, x>> \in Nat \X Nat /\ <<y, x>> \notin less
    BY Zenon, <1>2
  <2>2. ~(y < x)
    BY Zenon, <2>1
  <2> QED BY <2>2
<1> QED BY Zenon, <1>3

\* openat gives the lowest free descriptor.
LEMMA MinIn ==
  ASSUME NEW S \in SUBSET Nat, S # {}
  PROVE  Min(S) \in S
BY Zenon, Smallest DEF Min

\* The loop of parseDirent64 over the first n entries, as a function.
IsParsed(f, names, n) ==
  f = [i \in 0 .. n |->
         IF i = 0 THEN <<>>
         ELSE IF names[i] \in Dots THEN f[i - 1]
         ELSE Append(f[i - 1], names[i])]

\* One turn of the loop.
LEMMA ParsedTurn ==
  ASSUME NEW f, NEW names, NEW n \in Nat, IsParsed(f, names, n)
  PROVE  \A i \in 0 .. n :
           f[i] = IF i = 0 THEN <<>>
                  ELSE IF names[i] \in Dots THEN f[i - 1]
                  ELSE Append(f[i - 1], names[i])
<1> DEFINE v(i) == IF i = 0 THEN <<>>
                   ELSE IF names[i] \in Dots THEN f[i - 1]
                   ELSE Append(f[i - 1], names[i])
<1>1. f = [i \in 0 .. n |-> v(i)]
  BY Zenon DEF IsParsed
<1> HIDE DEF v
<1>2. \A i \in 0 .. n : f[i] = v(i)
  BY Zenon, <1>1
<1> QED BY Zenon, <1>2 DEF v

\* The loop of parseDirent64 can run over any number of entries.
LEMMA ParsedExists ==
  ASSUME NEW names, NEW n \in Nat
  PROVE  \E f : IsParsed(f, names, n)
<1> DEFINE Bad == {m \in Nat : ~\E f : IsParsed(f, names, m)}
<1> SUFFICES ASSUME Bad # {} PROVE FALSE
  BY Zenon
<1>1. PICK m \in Bad : \A k \in Bad : m <= k
  BY Zenon, Smallest
<1>2. m # 0
  <2>1. IsParsed([i \in 0 .. 0 |-> <<>>], names, 0)
    BY DEF IsParsed
  <2> QED BY Zenon, <2>1
<1>3. m - 1 \in Nat /\ m - 1 \notin Bad
  BY <1>1, <1>2
<1>4. PICK f : IsParsed(f, names, m - 1)
  BY Zenon, <1>3
<1> DEFINE g == [i \in 0 .. m |->
         IF i = 0 THEN <<>>
         ELSE IF names[i] \in Dots THEN f[i - 1]
         ELSE Append(f[i - 1], names[i])]
<1>5. \A i \in 0 .. m - 1 : g[i] = f[i]
  BY <1>3, <1>4, ParsedTurn
<1>6. \A i \in 0 .. m : i # 0 => g[i - 1] = f[i - 1]
  <2> HIDE DEF g
  <2> QED BY <1>3, <1>5
<1>7. IsParsed(g, names, m)
  BY Zenon, <1>6 DEF IsParsed
<1> QED BY Zenon, <1>7

\* parseDirent64 returns the entries that are not "." or "..", in their order.
LEMMA Parse ==
  ASSUME NEW names \in Seq(Names), IsInjective(names)
  PROVE  /\ ParseDirent64(names) \in Seq(Names \ Dots)
         /\ IsInjective(ParseDirent64(names))
         /\ Range(ParseDirent64(names)) = Range(names) \ Dots
<1> DEFINE n == Len(names)
           F == CHOOSE f : IsParsed(f, names, n)
           Entries(i) == {names[k] : k \in 1 .. i} \ Dots
           Good(i) == /\ F[i] \in Seq(Names \ Dots) /\ IsInjective(F[i])
                      /\ Range(F[i]) = Entries(i)
           Bad == {i \in 0 .. n : ~Good(i)}
<1>1. n \in Nat /\ DOMAIN names = 1 .. n /\ \A i \in 1 .. n : names[i] \in Names
  OBVIOUS
<1>2. IsParsed(F, names, n)
  BY Zenon, <1>1, ParsedExists
<1>3. ParseDirent64(names) = F[n]
  BY Zenon DEF ParseDirent64, IsParsed
<1> HIDE DEF F
<1>4. F[0] = <<>>
  BY <1>1, <1>2, ParsedTurn
<1>5. \A i \in 1 .. n : F[i] = IF names[i] \in Dots THEN F[i - 1] ELSE Append(F[i - 1], names[i])
  BY <1>1, <1>2, ParsedTurn
<1>6. Good(0)
  BY <1>4 DEF IsInjective, Range
<1>7. ASSUME NEW i \in 1 .. n, Good(i - 1) PROVE Good(i)
  <2>1. Entries(i) = Entries(i - 1) \cup ({names[i]} \ Dots)
    BY <1>1
  <2>2. CASE names[i] \in Dots
    BY Zenon, <1>5, <1>7, <2>1, <2>2
  <2>3. CASE names[i] \notin Dots
    <3> DEFINE s == F[i - 1]
    <3>1. F[i] = Append(s, names[i]) /\ s \in Seq(Names \ Dots) /\ IsInjective(s)
      BY Zenon, <1>5, <1>7, <2>3
    <3>2. names[i] \in Names \ Dots
      BY Zenon, <1>1, <2>3
    <3>3. \A k \in DOMAIN s : s[k] # names[i]
      <4> SUFFICES ASSUME NEW k \in DOMAIN s PROVE s[k] # names[i]
        BY Zenon
      <4>1. s[k] \in Entries(i - 1)
        BY Zenon, <1>7 DEF Range
      <4>2. PICK h \in 1 .. i - 1 : s[k] = names[h]
        BY Zenon, <4>1
      <4> QED BY <1>1, <4>2 DEF IsInjective
    <3> HIDE DEF s
    <3>4. /\ F[i] \in Seq(Names \ Dots) /\ Len(F[i]) = Len(s) + 1 /\ Len(s) \in Nat
          /\ F[i][Len(s) + 1] = names[i] /\ \A k \in 1 .. Len(s) : F[i][k] = s[k]
          /\ DOMAIN F[i] = 1 .. Len(s) + 1 /\ DOMAIN s = 1 .. Len(s)
      BY <3>1, <3>2
    <3>5. IsInjective(F[i])
      BY <3>1, <3>3, <3>4 DEF IsInjective
    <3>6. Range(F[i]) = Range(s) \cup {names[i]}
      BY <3>4 DEF Range
    <3> QED BY Zenon, <1>7, <2>1, <2>3, <3>4, <3>5, <3>6 DEF s
  <2> QED BY Zenon, <2>2, <2>3
<1>8. \A i \in 1 .. n : Good(i - 1) => Good(i)
  BY Zenon, <1>7
<1>9. ASSUME Bad # {} PROVE FALSE
  <2> HIDE DEF Good
  <2>1. PICK m \in Bad : \A k \in Bad : m <= k
    <3>1. Bad \in SUBSET Nat
      BY <1>1
    <3> QED BY Zenon, <1>9, <3>1, Smallest
  <2>2. m \in 1 .. n /\ m - 1 \in 0 .. n
    BY <1>1, <1>6, <2>1
  <2>3. m - 1 \notin Bad
    BY <2>1, <2>2
  <2> QED BY Zenon, <1>8, <2>1, <2>2, <2>3
<1>10. Good(n)
  <2> HIDE DEF Good
  <2> QED BY <1>1, <1>9
<1>11. Entries(n) = Range(names) \ Dots
  BY Zenon, <1>1 DEF Range
<1> QED BY Zenon, <1>3, <1>10, <1>11


-----------------------------------------------------------------------------
(***************************************************************************)
(* What the callbacks have in common.                                      *)
(***************************************************************************)
\* The request served is the only one of its call.
LEMMA HeadRequest ==
  ASSUME IInv, q # <<>>
  PROVE  /\ Head(q) = q[1] /\ Len(q) \in Nat \ {0} /\ DOMAIN q = 1 .. Len(q)
         /\ Head(q).call \in Calls /\ ctx[Head(q).call] \in Ctxs
         /\ rets[Head(q).call] = <<>>
         /\ RequestOK(Head(q), ctx[Head(q).call], fds, dir)
         /\ \A i \in 2 .. Len(q) : i \in DOMAIN q /\ q[i].call # Head(q).call
                                   /\ q[i].call \in Calls
<1>1. q \in Seq(Requests) /\ ctx \in [Calls -> Ctxs]
  BY Zenon DEF IInv, Types
<1>2. /\ Head(q) = q[1] /\ Len(q) \in Nat \ {0} /\ DOMAIN q = 1 .. Len(q)
      /\ \A i \in 1 .. Len(q) : q[i] \in Requests
  BY <1>1
<1>3. \A i \in 1 .. Len(q) : q[i].call \in Calls
  BY Zenon, <1>2 DEF Requests
<1>4. 1 \in DOMAIN q /\ \A i \in 2 .. Len(q) : i \in DOMAIN q /\ i # 1
  BY <1>2
<1>5. RequestOK(q[1], ctx[q[1].call], fds, dir) /\ rets[q[1].call] = <<>>
  BY Zenon, <1>4 DEF IInv, RequestInv
<1>6. \A i \in 2 .. Len(q) : q[i].call # q[1].call
  BY Zenon, <1>4 DEF IInv, RequestInv
<1> QED BY Zenon, <1>1, <1>2, <1>3, <1>4, <1>5, <1>6

\* The head of the queue is served and r is submitted.
LEMMA QueueMore ==
  ASSUME q \in Seq(Requests), q # <<>>, NEW r \in Requests, Submit(<<r>>)
  PROVE  /\ q' \in Seq(Requests) /\ Len(q') = Len(q) /\ DOMAIN q' = 1 .. Len(q)
         /\ q'[Len(q)] = r /\ \A i \in 1 .. Len(q) - 1 : q'[i] = q[i + 1]
BY DEF Submit

\* From d to e only descriptors of call c come, go or change.
OthersKept(c, d, e) ==
  /\ DOMAIN e \subseteq Fds
  /\ \A f \in DOMAIN e : e[f] \in [owner : Calls, last : Nat]
  /\ \A f \in DOMAIN d : d[f].owner # c => f \in DOMAIN e /\ e[f] = d[f]
  /\ \A f \in DOMAIN e : e[f].owner # c => f \in DOMAIN d /\ e[f] = d[f]

\* The request of call c is served; its context becomes x.
OwnStep(c, x) ==
  /\ q # <<>> /\ Head(q).call = c /\ UNCHANGED <<dir, left>> /\ OthersKept(c, fds, fds')
  /\ x \in Ctxs /\ x.made /\ x.kept = ctx[c].kept /\ x.seen = ctx[c].seen
  /\ x.again = ctx[c].again
  /\ ctx' = [ctx EXCEPT ![c] = x]

\* The contexts and requests of the other calls are as they were.
LEMMA OtherCalls ==
  ASSUME IInv, NEW c, NEW x, OwnStep(c, x)
  PROVE  /\ c \in Calls /\ ctx' \in [Calls -> Ctxs] /\ ctx'[c] = x
         /\ \A b \in Calls \ {c} : ctx'[b] = ctx[b]
         /\ \A i \in 2 .. Len(q) :
              /\ q[i].call # c /\ RequestOK(q[i], ctx'[q[i].call], fds', dir')
              /\ rets[q[i].call] = <<>>
<1>1. /\ c \in Calls /\ ctx' \in [Calls -> Ctxs] /\ ctx'[c] = x
      /\ \A b \in Calls \ {c} : ctx'[b] = ctx[b]
  BY Zenon, HeadRequest DEF OwnStep, IInv, Types
<1>2. ASSUME NEW i \in 2 .. Len(q)
      PROVE  /\ q[i].call # c /\ RequestOK(q[i], ctx'[q[i].call], fds', dir')
             /\ rets[q[i].call] = <<>>
  <2>1. i \in DOMAIN q /\ q[i].call # c /\ q[i].call \in Calls
    BY Zenon, HeadRequest DEF OwnStep
  <2>2. RequestOK(q[i], ctx[q[i].call], fds, dir) /\ rets[q[i].call] = <<>>
    BY Zenon, <2>1 DEF IInv, RequestInv
  <2>3. ctx'[q[i].call] = ctx[q[i].call]
    BY Zenon, <1>1, <2>1
  <2>4. RequestOK(q[i], ctx[q[i].call], fds', dir')
    BY Zenon, <2>1, <2>2 DEF RequestOK, OwnStep, OthersKept
  <2> QED BY Zenon, <2>1, <2>2, <2>3, <2>4
<1> QED BY Zenon, <1>1, <1>2

\* Call c calls back, with what is ret then.
Answers(c, ret) ==
  /\ ret \in Seq(Results) /\ ReturnOK(ret, ctx[c])
  /\ ~CallbackMayThrow => Len(ret) <= 1
  /\ rets' = [rets EXCEPT ![c] = ret]
  /\ stuck' \in BOOLEAN

\* The call is over.
LEMMA Finished ==
  ASSUME IInv, NEW c, OwnStep(c, ctx[c]), Submit(<<>>), NEW ret, Answers(c, ret),
         \A f \in DOMAIN fds' : fds'[f].owner # c
  PROVE  IInv'
<1>1. /\ q \in Seq(Requests) /\ rets \in [Calls -> Seq(Results)]
      /\ Len(q) \in Nat \ {0} /\ DOMAIN q = 1 .. Len(q) /\ q[1].call = c
  BY Zenon, HeadRequest DEF OwnStep, IInv, Types
<1>2. /\ c \in Calls /\ ctx' \in [Calls -> Ctxs] /\ ctx'[c] = ctx[c]
      /\ \A b \in Calls \ {c} : ctx'[b] = ctx[b]
      /\ \A i \in 2 .. Len(q) :
           /\ q[i].call # c /\ RequestOK(q[i], ctx'[q[i].call], fds', dir')
           /\ rets[q[i].call] = <<>>
  BY Zenon, OtherCalls
<1>3. /\ q' \in Seq(Requests) /\ Len(q') = Len(q) - 1 /\ DOMAIN q' = 1 .. Len(q) - 1
      /\ \A i \in 1 .. Len(q) - 1 : q'[i] = q[i + 1]
  BY <1>1 DEF Submit, OwnStep
<1>4. /\ rets' \in [Calls -> Seq(Results)] /\ rets'[c] = ret
      /\ \A b \in Calls \ {c} : rets'[b] = rets[b]
  BY Zenon, <1>1, <1>2 DEF Answers
<1>5. Types'
  <2>1. stuck' \in BOOLEAN
    BY Zenon DEF Answers
  <2>2. DirOK(dir', left')
    BY Zenon DEF OwnStep, IInv, Types
  <2>3. DOMAIN fds' \subseteq Fds /\ \A f \in DOMAIN fds' : fds'[f] \in [owner : Calls, last : Nat]
    BY Zenon DEF OwnStep, OthersKept
  <2> QED BY Zenon, <1>2, <1>3, <1>4, <2>1, <2>2, <2>3 DEF Types
<1>6. \A i \in DOMAIN q' : /\ i + 1 \in 2 .. Len(q) /\ i + 1 \in DOMAIN q
                           /\ q'[i] = q[i + 1] /\ q'[i].call \in Calls \ {c}
  <2>1. \A i \in DOMAIN q' : q'[i] \in Requests
    BY <1>3
  <2>2. \A i \in DOMAIN q' : q'[i].call \in Calls
    BY Zenon, <2>1 DEF Requests
  <2> QED BY <1>1, <1>2, <1>3, <2>2
<1>7. RequestInv'
  <2>1. \A i, k \in DOMAIN q' : q'[i].call = q'[k].call => i = k
    BY <1>1, <1>3, <1>6 DEF IInv, RequestInv
  <2>2. \A i \in DOMAIN q' :
          RequestOK(q'[i], ctx'[q'[i].call], fds', dir') /\ rets'[q'[i].call] = <<>>
    BY <1>2, <1>4, <1>6
  <2>3. ASSUME NEW f \in DOMAIN fds'
        PROVE  /\ ctx'[fds'[f].owner].fd = f
               /\ \E i \in DOMAIN q' : q'[i].call = fds'[f].owner /\ q'[i].op # "open"
    <3>1. f \in DOMAIN fds /\ fds'[f] = fds[f] /\ fds[f].owner \in Calls \ {c}
      BY Zenon, <1>5 DEF OwnStep, OthersKept, Types
    <3>2. PICK k \in DOMAIN q : q[k].call = fds[f].owner /\ q[k].op # "open"
      BY Zenon, <3>1 DEF IInv, RequestInv
    <3>3. k - 1 \in DOMAIN q' /\ q'[k - 1] = q[k]
      BY <1>1, <1>3, <3>1, <3>2
    <3>4. ctx'[fds'[f].owner].fd = f
      BY <1>2, <3>1 DEF IInv, RequestInv
    <3> QED BY Zenon, <3>1, <3>2, <3>3, <3>4
  <2> QED BY Zenon, <2>1, <2>2, <2>3 DEF RequestInv
<1>8. CallInv'
  <2> SUFFICES ASSUME NEW b \in Calls
               PROVE  /\ UnderWay(b)' => /\ ctx'[b].kept \subseteq DOMAIN dir'
                                         /\ DOMAIN dir' \subseteq ctx'[b].seen
                      /\ ~ctx'[b].made => rets'[b] = <<>>
                      /\ ReturnOK(rets'[b], ctx'[b])
                      /\ ~CallbackMayThrow => Len(rets'[b]) <= 1
    BY Zenon DEF CallInv
  <2>1. dir' = dir /\ ctx[c].made /\ UnderWay(c)
    BY Zenon, HeadRequest DEF OwnStep, UnderWay
  <2>2. CASE b = c
    <3>1. ctx[c].kept \subseteq DOMAIN dir /\ DOMAIN dir \subseteq ctx[c].seen
      BY Zenon, <1>2, <2>1 DEF IInv, CallInv
    <3> QED BY Zenon, <1>2, <1>4, <2>1, <2>2, <3>1 DEF Answers
  <2>3. CASE b # c
    <3>1. UnderWay(b)' = UnderWay(b)
      BY Zenon, <1>2, <1>4, <2>3 DEF UnderWay
    <3> QED BY Zenon, <1>2, <1>4, <2>1, <2>3, <3>1 DEF IInv, CallInv
  <2> QED BY Zenon, <2>2, <2>3
<1> QED BY Zenon, <1>5, <1>7, <1>8 DEF IInv

\* The call goes on, with the system call op on its only descriptor.
LEMMA Continued ==
  ASSUME IInv, NEW c, NEW x, OwnStep(c, x), NEW op \in Ops \ {"open"},
         Submit(<<Request(c, op)>>), RequestOK(Request(c, op), x, fds', dir'),
         UNCHANGED <<rets, stuck>>,
         \A f \in DOMAIN fds' : fds'[f].owner = c => f = x.fd
  PROVE  IInv'
<1> DEFINE r == Request(c, op)
<1>1. /\ q \in Seq(Requests) /\ rets \in [Calls -> Seq(Results)] /\ rets[c] = <<>>
      /\ Len(q) \in Nat \ {0} /\ DOMAIN q = 1 .. Len(q) /\ q[1].call = c
  BY Zenon, HeadRequest DEF OwnStep, IInv, Types
<1>2. /\ c \in Calls /\ ctx' \in [Calls -> Ctxs] /\ ctx'[c] = x
      /\ \A b \in Calls \ {c} : ctx'[b] = ctx[b]
      /\ \A i \in 2 .. Len(q) :
           /\ q[i].call # c /\ RequestOK(q[i], ctx'[q[i].call], fds', dir')
           /\ rets[q[i].call] = <<>>
  BY Zenon, OtherCalls
<1>3. r \in Requests /\ r.call = c /\ r.op = op
  BY Zenon, <1>2 DEF Request, Requests
<1> HIDE DEF r
<1>4. /\ q' \in Seq(Requests) /\ Len(q') = Len(q) /\ DOMAIN q' = 1 .. Len(q)
      /\ \A i \in 1 .. Len(q) - 1 : q'[i] = q[i + 1]
      /\ q'[Len(q)] = r
  <2>1. Submit(<<r>>) /\ q # <<>>
    BY Zenon DEF OwnStep, r
  <2> QED BY Zenon, <1>1, <1>3, <2>1, QueueMore
<1>5. Types'
  <2>1. stuck' \in BOOLEAN /\ rets' \in [Calls -> Seq(Results)]
    BY Zenon DEF IInv, Types
  <2>2. DirOK(dir', left')
    BY Zenon DEF OwnStep, IInv, Types
  <2>3. DOMAIN fds' \subseteq Fds /\ \A f \in DOMAIN fds' : fds'[f] \in [owner : Calls, last : Nat]
    BY Zenon DEF OwnStep, OthersKept
  <2> QED BY Zenon, <1>2, <1>4, <2>1, <2>2, <2>3 DEF Types
<1>6. \A i \in 1 .. Len(q) - 1 :
        /\ i + 1 \in 2 .. Len(q) /\ i + 1 \in DOMAIN q /\ i \in DOMAIN q'
        /\ q'[i] = q[i + 1] /\ q'[i].call \in Calls \ {c}
  <2>1. \A i \in DOMAIN q' : q'[i] \in Requests
    BY <1>4
  <2>2. \A i \in DOMAIN q' : q'[i].call \in Calls
    BY Zenon, <2>1 DEF Requests
  <2> SUFFICES ASSUME NEW i \in 1 .. Len(q) - 1
               PROVE  /\ i + 1 \in 2 .. Len(q) /\ i + 1 \in DOMAIN q /\ i \in DOMAIN q'
                      /\ q'[i] = q[i + 1] /\ q'[i].call \in Calls \ {c}
    BY Zenon
  <2>3. i + 1 \in 2 .. Len(q) /\ i + 1 \in DOMAIN q /\ i \in DOMAIN q'
    BY <1>1, <1>4
  <2>4. q'[i] = q[i + 1] /\ q[i + 1].call # c
    BY Zenon, <1>2, <1>4, <2>3
  <2> QED BY Zenon, <2>2, <2>3, <2>4
<1>7. RequestInv'
  <2>1. \A i, k \in DOMAIN q' : q'[i].call = q'[k].call => i = k
    <3>1. \A i, k \in 1 .. Len(q) - 1 : q'[i].call = q'[k].call => i = k
      <4> SUFFICES ASSUME NEW i \in 1 .. Len(q) - 1, NEW k \in 1 .. Len(q) - 1,
                          q'[i].call = q'[k].call
                   PROVE  i = k
        BY Zenon
      <4>1. i + 1 = k + 1
        BY <1>6 DEF IInv, RequestInv
      <4> QED BY <1>1, <4>1
    <3>2. \A i \in DOMAIN q' : i = Len(q) \/ i \in 1 .. Len(q) - 1
      BY <1>1, <1>4
    <3> QED BY Zenon, <1>3, <1>4, <1>6, <3>1, <3>2
  <2>2. \A i \in DOMAIN q' :
          RequestOK(q'[i], ctx'[q'[i].call], fds', dir') /\ rets'[q'[i].call] = <<>>
    <3>1. RequestOK(r, ctx'[r.call], fds', dir') /\ rets'[r.call] = <<>>
      BY Zenon, <1>1, <1>2, <1>3 DEF r
    <3>2. \A i \in 1 .. Len(q) - 1 :
            RequestOK(q'[i], ctx'[q'[i].call], fds', dir') /\ rets'[q'[i].call] = <<>>
      BY <1>2, <1>6
    <3>3. \A i \in DOMAIN q' : i = Len(q) \/ i \in 1 .. Len(q) - 1
      BY <1>1, <1>4
    <3> QED BY Zenon, <1>4, <3>1, <3>2, <3>3
  <2>3. ASSUME NEW f \in DOMAIN fds'
        PROVE  /\ ctx'[fds'[f].owner].fd = f
               /\ \E i \in DOMAIN q' : q'[i].call = fds'[f].owner /\ q'[i].op # "open"
    <3>1. CASE fds'[f].owner = c
      <4>1. Len(q) \in DOMAIN q' /\ q'[Len(q)].call = c /\ q'[Len(q)].op # "open"
        BY <1>1, <1>3, <1>4
      <4> QED BY Zenon, <1>2, <3>1, <4>1
    <3>2. CASE fds'[f].owner # c
      <4>1. f \in DOMAIN fds /\ fds'[f] = fds[f] /\ fds[f].owner \in Calls \ {c}
        BY Zenon, <1>5, <3>2 DEF OwnStep, OthersKept, Types
      <4>2. PICK k \in DOMAIN q : q[k].call = fds[f].owner /\ q[k].op # "open"
        BY Zenon, <4>1 DEF IInv, RequestInv
      <4>3. k # 1
        BY Zenon, <1>1, <4>1, <4>2
      <4>4. k - 1 \in 1 .. Len(q) - 1 /\ k - 1 + 1 = k
        BY <1>1, <4>2, <4>3
      <4>5. k - 1 \in DOMAIN q' /\ q'[k - 1] = q[k]
        BY Zenon, <1>6, <4>4
      <4>6. ctx'[fds'[f].owner].fd = f
        BY <1>2, <4>1 DEF IInv, RequestInv
      <4> QED BY Zenon, <4>1, <4>2, <4>5, <4>6
    <3> QED BY Zenon, <3>1, <3>2
  <2> QED BY Zenon, <2>1, <2>2, <2>3 DEF RequestInv
<1>8. CallInv'
  <2> SUFFICES ASSUME NEW b \in Calls
               PROVE  /\ UnderWay(b)' => /\ ctx'[b].kept \subseteq DOMAIN dir'
                                         /\ DOMAIN dir' \subseteq ctx'[b].seen
                      /\ ~ctx'[b].made => rets'[b] = <<>>
                      /\ ReturnOK(rets'[b], ctx'[b])
                      /\ ~CallbackMayThrow => Len(rets'[b]) <= 1
    BY Zenon DEF CallInv
  <2>1. dir' = dir /\ ctx[c].made /\ rets' = rets /\ UnderWay(c)
    BY Zenon, HeadRequest DEF OwnStep, RequestOK, UnderWay
  <2>2. CASE b = c
    <3>1. ctx[c].kept \subseteq DOMAIN dir /\ DOMAIN dir \subseteq ctx[c].seen
      BY Zenon, <1>2, <2>1 DEF IInv, CallInv
    <3>2. /\ x.made /\ x.kept = ctx[c].kept /\ x.seen = ctx[c].seen
          /\ ~CallbackMayThrow => Len(rets[c]) <= 1
      BY Zenon, <1>2 DEF OwnStep, IInv, CallInv
    <3> QED BY Zenon, <1>1, <1>2, <2>1, <2>2, <3>1, <3>2 DEF ReturnOK
  <2>3. CASE b # c
    <3>1. UnderWay(b)' = UnderWay(b)
      BY Zenon, <1>2, <2>1, <2>3 DEF UnderWay
    <3> QED BY Zenon, <1>2, <2>1, <2>3, <3>1 DEF IInv, CallInv
  <2> QED BY Zenon, <2>2, <2>3
<1> QED BY Zenon, <1>5, <1>7, <1>8 DEF IInv


-----------------------------------------------------------------------------
(***************************************************************************)
(* One lemma per action.                                                   *)
(***************************************************************************)
ErrorResult == [err |-> TRUE, names |-> <<>>]

\* callback(err) is one result, and says nothing of the names.
LEMMA ErrorAnswer ==
  ASSUME IInv, q # <<>>, ReturnError(Head(q).call)
  PROVE  Answers(Head(q).call, <<ErrorResult>>)
<1>1. rets[Head(q).call] = <<>> /\ Head(q).call \in Calls
  BY Zenon, HeadRequest
<1>2. ErrorResult \in Results /\ ErrorResult.err
  BY DEF ErrorResult, Results
<1>3. <<ErrorResult>> \in Seq(Results) /\ Len(<<ErrorResult>>) = 1 /\ <<ErrorResult>>[1].err
  BY <1>2
<1>4. rets' = [rets EXCEPT ![Head(q).call] = <<ErrorResult>>]
  <2>1. Append(rets[Head(q).call], ErrorResult) = <<ErrorResult>>
    BY <1>1
  <2> QED BY Zenon, <2>1 DEF ReturnError, ErrorResult
<1>5. stuck' \in BOOLEAN
  BY Zenon DEF ReturnError
<1> QED BY <1>3, <1>4, <1>5 DEF Answers, ReturnOK

\* callback(null, result) answers with the names, and with an error after it
\* when the callback throws.
LEMMA NamesAnswer ==
  ASSUME IInv, q # <<>>, NEW names \in Seq(Names \ Dots), ReturnNames(Head(q).call, names),
         ReturnOK(<<[err |-> FALSE, names |-> names]>>, ctx[Head(q).call])
  PROVE  \E ret : Answers(Head(q).call, ret)
<1> DEFINE c == Head(q).call
           ok == [err |-> FALSE, names |-> names]
<1>1. rets[c] = <<>> /\ c \in Calls /\ stuck \in BOOLEAN
  BY Zenon, HeadRequest DEF IInv, Types
<1>2. ErrorResult \in Results /\ ok \in Results
  BY DEF ErrorResult, Results
<1>3. \/ rets' = [rets EXCEPT ![c] = Append(rets[c], ok)] /\ UNCHANGED stuck
      \/ /\ CallbackMayThrow /\ stuck' \in BOOLEAN
         /\ rets' = [rets EXCEPT ![c] = rets[c] \o <<ok, ErrorResult>>]
  BY Zenon DEF ReturnNames, ErrorResult
<1>4. ReturnOK(<<ok>>, ctx[c])
  BY Zenon
<1> HIDE DEF ok, c
<1>5. Append(rets[c], ok) = <<ok>> /\ rets[c] \o <<ok, ErrorResult>> = <<ok, ErrorResult>>
  BY <1>1, <1>2
<1>6. /\ <<ok>> \in Seq(Results) /\ Len(<<ok>>) = 1 /\ <<ok>>[1] = ok /\ <<ok>> # <<>>
      /\ <<ok, ErrorResult>> \in Seq(Results) /\ <<ok, ErrorResult>>[1] = ok
  BY <1>2
<1>7. ReturnOK(<<ok, ErrorResult>>, ctx[c])
  BY Zenon, <1>4, <1>6 DEF ReturnOK
<1>8. CASE rets' = [rets EXCEPT ![c] = <<ok>>] /\ UNCHANGED stuck
  <2>1. Answers(c, <<ok>>)
    BY <1>1, <1>4, <1>6, <1>8 DEF Answers
  <2> QED BY Zenon, <2>1 DEF c
<1>9. CASE /\ CallbackMayThrow /\ stuck' \in BOOLEAN
           /\ rets' = [rets EXCEPT ![c] = <<ok, ErrorResult>>]
  <2>1. Answers(c, <<ok, ErrorResult>>)
    BY Zenon, <1>6, <1>7, <1>9 DEF Answers
  <2> QED BY Zenon, <2>1 DEF c
<1> QED BY Zenon, <1>3, <1>5, <1>8, <1>9

\* A callback that leaves the context of its call alone.
LEMMA SameContext ==
  ASSUME IInv, q # <<>>, UNCHANGED <<dir, left, ctx>>, OthersKept(Head(q).call, fds, fds')
  PROVE  OwnStep(Head(q).call, ctx[Head(q).call])
<1>1. Head(q).call \in Calls /\ ctx[Head(q).call] \in Ctxs /\ ctx[Head(q).call].made
  BY Zenon, HeadRequest DEF RequestOK
<1>2. ctx \in [Calls -> Ctxs]
  BY Zenon DEF IInv, Types
<1>3. ctx = [ctx EXCEPT ![Head(q).call] = ctx[Head(q).call]]
  BY Zenon, <1>2
<1> QED BY Zenon, <1>1, <1>3 DEF OwnStep

\* The descriptors may stay as they are.
LEMMA SameFds ==
  ASSUME IInv, NEW c
  PROVE  OthersKept(c, fds, fds)
BY Zenon DEF OthersKept, IInv, Types

\* A descriptor of the call served is the one of its context, and the call is
\* past openat.
LEMMA OwnFd ==
  ASSUME IInv, q # <<>>, NEW f \in DOMAIN fds, fds[f].owner = Head(q).call
  PROVE  f = ctx[Head(q).call].fd /\ Head(q).op # "open"
<1>1. PICK i \in DOMAIN q : q[i].call = fds[f].owner /\ q[i].op # "open"
  BY Zenon DEF IInv, RequestInv
<1>2. 1 \in DOMAIN q /\ q[1] = Head(q)
  BY HeadRequest
<1>3. i = 1
  BY <1>1, <1>2 DEF IInv, RequestInv
<1> QED BY Zenon, <1>1, <1>2, <1>3 DEF IInv, RequestInv

\* openat fails: readdir calls back with the error.
LEMMA OpenFailedStep ==
  ASSUME IInv, Pending("open"), Submit(<<>>), ReturnError(Head(q).call),
         UNCHANGED <<dir, left, fds, ctx>>
  PROVE  IInv'
<1>1. q # <<>> /\ Head(q).op = "open"
  BY Zenon DEF Pending
<1>2. Answers(Head(q).call, <<ErrorResult>>)
  BY Zenon, <1>1, ErrorAnswer
<1>3. OwnStep(Head(q).call, ctx[Head(q).call])
  BY Zenon, <1>1, SameContext, SameFds
<1>4. \A f \in DOMAIN fds' : fds'[f].owner # Head(q).call
  BY Zenon, <1>1, OwnFd
<1> QED BY Zenon, <1>2, <1>3, <1>4, Finished

\* openat succeeds with descriptor f.
LEMMA OpenedStep ==
  ASSUME IInv, Pending("open"), NEW f \in Fds \ DOMAIN fds,
         fds' = [g \in DOMAIN fds \cup {f} |->
                   IF g = f THEN [owner |-> Head(q).call, last |-> 0] ELSE fds[g]],
         ctx' = [ctx EXCEPT ![Head(q).call].fd = f],
         Submit(<<Request(Head(q).call, "getdents64")>>),
         UNCHANGED <<dir, left, rets, stuck>>
  PROVE  IInv'
<1> DEFINE c == Head(q).call
           x == [ctx[c] EXCEPT !.fd = f]
           r == Request(c, "getdents64")
<1>1. /\ q # <<>> /\ Head(q).op = "open" /\ c \in Calls /\ ctx[c] \in Ctxs
      /\ RequestOK(Head(q), ctx[c], fds, dir) /\ f \in Nat
  BY Zenon, HeadRequest, RoomAssumption DEF Pending
<1>2. ctx[c].made /\ ctx[c].result = <<>>
  BY Zenon, <1>1 DEF RequestOK
<1>3. /\ x \in Ctxs /\ x.fd = f /\ x.made = ctx[c].made /\ x.kept = ctx[c].kept
      /\ x.seen = ctx[c].seen /\ x.again = ctx[c].again /\ x.result = ctx[c].result
  BY Zenon, <1>1 DEF Ctxs
<1>4. r.call = c /\ r.op = "getdents64"
  BY Zenon DEF Request
<1>5. ctx' = [ctx EXCEPT ![c] = x]
  BY Zenon
<1>6. /\ DOMAIN fds' = DOMAIN fds \cup {f} /\ fds'[f] = [owner |-> c, last |-> 0]
      /\ \A g \in DOMAIN fds : fds'[g] = fds[g]
  BY Zenon
<1>7. OthersKept(c, fds, fds')
  BY Zenon, <1>1, <1>6 DEF OthersKept, IInv, Types
<1>8. \A g \in DOMAIN fds' : fds'[g].owner = c => g = x.fd
  BY Zenon, <1>1, <1>3, <1>6, OwnFd
<1> HIDE DEF c, x
<1>9. ListedTo(x, 0, dir)
  <2>1. x.result = <<>> /\ DOMAIN x.result = {} /\ Range(x.result) = {}
    BY <1>2, <1>3 DEF Range
  <2>2. \A n \in x.kept : dir[n] \in Nat \ {0}
    <3>1. UnderWay(c) /\ c \in Calls
      BY Zenon, <1>1, <1>2, HeadRequest DEF UnderWay, c
    <3> QED BY Zenon, <1>3, <3>1, PlacesAssumption DEF IInv, CallInv, Types, DirOK
  <2>3. \A n \in x.kept : ~(dir[n] <= 0)
    BY <2>2
  <2> QED BY <2>1, <2>3 DEF ListedTo, OnceUnless
<1>10. RequestOK(r, x, fds', dir')
  BY Zenon, <1>2, <1>3, <1>4, <1>6, <1>9 DEF RequestOK
<1>11. OwnStep(c, x)
  BY Zenon, <1>1, <1>2, <1>3, <1>5, <1>7 DEF OwnStep, c
<1>12. Submit(<<Request(c, "getdents64")>>) /\ "getdents64" \in Ops \ {"open"}
  BY Zenon DEF c, Ops
<1> QED BY Zenon, <1>8, <1>10, <1>11, <1>12, Continued

\* The system call openat with its callback.
LEMMA ServeOpenStep == ASSUME IInv, ServeOpen PROVE IInv'
<1> DEFINE free == Fds \ DOMAIN fds
<1>1. Pending("open") /\ UNCHANGED <<dir, left>>
  BY Zenon DEF ServeOpen
<1>2. CASE Submit(<<>>) /\ ReturnError(Head(q).call) /\ UNCHANGED <<fds, ctx>>
  BY Zenon, <1>1, <1>2, OpenFailedStep
<1>3. CASE /\ free # {}
           /\ fds' = [f \in DOMAIN fds \cup {Min(free)} |->
                        IF f = Min(free) THEN [owner |-> Head(q).call, last |-> 0] ELSE fds[f]]
           /\ ctx' = [ctx EXCEPT ![Head(q).call].fd = Min(free)]
           /\ Submit(<<Request(Head(q).call, "getdents64")>>)
           /\ UNCHANGED <<rets, stuck>>
  <2>1. Min(free) \in free
    BY Zenon, <1>3, MinIn, RoomAssumption
  <2> HIDE DEF free
  <2>2. Min(free) \in Fds \ DOMAIN fds
    BY Zenon, <2>1 DEF free
  <2> QED BY Zenon, <1>1, <1>3, <2>2, OpenedStep
<1> QED BY Zenon, <1>2, <1>3 DEF ServeOpen


\* listdir is over: readdir closes, keeping the error.
LEMMA StopStep ==
  ASSUME IInv, Pending("getdents64"), NEW err \in BOOLEAN, Stop(Head(q).call, err),
         ~err => ctx[Head(q).call].kept \ Dots \subseteq Range(ctx[Head(q).call].result),
         UNCHANGED <<dir, left, fds, rets, stuck>>
  PROVE  IInv'
<1> DEFINE c == Head(q).call
           x == [ctx[c] EXCEPT !.err = err]
           r == Request(c, "close")
<1>1. /\ q # <<>> /\ Head(q).op = "getdents64" /\ c \in Calls /\ ctx[c] \in Ctxs
      /\ RequestOK(Head(q), ctx[c], fds, dir)
  BY Zenon, HeadRequest DEF Pending
<1>2. /\ x \in Ctxs /\ x.fd = ctx[c].fd /\ x.made = ctx[c].made /\ x.kept = ctx[c].kept
      /\ x.seen = ctx[c].seen /\ x.again = ctx[c].again /\ x.result = ctx[c].result /\ x.err = err
  BY Zenon, <1>1 DEF Ctxs
<1>3. r.call = c /\ r.op = "close"
  BY Zenon DEF Request
<1>4. ctx' = [ctx EXCEPT ![c] = x] /\ Submit(<<Request(c, "close")>>)
  BY Zenon DEF Stop
<1>5. \A g \in DOMAIN fds' : fds'[g].owner = c => g = x.fd
  BY Zenon, <1>1, <1>2, OwnFd
<1>6. ~err => x.kept \ Dots \subseteq Range(x.result)
  BY Zenon, <1>2
<1>7. OthersKept(c, fds, fds')
  BY Zenon, SameFds
<1> HIDE DEF x
<1>8. RequestOK(r, x, fds', dir')
  BY Zenon, <1>1, <1>2, <1>3, <1>6 DEF RequestOK, ListedTo
<1>9. OwnStep(c, x)
  BY Zenon, <1>1, <1>2, <1>4, <1>7 DEF OwnStep, RequestOK
<1>10. "close" \in Ops \ {"open"}
  BY Zenon DEF Ops
<1> HIDE DEF c
<1> QED BY <1>4, <1>5, <1>8, <1>9, <1>10, Continued

\* A result followed by new names, of which only those created again were in it.
LEMMA OnceConcat ==
  ASSUME NEW a \in Seq(Names), NEW b \in Seq(Names), NEW again, OnceUnless(a, again),
         IsInjective(b), \A n \in Range(a) \cap Range(b) : n \in again
  PROVE  OnceUnless(a \o b, again) /\ Range(a \o b) = Range(a) \cup Range(b)
<1> DEFINE s == a \o b
<1>1. /\ s \in Seq(Names) /\ Len(s) = Len(a) + Len(b) /\ Len(a) \in Nat /\ Len(b) \in Nat
      /\ DOMAIN s = 1 .. Len(a) + Len(b) /\ DOMAIN a = 1 .. Len(a) /\ DOMAIN b = 1 .. Len(b)
      /\ \A i \in 1 .. Len(a) : s[i] = a[i]
      /\ \A i \in 1 .. Len(b) : s[Len(a) + i] = b[i]
  OBVIOUS
<1>2. \A i \in DOMAIN s : i \notin DOMAIN a => i - Len(a) \in DOMAIN b /\ s[i] = b[i - Len(a)]
  BY <1>1
<1>3. \A i \in DOMAIN a, k \in DOMAIN b : a[i] = b[k] => a[i] \in again
  BY Zenon DEF Range
<1> HIDE DEF s
<1>4. OnceUnless(s, again)
  <2> SUFFICES ASSUME NEW i \in DOMAIN s, NEW k \in DOMAIN s, s[i] = s[k]
               PROVE  i = k \/ s[i] \in again
    BY Zenon DEF OnceUnless
  <2>1. CASE i \in DOMAIN a /\ k \in DOMAIN a
    BY Zenon, <1>1, <2>1 DEF OnceUnless
  <2>2. CASE i \in DOMAIN a /\ k \notin DOMAIN a
    BY Zenon, <1>1, <1>2, <1>3, <2>2
  <2>3. CASE i \notin DOMAIN a /\ k \in DOMAIN a
    BY Zenon, <1>1, <1>2, <1>3, <2>3
  <2>4. CASE i \notin DOMAIN a /\ k \notin DOMAIN a
    <3>1. i - Len(a) = k - Len(a)
      BY Zenon, <1>2, <2>4 DEF IsInjective
    <3> QED BY <1>1, <3>1
  <2> QED BY Zenon, <2>1, <2>2, <2>3, <2>4
<1>5. Range(s) \subseteq Range(a) \cup Range(b)
  BY Zenon, <1>1, <1>2 DEF Range
<1>6. Range(a) \subseteq Range(s)
  <2>1. \A i \in DOMAIN a : i \in DOMAIN s /\ s[i] = a[i]
    BY <1>1
  <2> QED BY Zenon, <2>1 DEF Range
<1>7. Range(b) \subseteq Range(s)
  <2>1. \A i \in DOMAIN b : Len(a) + i \in DOMAIN s /\ s[Len(a) + i] = b[i]
    BY <1>1
  <2> QED BY Zenon, <2>1 DEF Range
<1> QED BY Zenon, <1>4, <1>5, <1>6, <1>7 DEF s

\* What getdents64 returns between the places last and pos.
LEMMA Listing ==
  ASSUME IInv, NEW last \in Nat, NEW pos \in Places, NEW names \in Listings(last, pos)
  PROVE  /\ names \in Seq(Names) /\ IsInjective(names) /\ pos \in Nat /\ last < pos
         /\ Range(names) = {n \in DOMAIN dir : last < dir[n] /\ dir[n] <= pos}
<1>1. PICK k \in 1 .. Room : names \in [1 .. k -> DOMAIN dir]
  BY Zenon DEF Listings
<1>2. /\ \A i, j \in DOMAIN names : i < j => dir[names[i]] < dir[names[j]]
      /\ Range(names) = {n \in DOMAIN dir : last < dir[n] /\ dir[n] <= pos}
  BY Zenon DEF Listings, InOrder
<1>3. /\ k \in Nat \ {0} /\ 1 \in 1 .. k /\ pos \in Nat
      /\ DOMAIN dir \subseteq Names /\ \A n \in DOMAIN dir : dir[n] \in Nat
  <2>1. k \in Nat \ {0} /\ 1 \in 1 .. k
    BY <1>1, RoomAssumption
  <2> QED BY Zenon, <2>1, PlacesAssumption DEF IInv, Types, DirOK
<1>4. names \in Seq(Names) /\ DOMAIN names = 1 .. k
  <2>1. DOMAIN names = 1 .. k /\ \A i \in 1 .. k : names[i] \in Names
    BY Zenon, <1>1, <1>3
  <2>2. names = [i \in 1 .. k |-> names[i]]
    BY Zenon, <1>1
  <2> QED BY <1>3, <2>1, <2>2
<1>5. last < pos
  <2>1. names[1] \in Range(names)
    BY Zenon, <1>3, <1>4 DEF Range
  <2>2. dir[names[1]] \in Nat /\ last < dir[names[1]] /\ dir[names[1]] <= pos
    BY Zenon, <1>2, <1>3, <2>1
  <2> QED BY <1>3, <2>2
<1>6. ASSUME NEW i \in DOMAIN names, NEW j \in DOMAIN names, names[i] = names[j] PROVE i = j
  <2>1. dir[names[i]] \in Nat /\ dir[names[j]] = dir[names[i]]
    BY Zenon, <1>1, <1>3, <1>4, <1>6
  <2>2. ~(dir[names[i]] < dir[names[j]]) /\ ~(dir[names[j]] < dir[names[i]])
    BY <2>1
  <2>3. ~(i < j) /\ ~(j < i)
    BY Zenon, <1>2, <2>2
  <2> QED BY <1>3, <1>4, <2>3
<1> QED BY Zenon, <1>2, <1>3, <1>4, <1>5, <1>6 DEF IsInjective

\* listdir appends what was read to the result and goes on.
LEMMA ContinueStep ==
  ASSUME IInv, Pending("getdents64"), NEW pos \in Places,
         NEW names \in Listings(fds[ctx[Head(q).call].fd].last, pos),
         fds' = [fds EXCEPT ![ctx[Head(q).call].fd].last = pos],
         Continue(Head(q).call, names), UNCHANGED <<dir, left, rets, stuck>>
  PROVE  IInv'
<1> DEFINE c == Head(q).call
           f == ctx[c].fd
           last == fds[f].last
           new == ParseDirent64(names)
           x == [ctx[c] EXCEPT !.result = ctx[c].result \o new]
           r == Request(c, "getdents64")
<1>1. /\ q # <<>> /\ Head(q).op = "getdents64" /\ c \in Calls /\ ctx[c] \in Ctxs
      /\ RequestOK(Head(q), ctx[c], fds, dir)
  BY Zenon, HeadRequest DEF Pending
<1>2. /\ ctx[c].made /\ f \in DOMAIN fds /\ fds[f].owner = c /\ ListedTo(ctx[c], last, dir)
      /\ fds[f] \in [owner : Calls, last : Nat] /\ rets[c] = <<>>
  BY Zenon, <1>1, HeadRequest DEF RequestOK, IInv, Types
<1>3. last \in Nat
  BY Zenon, <1>2
<1>4. /\ names \in Seq(Names) /\ IsInjective(names) /\ pos \in Nat /\ last < pos
      /\ Range(names) = {n \in DOMAIN dir : last < dir[n] /\ dir[n] <= pos}
  BY Zenon, <1>3, Listing
<1>5. /\ new \in Seq(Names \ Dots) /\ IsInjective(new) /\ Range(new) = Range(names) \ Dots
  BY Zenon, <1>4, Parse
<1>6. ctx' = [ctx EXCEPT ![c] = x] /\ Submit(<<Request(c, "getdents64")>>)
  BY Zenon DEF Continue
<1> HIDE DEF new
<1>7. /\ x \in Ctxs /\ x.fd = f /\ x.made = ctx[c].made /\ x.kept = ctx[c].kept
      /\ x.seen = ctx[c].seen /\ x.again = ctx[c].again /\ x.result = ctx[c].result \o new
  <2>1. ctx[c].result \in Seq(Names \ Dots)
    BY Zenon, <1>1 DEF Ctxs
  <2>2. ctx[c].result \o new \in Seq(Names \ Dots)
    BY <1>5, <2>1
  <2> QED BY Zenon, <1>1, <2>2 DEF Ctxs
<1>8. /\ DOMAIN fds' = DOMAIN fds /\ fds'[f].owner = c /\ fds'[f].last = pos
      /\ fds'[f] \in [owner : Calls, last : Nat]
      /\ \A g \in DOMAIN fds \ {f} : fds'[g] = fds[g]
  BY Zenon, <1>2, <1>4
<1>9. OthersKept(c, fds, fds')
  BY Zenon, <1>2, <1>8 DEF OthersKept, IInv, Types
<1>10. \A g \in DOMAIN fds' : fds'[g].owner = c => g = x.fd
  BY Zenon, <1>1, <1>7, <1>8, OwnFd
<1>11. r.call = c /\ r.op = "getdents64"
  BY Zenon DEF Request
<1>12. /\ ctx[c].kept \subseteq DOMAIN dir /\ DOMAIN dir \subseteq ctx[c].seen
       /\ \A n \in DOMAIN dir : dir[n] \in Nat
  <2>1. UnderWay(c)
    BY Zenon, <1>2 DEF UnderWay
  <2> QED BY Zenon, <1>1, <2>1, PlacesAssumption DEF IInv, CallInv, Types, DirOK
<1> HIDE DEF c, f, last, x, r
<1>13. /\ OnceUnless(x.result, x.again)
       /\ Range(x.result) = Range(ctx[c].result) \cup Range(new)
  <2>1. ctx[c].result \in Seq(Names) /\ new \in Seq(Names)
    <3>1. ctx[c].result \in Seq(Names \ Dots)
      BY Zenon, <1>1 DEF Ctxs
    <3> QED BY <1>5, <3>1
  <2>2. ASSUME NEW n \in Range(ctx[c].result) \cap Range(new) PROVE n \in ctx[c].again
    <3>1. n \in DOMAIN dir /\ last < dir[n]
      BY Zenon, <1>4, <1>5
    <3>2. n \in ctx[c].again \/ dir[n] <= last
      BY Zenon, <1>2, <3>1 DEF ListedTo
    <3>3. ~(dir[n] <= last)
      BY <1>3, <1>12, <3>1
    <3> QED BY Zenon, <3>2, <3>3
  <2>3. OnceUnless(ctx[c].result, ctx[c].again)
    BY Zenon, <1>2 DEF ListedTo
  <2> QED BY Zenon, <1>5, <1>7, <2>1, <2>2, <2>3, OnceConcat
<1>14. ListedTo(x, pos, dir)
  <2>1. Range(x.result) \subseteq x.seen
    BY Zenon, <1>2, <1>4, <1>5, <1>7, <1>12, <1>13 DEF ListedTo
  <2>2. ASSUME NEW n \in Range(x.result) \cap DOMAIN dir PROVE n \in x.again \/ dir[n] <= pos
    <3>1. CASE n \in Range(ctx[c].result)
      <4>1. n \in x.again \/ dir[n] <= last
        BY Zenon, <1>2, <1>7, <3>1 DEF ListedTo
      <4>2. dir[n] <= last => dir[n] <= pos
        BY <1>3, <1>4, <1>12
      <4> QED BY Zenon, <4>1, <4>2
    <3>2. CASE n \in Range(new)
      BY Zenon, <1>4, <1>5, <3>2
    <3> QED BY Zenon, <1>13, <3>1, <3>2
  <2>3. ASSUME NEW n \in x.kept \ Dots, dir[n] <= pos PROVE n \in Range(x.result)
    <3>1. n \in ctx[c].kept \ Dots /\ n \in DOMAIN dir /\ dir[n] \in Nat
      BY Zenon, <1>7, <1>12
    <3>2. CASE dir[n] <= last
      BY Zenon, <1>2, <1>13, <3>1, <3>2 DEF ListedTo
    <3>3. CASE last < dir[n]
      BY Zenon, <1>4, <1>5, <1>13, <2>3, <3>1, <3>3
    <3>4. dir[n] <= last \/ last < dir[n]
      BY <1>3, <3>1
    <3> QED BY Zenon, <3>2, <3>3, <3>4
  <2> QED BY Zenon, <1>13, <2>1, <2>2, <2>3 DEF ListedTo
<1>15. RequestOK(r, x, fds', dir')
  BY Zenon, <1>2, <1>7, <1>8, <1>11, <1>14 DEF RequestOK
<1>16. OwnStep(c, x)
  BY Zenon, <1>1, <1>2, <1>6, <1>7, <1>9 DEF OwnStep, c
<1>17. "getdents64" \in Ops \ {"open"}
  BY Zenon DEF Ops
<1> QED BY Zenon, <1>6, <1>10, <1>15, <1>16, <1>17, Continued DEF r

\* The system call getdents64 with its callback.
LEMMA ServeGetdentsStep == ASSUME IInv, ServeGetdents PROVE IInv'
<1> DEFINE c == Head(q).call
           rest == {n \in DOMAIN dir : dir[n] > fds[ctx[c].fd].last}
<1>1. Pending("getdents64") /\ UNCHANGED <<dir, left, rets, stuck>>
  BY Zenon DEF ServeGetdents
<1>2. CASE Stop(c, TRUE) /\ UNCHANGED fds
  BY Zenon, <1>1, <1>2, StopStep
<1>3. CASE rest = {} /\ Stop(c, FALSE) /\ UNCHANGED fds
  <2>1. /\ c \in Calls /\ ctx[c] \in Ctxs /\ RequestOK(Head(q), ctx[c], fds, dir)
        /\ Head(q).op = "getdents64"
    BY Zenon, <1>1, HeadRequest DEF Pending
  <2>2. /\ ctx[c].made /\ ctx[c].fd \in DOMAIN fds /\ ListedTo(ctx[c], fds[ctx[c].fd].last, dir)
        /\ fds[ctx[c].fd].last \in Nat /\ UnderWay(c)
    BY Zenon, <1>1, <2>1, HeadRequest DEF Pending, RequestOK, IInv, Types, UnderWay
  <2>3. ctx[c].kept \subseteq DOMAIN dir /\ \A n \in DOMAIN dir : dir[n] \in Nat
    BY Zenon, <2>1, <2>2, PlacesAssumption DEF IInv, CallInv, Types, DirOK
  <2>4. ASSUME NEW n \in ctx[c].kept PROVE dir[n] <= fds[ctx[c].fd].last
    <3>1. n \in DOMAIN dir /\ dir[n] \in Nat /\ n \notin rest
      BY Zenon, <1>3, <2>3
    <3>2. ~(dir[n] > fds[ctx[c].fd].last)
      BY Zenon, <3>1
    <3> QED BY <2>2, <3>1, <3>2
  <2>5. ctx[c].kept \ Dots \subseteq Range(ctx[c].result)
    BY Zenon, <2>2, <2>4 DEF ListedTo
  <2> QED BY Zenon, <1>1, <1>3, <2>5, StopStep
<1>4. CASE \E pos \in Places : \E names \in Listings(fds[ctx[c].fd].last, pos) :
             /\ fds' = [fds EXCEPT ![ctx[c].fd].last = pos]
             /\ Continue(c, names)
  BY Zenon, <1>1, <1>4, ContinueStep
<1> QED BY Zenon, <1>2, <1>3, <1>4 DEF ServeGetdents


\* The system call close with its callback: the descriptor is gone, whatever
\* close returns, and readdir calls back.
LEMMA ServeCloseStep == ASSUME IInv, ServeClose PROVE IInv'
<1> DEFINE c == Head(q).call
           x == ctx[c]
<1>1. /\ q # <<>> /\ Head(q).op = "close" /\ c \in Calls /\ x \in Ctxs
      /\ RequestOK(Head(q), x, fds, dir)
  BY Zenon, HeadRequest DEF ServeClose, Pending
<1>2. /\ fds' = [f \in DOMAIN fds \ {x.fd} |-> fds[f]] /\ Submit(<<>>)
      /\ UNCHANGED <<dir, left, ctx>>
  BY Zenon DEF ServeClose
<1>3. x.fd \in DOMAIN fds /\ fds[x.fd].owner = c
  BY Zenon, <1>1 DEF RequestOK
<1>4. DOMAIN fds' = DOMAIN fds \ {x.fd} /\ \A f \in DOMAIN fds' : fds'[f] = fds[f]
  BY Zenon, <1>2
<1>5. OthersKept(c, fds, fds')
  BY Zenon, <1>3, <1>4 DEF OthersKept, IInv, Types
<1>6. \A f \in DOMAIN fds' : fds'[f].owner # c
  BY Zenon, <1>1, <1>4, OwnFd
<1>7. OwnStep(c, x)
  BY Zenon, <1>1, <1>2, <1>5, SameContext
<1>8. PICK closeErr \in BOOLEAN : AfterClose(c, x.err \/ closeErr)
  BY Zenon DEF ServeClose
<1>9. \E ret : Answers(c, ret)
  <2>1. CASE ReturnError(c)
    BY Zenon, <1>1, <2>1, ErrorAnswer
  <2>2. CASE ~x.err /\ ReturnNames(c, x.result)
    <3> DEFINE ok == [err |-> FALSE, names |-> x.result]
    <3>1. x.result \in Seq(Names \ Dots)
      BY Zenon, <1>1 DEF Ctxs
    <3>2. ListedTo(x, fds[x.fd].last, dir) /\ x.kept \ Dots \subseteq Range(x.result)
      BY Zenon, <1>1, <2>2 DEF RequestOK
    <3>3. OnceUnless(x.result, x.again)
      BY Zenon, <3>2 DEF ListedTo
    <3>4. Range(x.result) \subseteq x.seen \ Dots
      <4>1. Range(x.result) \subseteq Names \ Dots
        BY <3>1 DEF Range
      <4> QED BY Zenon, <3>2, <4>1 DEF ListedTo
    <3>5. <<ok>>[1] = ok /\ ok.names = x.result
      BY Zenon
    <3> HIDE DEF ok, x
    <3>6. ReturnOK(<<ok>>, x)
      BY Zenon, <3>2, <3>3, <3>4, <3>5 DEF ReturnOK
    <3> QED BY Zenon, <1>1, <2>2, <3>1, <3>6, NamesAnswer DEF x, ok
  <2> QED BY Zenon, <1>8, <2>1, <2>2 DEF AfterClose
<1> HIDE DEF c
<1> QED BY Zenon, <1>2, <1>6, <1>7, <1>9, Finished

\* The application calls readdir: the request for openat is the last.
LEMMA CallStep ==
  ASSUME IInv, NEW c \in Calls, Call(c)
  PROVE  IInv'
<1> DEFINE x == [NoCall EXCEPT !.made = TRUE, !.kept = DOMAIN dir, !.seen = DOMAIN dir]
           r == Request(c, "open")
<1>1. /\ q \in Seq(Requests) /\ ctx \in [Calls -> Ctxs] /\ DOMAIN dir \in SUBSET Names
      /\ ctx[c] \in Ctxs /\ ~ctx[c].made /\ UNCHANGED <<dir, fds, rets, stuck, left>>
      /\ ctx' = [ctx EXCEPT ![c] = x] /\ q' = Append(q, r)
  BY Zenon DEF IInv, Types, DirOK, Call
<1>2. /\ x \in Ctxs /\ x.made /\ x.kept = DOMAIN dir /\ x.seen = DOMAIN dir /\ x.result = <<>>
  <2>1. /\ x.made /\ x.kept = DOMAIN dir /\ x.seen = DOMAIN dir /\ x.result = <<>>
    BY Zenon DEF NoCall
  <2>2. NoCall \in Ctxs
    BY DEF NoCall, Ctxs
  <2>3. x \in Ctxs
    BY Zenon, <1>1, <2>2 DEF Ctxs
  <2> QED BY Zenon, <2>1, <2>3
<1>3. r \in Requests /\ r.call = c /\ r.op = "open"
  BY Zenon DEF Request, Requests, Ops
<1> HIDE DEF x, r
<1>4. /\ ctx' \in [Calls -> Ctxs] /\ ctx'[c] = x
      /\ \A b \in Calls \ {c} : ctx'[b] = ctx[b]
  BY Zenon, <1>1, <1>2
<1>5. /\ q' \in Seq(Requests) /\ DOMAIN q' = DOMAIN q \cup {Len(q) + 1}
      /\ Len(q) \in Nat /\ DOMAIN q = 1 .. Len(q)
      /\ q'[Len(q) + 1] = r /\ \A i \in DOMAIN q : q'[i] = q[i]
  BY <1>1, <1>3
<1>6. \A i \in DOMAIN q : q[i].call \in Calls \ {c}
  <2>1. \A i \in DOMAIN q : q[i] \in Requests
    BY <1>1
  <2>2. \A i \in DOMAIN q : ctx[q[i].call].made
    BY Zenon DEF IInv, RequestInv, RequestOK
  <2> QED BY Zenon, <1>1, <2>1, <2>2 DEF Requests
<1>7. rets[c] = <<>>
  BY Zenon, <1>1 DEF IInv, CallInv
<1>8. Types'
  <2>1. stuck' \in BOOLEAN
    BY Zenon, <1>1 DEF IInv, Types
  <2> QED BY Zenon, <1>1, <1>4, <1>5, <2>1 DEF IInv, Types
<1>9. RequestInv'
  <2>1. \A i, k \in DOMAIN q' : q'[i].call = q'[k].call => i = k
    BY <1>3, <1>5, <1>6 DEF IInv, RequestInv
  <2>2. \A i \in DOMAIN q : RequestOK(q[i], ctx'[q[i].call], fds', dir') /\ rets'[q[i].call] = <<>>
    BY Zenon, <1>1, <1>4, <1>6 DEF IInv, RequestInv
  <2>3. RequestOK(r, x, fds', dir')
    BY Zenon, <1>2, <1>3 DEF RequestOK
  <2>4. \A i \in DOMAIN q' :
          RequestOK(q'[i], ctx'[q'[i].call], fds', dir') /\ rets'[q'[i].call] = <<>>
    BY <1>1, <1>3, <1>4, <1>5, <1>7, <2>2, <2>3
  <2>5. ASSUME NEW f \in DOMAIN fds'
        PROVE  /\ ctx'[fds'[f].owner].fd = f
               /\ \E i \in DOMAIN q' : q'[i].call = fds'[f].owner /\ q'[i].op # "open"
    <3>1. f \in DOMAIN fds /\ fds' = fds
      BY Zenon, <1>1
    <3>2. PICK k \in DOMAIN q : q[k].call = fds[f].owner /\ q[k].op # "open"
      BY Zenon, <3>1 DEF IInv, RequestInv
    <3>3. ctx'[fds[f].owner] = ctx[fds[f].owner]
      BY Zenon, <1>4, <1>6, <3>2
    <3>4. ctx[fds[f].owner].fd = f
      BY Zenon, <3>1 DEF IInv, RequestInv
    <3> QED BY Zenon, <1>5, <3>1, <3>2, <3>3, <3>4
  <2> QED BY Zenon, <2>1, <2>4, <2>5 DEF RequestInv
<1>10. CallInv'
  <2> SUFFICES ASSUME NEW b \in Calls
               PROVE  /\ UnderWay(b)' => /\ ctx'[b].kept \subseteq DOMAIN dir'
                                         /\ DOMAIN dir' \subseteq ctx'[b].seen
                      /\ ~ctx'[b].made => rets'[b] = <<>>
                      /\ ReturnOK(rets'[b], ctx'[b])
                      /\ ~CallbackMayThrow => Len(rets'[b]) <= 1
    BY Zenon DEF CallInv
  <2>1. CASE b = c
    BY <1>1, <1>2, <1>4, <1>7, <2>1 DEF ReturnOK
  <2>2. CASE b # c
    <3>1. UnderWay(b)' = UnderWay(b)
      BY Zenon, <1>1, <1>4, <2>2 DEF UnderWay
    <3> QED BY Zenon, <1>1, <1>4, <2>2, <3>1 DEF IInv, CallInv
  <2> QED BY Zenon, <2>1, <2>2
<1> QED BY Zenon, <1>8, <1>9, <1>10 DEF IInv

\* readdir of what is no path calls back at once.
LEMMA CallNoPathStep ==
  ASSUME IInv, NEW c \in Calls, CallNoPath(c)
  PROVE  IInv'
<1> DEFINE x == [ctx[c] EXCEPT !.made = TRUE]
<1>1. /\ ctx[c] \in Ctxs /\ ctx \in [Calls -> Ctxs] /\ rets \in [Calls -> Seq(Results)]
      /\ ~ctx[c].made /\ rets[c] = <<>> /\ UNCHANGED <<dir, fds, q, left>>
      /\ ctx' = [ctx EXCEPT ![c] = x] /\ ReturnError(c)
  BY Zenon DEF IInv, Types, CallInv, CallNoPath
<1>2. /\ x \in Ctxs /\ x.made
  BY Zenon, <1>1 DEF Ctxs
<1> HIDE DEF x
<1>3. /\ ctx' \in [Calls -> Ctxs] /\ ctx'[c] = x
      /\ \A b \in Calls \ {c} : ctx'[b] = ctx[b]
  BY Zenon, <1>1, <1>2
<1>4. /\ <<ErrorResult>> \in Seq(Results) /\ <<ErrorResult>>[1].err /\ <<ErrorResult>> # <<>>
      /\ Len(<<ErrorResult>>) = 1
  BY DEF ErrorResult, Results
<1>5. /\ rets' \in [Calls -> Seq(Results)] /\ rets'[c] = <<ErrorResult>>
      /\ \A b \in Calls \ {c} : rets'[b] = rets[b]
  <2>1. Append(rets[c], ErrorResult) = <<ErrorResult>>
    BY <1>1
  <2>2. rets' = [rets EXCEPT ![c] = <<ErrorResult>>]
    BY Zenon, <1>1, <2>1 DEF ReturnError, ErrorResult
  <2> QED BY Zenon, <1>1, <1>4, <2>2
<1>6. \A i \in DOMAIN q : q[i].call \in Calls \ {c}
  <2>1. \A i \in DOMAIN q : q[i] \in Requests
    BY DEF IInv, Types
  <2>2. \A i \in DOMAIN q : ctx[q[i].call].made
    BY Zenon DEF IInv, RequestInv, RequestOK
  <2> QED BY Zenon, <1>1, <2>1, <2>2 DEF Requests
<1>7. Types'
  <2>1. stuck' \in BOOLEAN
    BY Zenon, <1>1 DEF ReturnError
  <2> QED BY Zenon, <1>1, <1>3, <1>5, <2>1 DEF IInv, Types
<1>8. RequestInv'
  <2>1. \A i \in DOMAIN q : RequestOK(q[i], ctx'[q[i].call], fds, dir) /\ rets'[q[i].call] = <<>>
    BY Zenon, <1>3, <1>5, <1>6 DEF IInv, RequestInv
  <2>2. \A f \in DOMAIN fds : ctx'[fds[f].owner].fd = f
    BY Zenon, <1>3, <1>6 DEF IInv, RequestInv
  <2> QED BY <1>1, <2>1, <2>2 DEF IInv, RequestInv
<1>9. CallInv'
  <2> SUFFICES ASSUME NEW b \in Calls
               PROVE  /\ UnderWay(b)' => /\ ctx'[b].kept \subseteq DOMAIN dir'
                                         /\ DOMAIN dir' \subseteq ctx'[b].seen
                      /\ ~ctx'[b].made => rets'[b] = <<>>
                      /\ ReturnOK(rets'[b], ctx'[b])
                      /\ ~CallbackMayThrow => Len(rets'[b]) <= 1
    BY Zenon DEF CallInv
  <2>1. CASE b = c
    <3>1. ~UnderWay(c)' /\ ctx'[c].made /\ ReturnOK(rets'[c], ctx'[c])
      BY Zenon, <1>2, <1>3, <1>4, <1>5 DEF ReturnOK, UnderWay
    <3>2. Len(rets'[c]) <= 1
      BY <1>4, <1>5
    <3> QED BY Zenon, <2>1, <3>1, <3>2
  <2>2. CASE b # c
    BY Zenon, <1>1, <1>3, <1>5, <2>2 DEF IInv, CallInv, UnderWay
  <2> QED BY Zenon, <2>1, <2>2
<1> QED BY Zenon, <1>7, <1>8, <1>9 DEF IInv

\* What a change of the directory does to the history x of a call, which
\* becomes y: names that have a new place are not lasting ones, and are marked
\* when they were there before.
Recorded(x, y) ==
  /\ y.made = x.made /\ y.fd = x.fd /\ y.result = x.result /\ y.err = x.err
  /\ y.kept \subseteq x.kept /\ x.seen \subseteq y.seen /\ x.again \subseteq y.again
  /\ y.kept \subseteq DOMAIN dir' /\ DOMAIN dir' \subseteq y.seen
  /\ \A n \in DOMAIN dir' : \/ n \in DOMAIN dir /\ dir'[n] = dir[n]
                            \/ n \notin y.kept /\ (n \in x.seen => n \in y.again)

\* The directory changes while the calls under way record it.
LEMMA Changed ==
  ASSUME IInv, UNCHANGED <<fds, q, rets, stuck>>, DirOK(dir', left'),
         ctx' \in [Calls -> Ctxs],
         \A c \in Calls : IF UnderWay(c) THEN Recorded(ctx[c], ctx'[c]) ELSE ctx'[c] = ctx[c]
  PROVE  IInv'
<1>1. Types'
  <2>1. stuck' \in BOOLEAN
    BY Zenon DEF IInv, Types
  <2> QED BY Zenon, <2>1 DEF IInv, Types
<1>2. \A i \in DOMAIN q : /\ q[i].call \in Calls /\ UnderWay(q[i].call)
                          /\ RequestOK(q[i], ctx[q[i].call], fds, dir)
  <2>1. \A i \in DOMAIN q : q[i] \in Requests
    BY DEF IInv, Types
  <2> QED BY Zenon, <2>1 DEF Requests, IInv, RequestInv, RequestOK, UnderWay
<1>3. ASSUME NEW i \in DOMAIN q
      PROVE  RequestOK(q[i], ctx'[q[i].call], fds, dir')
  <2> DEFINE x == ctx[q[i].call]
             y == ctx'[q[i].call]
  <2>1. Recorded(x, y) /\ RequestOK(q[i], x, fds, dir)
    BY Zenon, <1>2
  <2> HIDE DEF x, y
  <2>2. ASSUME NEW last, ListedTo(x, last, dir) PROVE ListedTo(y, last, dir')
    <3>1. OnceUnless(y.result, y.again) /\ Range(y.result) \subseteq y.seen
      BY Zenon, <2>1, <2>2 DEF Recorded, ListedTo, OnceUnless
    <3>2. \A n \in Range(y.result) \cap DOMAIN dir' : n \in y.again \/ dir'[n] <= last
      BY Zenon, <2>1, <2>2 DEF Recorded, ListedTo
    <3>3. \A n \in y.kept \ Dots : dir'[n] <= last => n \in Range(y.result)
      BY Zenon, <2>1, <2>2 DEF Recorded, ListedTo
    <3> QED BY Zenon, <3>1, <3>2, <3>3 DEF ListedTo
  <2>3. RequestOK(q[i], y, fds, dir')
    BY Zenon, <2>1, <2>2 DEF Recorded, RequestOK
  <2> QED BY Zenon, <2>3 DEF y
<1>4. \A c \in Calls : ctx'[c].fd = ctx[c].fd /\ ctx'[c].made = ctx[c].made
  BY Zenon DEF Recorded
<1>5. RequestInv'
  <2>1. \A f \in DOMAIN fds : fds[f].owner \in Calls
    BY Zenon DEF IInv, Types
  <2>2. \A f \in DOMAIN fds : ctx'[fds[f].owner].fd = f
    BY Zenon, <1>4, <2>1 DEF IInv, RequestInv
  <2> QED BY <1>3, <2>2 DEF IInv, RequestInv
<1>6. CallInv'
  <2> SUFFICES ASSUME NEW b \in Calls
               PROVE  /\ UnderWay(b)' => /\ ctx'[b].kept \subseteq DOMAIN dir'
                                         /\ DOMAIN dir' \subseteq ctx'[b].seen
                      /\ ~ctx'[b].made => rets'[b] = <<>>
                      /\ ReturnOK(rets'[b], ctx'[b])
                      /\ ~CallbackMayThrow => Len(rets'[b]) <= 1
    BY Zenon DEF CallInv
  <2>1. UnderWay(b)' = UnderWay(b)
    BY Zenon, <1>4 DEF UnderWay
  <2>2. CASE UnderWay(b)
    BY Zenon, <1>4, <2>1, <2>2 DEF UnderWay, Recorded, ReturnOK, IInv, CallInv
  <2>3. CASE ~UnderWay(b)
    BY Zenon, <1>4, <2>1, <2>3 DEF IInv, CallInv
  <2> QED BY Zenon, <2>2, <2>3
<1> QED BY Zenon, <1>1, <1>5, <1>6 DEF IInv

\* Another operation creates a name, wherever the filesystem puts it.
LEMMA CreateStep ==
  ASSUME IInv, NEW n \in Names, NEW p \in Places, Create(n, p)
  PROVE  IInv'
<1> DEFINE y(c) == [ctx[c] EXCEPT !.seen = ctx[c].seen \cup {n},
                                  !.again = ctx[c].again \cup ({n} \cap ctx[c].seen)]
<1>1. /\ UNCHANGED <<fds, q, rets, stuck>> /\ n \notin DOMAIN dir /\ p \notin Range(dir)
      /\ ctx' = [c \in Calls |-> IF UnderWay(c) THEN y(c) ELSE ctx[c]]
      /\ dir' = [m \in DOMAIN dir \cup {n} |-> IF m = n THEN p ELSE dir[m]]
      /\ left > 0 /\ left' = left - 1
  BY Zenon DEF Create
<1>2. /\ DOMAIN dir' = DOMAIN dir \cup {n} /\ dir'[n] = p
      /\ \A m \in DOMAIN dir : dir'[m] = dir[m]
  BY Zenon, <1>1
<1>3. DirOK(dir', left')
  <2>1. left' \in 0 .. MaxChanges
    <3>1. left \in 0 .. MaxChanges /\ MaxChanges \in Nat
      BY Zenon, RoomAssumption DEF IInv, Types, DirOK
    <3>2. left > 0 /\ left' = left - 1
      BY Zenon, <1>1
    <3> QED BY <3>1, <3>2
  <2>2. \A m \in DOMAIN dir : dir[m] # p
    BY Zenon, <1>1 DEF Range
  <2>3. IsInjective(dir')
    BY Zenon, <1>2, <2>2 DEF IsInjective, IInv, Types, DirOK
  <2> QED BY Zenon, <1>2, <2>1, <2>3 DEF IInv, Types, DirOK
<1>4. ASSUME NEW c \in Calls, UnderWay(c) PROVE y(c) \in Ctxs /\ Recorded(ctx[c], y(c))
  <2>1. ctx[c] \in Ctxs
    BY Zenon DEF IInv, Types
  <2>2. /\ ctx[c].seen \cup {n} \in SUBSET Names
        /\ ctx[c].again \cup ({n} \cap ctx[c].seen) \in SUBSET Names
    BY Zenon, <2>1 DEF Ctxs
  <2>3. /\ y(c) \in Ctxs /\ y(c).made = ctx[c].made /\ y(c).fd = ctx[c].fd
        /\ y(c).result = ctx[c].result /\ y(c).err = ctx[c].err /\ y(c).kept = ctx[c].kept
        /\ y(c).seen = ctx[c].seen \cup {n}
        /\ y(c).again = ctx[c].again \cup ({n} \cap ctx[c].seen)
    BY Zenon, <2>1, <2>2 DEF Ctxs
  <2>4. ctx[c].kept \subseteq DOMAIN dir /\ DOMAIN dir \subseteq ctx[c].seen
    BY Zenon, <1>4 DEF IInv, CallInv
  <2> HIDE DEF y
  <2>5. Recorded(ctx[c], y(c))
    BY Zenon, <1>1, <1>2, <2>3, <2>4 DEF Recorded
  <2> QED BY Zenon, <2>3, <2>5
<1> HIDE DEF y
<1>5. \A c \in Calls : ctx'[c] = IF UnderWay(c) THEN y(c) ELSE ctx[c]
  BY Zenon, <1>1
<1>6. ctx' \in [Calls -> Ctxs]
  BY Zenon, <1>1, <1>4 DEF IInv, Types
<1> QED BY Zenon, <1>1, <1>3, <1>4, <1>5, <1>6, Changed

\* Another operation removes a name: fewer have been there all the time.
LEMMA RemoveStep ==
  ASSUME IInv, NEW n \in Names, Remove(n)
  PROVE  IInv'
<1> DEFINE y(c) == [ctx[c] EXCEPT !.kept = ctx[c].kept \ {n}]
<1>1. /\ UNCHANGED <<fds, q, rets, stuck>> /\ n \in DOMAIN dir \ Dots
      /\ ctx' = [c \in Calls |-> IF UnderWay(c) THEN y(c) ELSE ctx[c]]
      /\ dir' = [m \in DOMAIN dir \ {n} |-> dir[m]]
      /\ left > 0 /\ left' = left - 1
  BY Zenon DEF Remove
<1>2. /\ DOMAIN dir' = DOMAIN dir \ {n} /\ \A m \in DOMAIN dir' : dir'[m] = dir[m]
  BY Zenon, <1>1
<1>3. DirOK(dir', left')
  <2>1. left' \in 0 .. MaxChanges
    <3>1. left \in 0 .. MaxChanges /\ MaxChanges \in Nat
      BY Zenon, RoomAssumption DEF IInv, Types, DirOK
    <3>2. left > 0 /\ left' = left - 1
      BY Zenon, <1>1
    <3> QED BY <3>1, <3>2
  <2>2. IsInjective(dir')
    BY Zenon, <1>2 DEF IsInjective, IInv, Types, DirOK
  <2> QED BY Zenon, <1>1, <1>2, <2>1, <2>2 DEF IInv, Types, DirOK
<1>4. ASSUME NEW c \in Calls, UnderWay(c) PROVE y(c) \in Ctxs /\ Recorded(ctx[c], y(c))
  <2>1. ctx[c] \in Ctxs
    BY Zenon DEF IInv, Types
  <2>2. ctx[c].kept \ {n} \in SUBSET Names
    BY Zenon, <2>1 DEF Ctxs
  <2>3. /\ y(c) \in Ctxs /\ y(c).made = ctx[c].made /\ y(c).fd = ctx[c].fd
        /\ y(c).result = ctx[c].result /\ y(c).err = ctx[c].err
        /\ y(c).kept = ctx[c].kept \ {n}
        /\ y(c).seen = ctx[c].seen /\ y(c).again = ctx[c].again
    BY Zenon, <2>1, <2>2 DEF Ctxs
  <2>4. ctx[c].kept \subseteq DOMAIN dir /\ DOMAIN dir \subseteq ctx[c].seen
    BY Zenon, <1>4 DEF IInv, CallInv
  <2> HIDE DEF y
  <2>5. Recorded(ctx[c], y(c))
    BY Zenon, <1>2, <2>3, <2>4 DEF Recorded
  <2> QED BY Zenon, <2>3, <2>5
<1> HIDE DEF y
<1>5. \A c \in Calls : ctx'[c] = IF UnderWay(c) THEN y(c) ELSE ctx[c]
  BY Zenon, <1>1
<1>6. ctx' \in [Calls -> Ctxs]
  BY Zenon, <1>1, <1>4 DEF IInv, Types
<1> QED BY Zenon, <1>1, <1>3, <1>4, <1>5, <1>6, Changed

-----------------------------------------------------------------------------
(***************************************************************************)
(* The theorems.                                                           *)
(***************************************************************************)
\* No call is made and nothing is open at first.
LEMMA InitInv == Init => IInv
<1> SUFFICES ASSUME Init PROVE IInv
  BY Zenon
<1>1. stuck \in BOOLEAN
  BY Zenon DEF Init
<1>2. q = <<>> /\ DOMAIN q = {} /\ q \in Seq(Requests) /\ DOMAIN fds = {}
  BY DEF Init
<1>3. DirOK(dir, left)
  <2>1. PICK names \in SUBSET (Names \ Dots) : dir \in Injection(Dots \cup names, Places)
    BY Zenon DEF Init
  <2>2. dir \in [Dots \cup names -> Places] /\ IsInjective(dir)
    BY Zenon, <2>1 DEF Injection, IsInjective
  <2>3. left \in 0 .. MaxChanges
    BY RoomAssumption DEF Init
  <2> QED BY Zenon, <2>1, <2>2, <2>3, NamesAssumption DEF DirOK
<1>4. NoCall \in Ctxs /\ ~NoCall.made
  BY DEF NoCall, Ctxs
<1>5. ctx \in [Calls -> Ctxs] /\ \A c \in Calls : ~ctx[c].made
  BY Zenon, <1>4 DEF Init
<1>6. rets \in [Calls -> Seq(Results)] /\ \A c \in Calls : rets[c] = <<>>
  BY DEF Init
<1>7. Types
  BY Zenon, <1>1, <1>2, <1>3, <1>5, <1>6 DEF Types
<1>8. RequestInv
  BY Zenon, <1>2 DEF RequestInv
<1>9. CallInv
  BY <1>5, <1>6 DEF CallInv, ReturnOK, UnderWay
<1> QED BY Zenon, <1>7, <1>8, <1>9 DEF IInv

\* A step that changes nothing.
LEMMA Stutter == IInv /\ UNCHANGED vars => IInv'
BY DEF vars, IInv, Types, RequestInv, CallInv, UnderWay

\* Every step preserves the invariant.
LEMMA NextInv == IInv /\ [Next]_vars => IInv'
<1> SUFFICES ASSUME IInv, [Next]_vars PROVE IInv'
  BY Zenon
<1>1. CASE UNCHANGED vars
  BY Zenon, <1>1, Stutter
<1>2. CASE \E c \in Calls : Call(c) \/ CallNoPath(c)
  BY Zenon, <1>2, CallStep, CallNoPathStep
<1>3. CASE \/ \E n \in Names, p \in Places : Create(n, p)
           \/ \E n \in Names : Remove(n)
  BY Zenon, <1>3, CreateStep, RemoveStep
<1>4. CASE ServeOpen
  BY Zenon, <1>4, ServeOpenStep
<1>5. CASE ServeGetdents
  BY Zenon, <1>5, ServeGetdentsStep
<1>6. CASE ServeClose
  BY Zenon, <1>6, ServeCloseStep
<1>7. CASE Quiet
  BY Zenon, <1>7, Stutter DEF Quiet
<1> QED BY Zenon, <1>1, <1>2, <1>3, <1>4, <1>5, <1>6, <1>7 DEF Next

\* The invariant implies the properties.
LEMMA IInvImplies ==
  IInv => /\ ~CallbackMayThrow => CallbackOnce
          /\ DescriptorForTheCall
          /\ ListsStableNames
<1> SUFFICES ASSUME IInv
             PROVE  /\ ~CallbackMayThrow => CallbackOnce
                    /\ DescriptorForTheCall
                    /\ ListsStableNames
  BY Zenon
<1>1. ~CallbackMayThrow => CallbackOnce
  BY DEF IInv, RequestInv, CallInv, CallbackOnce
<1>2. TypeOK
  <2>1. stuck \in BOOLEAN
    BY Zenon DEF IInv, Types
  <2>2. \A i \in DOMAIN q : q[i] \in Requests
    BY DEF IInv, Types
  <2>3. \A i \in DOMAIN q : q[i].call \in Calls /\ q[i].op \in {"open", "getdents64", "close"}
    BY Zenon, <2>2 DEF Requests, Ops
  <2>4. \A c \in Calls : ctx[c].result \in Seq(Names \ Dots)
    BY Zenon DEF IInv, Types, Ctxs
  <2>5. Range(dir) \subseteq Places
    BY Zenon DEF Range, IInv, Types, DirOK
  <2> QED BY Zenon, <2>1, <2>3, <2>4, <2>5 DEF TypeOK, IInv, Types, DirOK
<1>3. DescriptorForTheCall
  BY Zenon, <1>2 DEF IInv, RequestInv, RequestOK, DescriptorForTheCall
<1>4. ListsStableNames
  BY Zenon DEF IInv, CallInv, ReturnOK, OnceUnless, ListsStableNames
<1> QED BY Zenon, <1>1, <1>3, <1>4

\* The inductive invariant holds in every behaviour of readdir calls and of
\* changes to the directory between their system calls.
THEOREM Inductive == Spec => []IInv
BY InitInv, NextInv, PTL DEF Spec

\* readdir calls back at most once, and after its last system call, as long as
\* the application's callback does not throw inside the try of readdir.
THEOREM CalledBackOnce == ASSUME ~CallbackMayThrow PROVE Spec => []CallbackOnce
BY Inductive, IInvImplies, PTL

\* The descriptor of openat stays open for getdents64 and close and is closed
\* on every path of listdir and readdir, errors and exceptions included.
THEOREM DescriptorClosed == Spec => []DescriptorForTheCall
BY Inductive, IInvImplies, PTL

\* listdir lists every lasting name, and twice only names created again in the
\* meantime, however the directory changes between two getdents64, wherever the
\* filesystem puts new names and however the buffer cuts the entries.
THEOREM LastingNamesListed == Spec => []ListsStableNames
BY Inductive, IInvImplies, PTL
=============================================================================
