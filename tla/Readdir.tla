------------------------------ MODULE Readdir ------------------------------
(***************************************************************************)
(* readdir of lib/readdir.js: openat, getdents64 until it returns nothing, *)
(* close, decode.  Each system call goes through the operation queue, so   *)
(* other calls change the directory in between.  One action per system     *)
(* call, with the whole callback that handles it.                          *)
(*                                                                         *)
(* A name has a place in the directory, which it keeps until it is removed *)
(* and which the kernel lists names in the order of.  A name that is       *)
(* created, again or for the first time, takes any free place: the same    *)
(* one (a hash of the name, ext4), a freed one (vfat), or one after all    *)
(* others (btrfs).                                                         *)
(***************************************************************************)
EXTENDS Naturals, Sequences, Functions, FiniteSetsExt

CONSTANTS
  Calls,             \* the readdir calls made
  Names,             \* the names a directory may hold
  Places,            \* bound: the places in it, offsets after which to go on
  Dots,              \* "." and ".."
  Undecodable,       \* names that are empty strings in the encoding asked for
  Room,              \* bound: entries that fit in BUFFER_SIZE
  Fds,               \* descriptor numbers
  MaxChanges,        \* bound: names created and removed
  CallbackMayThrow   \* whether the application's callback may throw

ASSUME NamesAssumption ==
  Dots \subseteq Names /\ Undecodable \subseteq Names \ Dots
ASSUME PlacesAssumption == Places \subseteq Nat \ {0}
ASSUME RoomAssumption == Room \in Nat \ {0} /\ Fds \subseteq Nat /\ MaxChanges \in Nat
ASSUME ThrowAssumption == CallbackMayThrow \in BOOLEAN

VARIABLES
  dir,    \* the names in the directory, with their places
  fds,    \* owner of each open descriptor, and the last place it is past
  q,      \* system calls submitted and not served, oldest first
  ctx,    \* per call: encoding, descriptor, result so far, error of listdir
  rets,   \* per call: what its callback was called with, in order
  stuck,  \* an exception went through the queue
  left    \* changes of the directory yet to come

vars == <<dir, fds, q, ctx, rets, stuck, left>>

\* A call not made yet.  kept, seen and again are history: the names that were
\* in the directory all the time while the call was under way, those that were
\* at some time, and those of them that were created again.
NoCall == [made |-> FALSE, fd |-> 0, result |-> <<>>,
           err |-> FALSE, kept |-> {}, seen |-> {}, again |-> {}]

\* dir_emit_dots: "." and ".." are listed before the entries of the filesystem.
DotsFirst(d) == \A x \in Dots, p \in Places : p < d[x] => \E y \in Dots : p = d[y]

Init ==
  /\ \E names \in SUBSET (Names \ Dots) : dir \in Injection(Dots \cup names, Places)
  /\ DotsFirst(dir)
  /\ fds = [f \in {} |-> 0]
  /\ q = <<>>
  /\ ctx = [c \in Calls |-> NoCall]
  /\ rets = [c \in Calls |-> <<>>]
  /\ stuck = FALSE
  /\ left = MaxChanges

Request(c, op) == [call |-> c, op |-> op]
Pending(op) == ~stuck /\ q # <<>> /\ Head(q).op = op
Submit(requests) == q' = Tail(q) \o requests

\* callback(err): an exception goes through the queue.
ReturnError(c) ==
  /\ rets' = [rets EXCEPT ![c] = Append(@, [err |-> TRUE, names |-> <<>>])]
  /\ stuck' \in IF CallbackMayThrow THEN BOOLEAN ELSE {FALSE}

\* callback(null, result) inside the try block: the handler of decodeArray's
\* errors catches what the callback throws and calls it again.
ReturnNames(c, names) ==
  LET ok == [err |-> FALSE, names |-> names] IN
  \/ rets' = [rets EXCEPT ![c] = Append(@, ok)] /\ UNCHANGED stuck
  \/ /\ CallbackMayThrow /\ stuck' \in BOOLEAN
     /\ rets' = [rets EXCEPT ![c] = @ \o <<ok, [err |-> TRUE, names |-> <<>>]>>]

\* readdir of what is no path: neither a string nor a Buffer.  The callback runs
\* before readdir returns; the caller it throws to may be a callback of the queue.
CallNoPath(c) ==
  /\ ~ctx[c].made /\ ~stuck
  /\ ctx' = [ctx EXCEPT ![c].made = TRUE]
  /\ ReturnError(c)
  /\ UNCHANGED <<dir, fds, q, left>>

\* The application calls readdir.
Call(c) ==
  /\ ~ctx[c].made /\ ~stuck
  /\ ctx' = [ctx EXCEPT ![c] = [NoCall EXCEPT !.made = TRUE,
                                              !.kept = DOMAIN dir, !.seen = DOMAIN dir]]
  /\ q' = Append(q, Request(c, "open"))
  /\ UNCHANGED <<dir, fds, rets, stuck, left>>

UnderWay(c) == ctx[c].made /\ rets[c] = <<>>

\* Another operation creates the name n, at the place p.
Create(n, p) ==
  /\ n \notin DOMAIN dir /\ p \notin Range(dir) /\ ~stuck /\ left > 0
  /\ left' = left - 1
  /\ dir' = [m \in DOMAIN dir \cup {n} |-> IF m = n THEN p ELSE dir[m]]
  /\ ctx' = [c \in Calls |->
               IF UnderWay(c)
               THEN [ctx[c] EXCEPT !.seen = @ \cup {n},
                                   !.again = @ \cup ({n} \cap ctx[c].seen)]
               ELSE ctx[c]]
  /\ UNCHANGED <<fds, q, rets, stuck>>

\* Another operation removes the name n.  Replacing it by a rename is Remove
\* and then Create.
Remove(n) ==
  /\ n \in DOMAIN dir \ Dots /\ ~stuck /\ left > 0
  /\ left' = left - 1
  /\ dir' = [m \in DOMAIN dir \ {n} |-> dir[m]]
  /\ ctx' = [c \in Calls |->
               IF UnderWay(c) THEN [ctx[c] EXCEPT !.kept = @ \ {n}] ELSE ctx[c]]
  /\ UNCHANGED <<fds, q, rets, stuck>>

\* openat, and its callback.
ServeOpen ==
  /\ Pending("open")
  /\ LET c == Head(q).call
         free == Fds \ DOMAIN fds IN
     \/ Submit(<<>>) /\ ReturnError(c) /\ UNCHANGED <<fds, ctx>>
     \/ /\ free # {}
        /\ fds' = [f \in DOMAIN fds \cup {Min(free)} |->
                     IF f = Min(free) THEN [owner |-> c, last |-> 0] ELSE fds[f]]
        /\ ctx' = [ctx EXCEPT ![c].fd = Min(free)]
        /\ Submit(<<Request(c, "getdents64")>>)
        /\ UNCHANGED <<rets, stuck>>
  /\ UNCHANGED <<dir, left>>

\* What getdents64 may return from place last on when it goes on at place pos
\* the next time: the names in between, in their order, when they fit.
InOrder(s) == \A i, j \in DOMAIN s : i < j => dir[s[i]] < dir[s[j]]

Listings(last, pos) ==
  {s \in UNION {[1 .. k -> DOMAIN dir] : k \in 1 .. Room} :
     /\ InOrder(s)
     /\ Range(s) = {n \in DOMAIN dir : last < dir[n] /\ dir[n] <= pos}}

\* parseDirent64: the entries in turn, "." and ".." left out.
ParseDirent64(names) ==
  LET Parsed[i \in 0 .. Len(names)] ==
        IF i = 0 THEN <<>>
        ELSE IF names[i] \in Dots THEN Parsed[i - 1]
        ELSE Append(Parsed[i - 1], names[i])
  IN Parsed[Len(names)]

\* Mutant: the names of one buffer replace those of the one before.
ContinueFresh(c, names) ==
  /\ ctx' = [ctx EXCEPT ![c].result = ParseDirent64(names)]
  /\ Submit(<<Request(c, "getdents64")>>)

\* listdir after some bytes were read.
Continue(c, names) ==
  /\ ctx' = [ctx EXCEPT ![c].result = @ \o ParseDirent64(names)]
  /\ Submit(<<Request(c, "getdents64")>>)

\* Mutant: an error of getdents64 is returned without closing.
StopUnclosed(c, err) ==
  /\ ctx' = [ctx EXCEPT ![c].err = err]
  /\ Submit(IF err THEN <<>> ELSE <<Request(c, "close")>>)

\* listdir's callback: close, keeping the error.
Stop(c, err) ==
  /\ ctx' = [ctx EXCEPT ![c].err = err]
  /\ Submit(<<Request(c, "close")>>)

\* getdents64, and its callback in listdir; 0 is the end of the directory.
ServeGetdents ==
  /\ Pending("getdents64")
  /\ LET c == Head(q).call
         f == ctx[c].fd
         rest == {n \in DOMAIN dir : dir[n] > fds[f].last} IN
     \/ Stop(c, TRUE) /\ UNCHANGED fds
     \/ rest = {} /\ Stop(c, FALSE) /\ UNCHANGED fds
     \/ \E pos \in Places : \E names \in Listings(fds[f].last, pos) :
          /\ fds' = [fds EXCEPT ![f].last = pos]
          /\ Continue(c, names)
  /\ UNCHANGED <<dir, rets, stuck, left>>

\* Mutant: after an error the names are returned as well.
AfterCloseNoReturn(c, err) ==
  \/ err /\ stuck' = FALSE
     /\ rets' = [rets EXCEPT ![c] = @ \o <<[err |-> TRUE, names |-> <<>>],
                              [err |-> FALSE, names |-> ctx[c].result]>>]
  \/ ~err /\ ReturnNames(c, ctx[c].result)

\* Mutant: a failing close is taken for the end of readdir.
AfterCloseSilent(c, err) ==
  \/ err /\ UNCHANGED <<rets, stuck>>
  \/ ~err /\ ReturnNames(c, ctx[c].result)

\* The callback of close, with decodeArray: only here it matters whether the
\* call asked for Buffers or for strings in some encoding.
AfterClose(c, err) ==
  LET bad == Range(ctx[c].result) \cap Undecodable # {} IN
  \/ (err \/ bad) /\ ReturnError(c)
  \/ ~err /\ ReturnNames(c, ctx[c].result)

ServeClose ==
  /\ Pending("close")
  /\ LET c == Head(q).call IN
     /\ fds' = [f \in DOMAIN fds \ {ctx[c].fd} |-> fds[f]]
     /\ Submit(<<>>)
     /\ \E closeErr \in BOOLEAN : AfterClose(c, ctx[c].err \/ closeErr)
  /\ UNCHANGED <<dir, ctx, left>>

Quiet == (q = <<>> \/ stuck) /\ UNCHANGED vars

Serve == ServeOpen \/ ServeGetdents \/ ServeClose

Next ==
  \/ \E c \in Calls : Call(c) \/ CallNoPath(c)
  \/ \E n \in Names, p \in Places : Create(n, p)
  \/ \E n \in Names : Remove(n)
  \/ ServeOpen \/ ServeGetdents \/ ServeClose
  \/ Quiet

Spec == Init /\ [][Next]_vars

\* The operation queue serves what was submitted (Bridge, EveryOpServed).
FairSpec == Spec /\ WF_vars(Serve)

(***************************************************************************)
(* Properties.                                                             *)
(***************************************************************************)
\* Every variable has its type.
TypeOK ==
  /\ Dots \subseteq DOMAIN dir /\ DOMAIN dir \subseteq Names
  /\ Range(dir) \subseteq Places /\ IsInjective(dir) /\ left \in 0 .. MaxChanges
  /\ \A f \in DOMAIN fds : f \in Fds /\ fds[f].owner \in Calls
  /\ \A i \in DOMAIN q :
       q[i].call \in Calls /\ q[i].op \in {"open", "getdents64", "close"}
  /\ \A c \in Calls : ctx[c].result \in Seq(Names \ Dots)
  /\ stuck \in BOOLEAN

\* readdir calls back at most once, after its last system call.
CallbackOnce ==
  \A c \in Calls :
    /\ Len(rets[c]) <= 1
    /\ rets[c] # <<>> => \A i \in DOMAIN q : q[i].call # c

\* The descriptor readdir opens is open for as long as its system calls are
\* under way, whatever they return, and no longer.
DescriptorForTheCall ==
  /\ TypeOK
  /\ \A i \in DOMAIN q :
       LET f == ctx[q[i].call].fd IN
       q[i].op # "open" => f \in DOMAIN fds /\ fds[f].owner = q[i].call
  /\ \A f \in DOMAIN fds :
       \E i \in DOMAIN q : q[i].call = fds[f].owner /\ q[i].op # "open"

\* Although the directory changes between the system calls, the names returned
\* have every name that was there all the time, none that never was there, and
\* none twice unless it was removed and created again: then the filesystem may
\* have given it a place that readdir had yet to come to, as btrfs does.
ListsStableNames ==
  \A c \in Calls :
    rets[c] # <<>> /\ ~rets[c][1].err =>
      LET names == rets[c][1].names IN
      /\ \A i, j \in DOMAIN names :
           names[i] = names[j] => i = j \/ names[i] \in ctx[c].again
      /\ ctx[c].kept \ Dots \subseteq Range(names)
      /\ Range(names) \subseteq ctx[c].seen \ Dots

\* Every readdir calls back in the end, unless an exception stopped the queue:
\* each getdents64 gets further in the directory, and finds its end because
\* there are finitely many places and only so many names are created meanwhile
\* (Places, MaxChanges).  Without these bounds, new names after all others would
\* keep a readdir of btrfs going.
EveryCallReturns ==
  \A c \in Calls : ctx[c].made ~> (rets[c] # <<>> \/ stuck)
============================================================================
