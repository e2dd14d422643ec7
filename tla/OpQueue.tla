------------------------------- MODULE OpQueue -------------------------------
(***************************************************************************)
(* What the operation queue promises the application, whatever the threads *)
(* below it do: operations complete one at a time, in the order in which   *)
(* they were submitted, each exactly once.  The one way out is an          *)
(* exception inside the queue's worker function: nothing completes after   *)
(* it.  Bridge implements this specification.                              *)
(***************************************************************************)
EXTENDS Naturals, Sequences

CONSTANT Kinds

VARIABLES
  subs,     \* kinds of the operations submitted, in order
  served,   \* numbers of the operations called back, in order
  stuck     \* an exception went through the queue's worker function

opVars == <<subs, served, stuck>>

Init ==
  /\ subs = <<"syscall">>
  /\ served = <<>>
  /\ stuck = FALSE

Push(kind) ==
  /\ subs' = Append(subs, kind)
  /\ UNCHANGED <<served, stuck>>

\* The oldest operation completes; its callback, or the method of the next
\* operation, may throw.
Serve ==
  /\ ~stuck
  /\ Len(served) < Len(subs)
  /\ subs[Len(served) + 1] # "throws"
  /\ served' = Append(served, Len(served) + 1)
  /\ stuck' \in BOOLEAN
  /\ UNCHANGED subs

\* The method of the oldest operation throws.
Wedge ==
  /\ ~stuck
  /\ Len(served) < Len(subs)
  /\ subs[Len(served) + 1] = "throws"
  /\ stuck' = TRUE
  /\ UNCHANGED <<subs, served>>

Next == (\E kind \in Kinds : Push(kind)) \/ Serve \/ Wedge

SafetySpec == Init /\ [][Next]_opVars

Spec == SafetySpec /\ WF_opVars(Serve \/ Wedge)
=============================================================================
