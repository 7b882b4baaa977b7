----------------------------- MODULE AbstractHeap -----------------------------
(***************************************************************************)
(* What the garbage collector promises the virtual machine, with no marks, *)
(* no list and no intermediate states: the machine builds and cuts a graph *)
(* of collectables, and a collection removes, in one step, exactly the     *)
(* registered objects that no stack frame leads to.                        *)
(* CollectedHeap implements this specification (its property Collector).   *)
(***************************************************************************)
EXTENDS FiniteSets

CONSTANTS
  Object,      \* the addresses `new T` hands out; reused after a delete
  Static,      \* collectables that are never registered (see CollectedHeap)
  StaticSucc   \* the pointers inside them

VARIABLES
  live,        \* the objects that exist
  points,      \* points[n]: what the pointers stored in n designate
  roots,       \* the frames on stack_frames_
  locals       \* the heap objects the running instruction holds in C++ locals

vars == <<live, points, roots, locals>>

Node == Object \cup Static

(* A set that no stored pointer leaves. *)
Closed(S) == \A n \in S : points[n] \subseteq S

(* What can be reached from R: the least closed set that contains it.      *)
Reach(R) ==
  LET closed == {S \in SUBSET Node : R \subseteq S /\ Closed(S)}
  IN  {n \in Node : \A S \in closed : n \in S}

(* Everything an instruction can name without reading a pointer.           *)
Held == locals \cup roots \cup Static

-----------------------------------------------------------------------------
Init ==
  /\ live = {}
  /\ points = [n \in Node |-> IF n \in Static THEN StaticSucc[n] ELSE {}]
  /\ roots = {}
  /\ locals = {}

New(o) ==
  /\ o \notin live
  /\ live' = live \cup {o}
  /\ locals' = locals \cup {o}
  /\ UNCHANGED <<points, roots>>

Read(n, m) ==
  /\ m \in points[n]
  /\ locals' = locals \cup {m}
  /\ UNCHANGED <<live, points, roots>>

Link(n, m) ==
  /\ points' = [points EXCEPT ![n] = @ \cup {m}]
  /\ UNCHANGED <<live, roots, locals>>

Unlink(n, m) ==
  /\ m \in points[n]
  /\ points' = [points EXCEPT ![n] = @ \ {m}]
  /\ UNCHANGED <<live, roots, locals>>

Push(f) ==
  /\ roots' = roots \cup {f}
  /\ UNCHANGED <<live, points, locals>>

Pop(f) ==
  /\ roots' = roots \ {f}
  /\ UNCHANGED <<live, points, locals>>

Finish ==
  /\ locals' = {}
  /\ UNCHANGED <<live, points, roots>>

(* A whole collection. It happens between two instructions, when only the  *)
(* frames lead to objects, and takes away every object they do not reach.  *)
Collect ==
  /\ locals = {}
  /\ live' = live \cap Reach(roots)
  /\ points' = [n \in Node |-> IF n \in live \ Reach(roots) THEN {}
                                                           ELSE points[n]]
  /\ UNCHANGED <<roots, locals>>

Next ==
  \/ \E o \in Object : New(o)
  \/ \E n \in Held, m \in Object : Read(n, m)
  \/ \E n \in (locals \cup roots), m \in Held : Link(n, m)
  \/ \E n \in (locals \cup roots), m \in Node : Unlink(n, m)
  \/ \E f \in locals : Push(f)
  \/ \E f \in roots : Pop(f)
  \/ Finish
  \/ Collect

Spec == Init /\ [][Next]_vars
=============================================================================
