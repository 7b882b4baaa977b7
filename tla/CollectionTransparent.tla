------------------------ MODULE CollectionTransparent ------------------------
(***************************************************************************)
(* Two virtual machines run the same instructions of the same program. The *)
(* first is Interpreter, which collects garbage whenever it likes; the     *)
(* second never does, and so never hands out an address twice. What the    *)
(* collector promises is that nobody can tell them apart.                  *)
(***************************************************************************)
EXTENDS Interpreter

VARIABLES
  kept_heap,                 \* the variables of the second machine
  kept_stack_frames,
  kept_current_function,
  kept_instruction_pointer,
  kept_callers,
  kept_status,
  kept_output

kept == <<kept_heap, kept_stack_frames, kept_current_function,
          kept_instruction_pointer, kept_callers, kept_status, kept_output>>

Kept == INSTANCE Interpreter WITH
  heap <- kept_heap,
  stack_frames_ <- kept_stack_frames,
  current_function_ <- kept_current_function,
  instruction_pointer_ <- kept_instruction_pointer,
  callers <- kept_callers,
  status <- kept_status,
  output <- kept_output

-----------------------------------------------------------------------------
TwinInit == Init /\ Kept!Init

(* Both take the same instruction, with the same word typed if it asks for *)
(* one, or both leave the same function.                                   *)
Together ==
  \/ /\ Running /\ More /\ instruction_pointer_ >= 0
     /\ \E i \in This.instructions[instruction_pointer_ + 1], word \in Inputs :
          Perform(i, {word}) /\ Kept!Perform(i, {word})
  \/ /\ instruction_pointer_ < 0
     /\ executeInstruction /\ Kept!executeInstruction
  \/ LeaveFunction /\ Kept!LeaveFunction
  \/ LeaveMain /\ Kept!LeaveMain

TwinNext ==
  \/ Together
  \/ GarbageCollect /\ UNCHANGED kept
  \/ Ended /\ UNCHANGED kept

TwinSpec == TwinInit /\ [][TwinNext]_<<vars, kept>>

-----------------------------------------------------------------------------
(* Properties.                                                             *)

(* The same value, seen from the two heaps: the same constant, a record or *)
(* a closure in both, records with the same fields.                        *)
Alike(p, q) ==
  LET x == Deref(p)
      y == Kept!Deref(q)
  IN  CASE x.kind = "Record" ->
             y.kind = "Record" /\ DOMAIN x.map = DOMAIN y.map
        [] x.kind = "Closure" -> y.kind = "Closure" /\ x.function = y.function
        [] x.kind = "Reference" -> y.kind = "Reference" /\ x.index = y.index
        [] OTHER -> x = y

(* Collecting garbage, before any instruction and however often, cannot be *)
(* observed: the two machines are at the same instruction with the same    *)
(* calls in progress, the operands and the variables of every call are     *)
(* alike, they have printed the same and end the same way. A live object   *)
(* freed and its address reused is exactly what would tell them apart      *)
(* (interpreter.cpp:460-472, 520; gc.h:355-393). After undefined behaviour *)
(* nothing is promised: the collector follows every pointer of a frame, so *)
(* it alone may meet one that was never initialised (frame.cpp:42-56). No  *)
(* compiled program has one (DefinedBehaviour).                            *)
Indistinguishable ==
  status # "undefined" =>
    /\ current_function_ = kept_current_function
    /\ instruction_pointer_ = kept_instruction_pointer
    /\ callers = kept_callers
    /\ status = kept_status
    /\ output = kept_output
    /\ Len(stack_frames_) = Len(kept_stack_frames)
    /\ \A d \in DOMAIN stack_frames_ :
         LET f == heap[stack_frames_[d]]
             g == kept_heap[kept_stack_frames[d]]
         IN  /\ f.kind = "Frame" /\ g.kind = "Frame"
             /\ Len(f.stack) = Len(g.stack) /\ Len(f.locals) = Len(g.locals)
             /\ \A i \in DOMAIN f.stack : Alike(f.stack[i], g.stack[i])
             /\ \A i \in DOMAIN f.locals : Alike(f.locals[i], g.locals[i])
=============================================================================
