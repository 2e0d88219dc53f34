---------------------------- MODULE FrameStream ----------------------------
(***************************************************************************)
(* What a BufferQueue promises about frames, whatever happens to slots,    *)
(* buffers, allocations and connections: a producer posts frames, the      *)
(* consumer is shown them in the order they were posted, each at most      *)
(* once, and a frame that is never shown was replaced by the next one      *)
(* posted (it was droppable), skipped because a newer one was waiting, or  *)
(* given up with the queue.                                                *)
(***************************************************************************)
EXTENDS Naturals, Sequences, TLAPS

VARIABLES
  alive,     \* the consumer has not given the stream up
  posted,    \* the number of frames posted so far, and the last one's number
  pending,   \* the frames posted and not yet shown, oldest first
  shown      \* the number of the frame last shown

Frame == [frame : Nat, droppable : BOOLEAN]

vars == <<alive, posted, pending, shown>>

Init == alive = TRUE /\ posted = 0 /\ pending = <<>> /\ shown = 0

Post(droppable) ==
  LET frame == [frame |-> posted + 1, droppable |-> droppable] IN
  /\ alive
  /\ posted' = posted + 1
  /\ pending' = IF pending # <<>> /\ pending[Len(pending)].droppable
                THEN [pending EXCEPT ![Len(pending)] = frame]
                ELSE Append(pending, frame)
  /\ UNCHANGED <<alive, shown>>

Show ==
  /\ pending # <<>>
  /\ shown' = Head(pending).frame
  /\ pending' = Tail(pending)
  /\ UNCHANGED <<alive, posted>>

Skip ==
  /\ Len(pending) > 1
  /\ pending' = Tail(pending)
  /\ UNCHANGED <<alive, posted, shown>>

Abandon ==
  /\ alive' = FALSE
  /\ pending' = <<>>
  /\ UNCHANGED <<posted, shown>>

Next == (\E droppable \in BOOLEAN : Post(droppable)) \/ Show \/ Skip \/ Abandon

Spec == Init /\ [][Next]_vars

\* The types.
TypeOK == /\ alive \in BOOLEAN /\ posted \in Nat /\ shown \in Nat
          /\ pending \in Seq(Frame)

\* The frames that wait are in the order they were posted, and newer than any
\* frame shown: no frame is shown twice or after a newer one.
InOrder ==
  /\ \A i, j \in 1..Len(pending) : i < j => pending[i].frame < pending[j].frame
  /\ \A i \in 1..Len(pending) : shown < pending[i].frame /\ pending[i].frame <= posted
  /\ shown <= posted

-----------------------------------------------------------------------------
(* Proofs. *)

\* The inductive invariant.
Inv == TypeOK /\ InOrder

\* Frames are numbered.
LEMMA FrameNumber == \A f \in Frame : f.frame \in Nat
  BY DEF Frame

\* A frame posted is newer than all that wait.
LEMMA PostKeeps ==
  ASSUME Inv, NEW droppable \in BOOLEAN, Post(droppable)
  PROVE  Inv'
<1> DEFINE new == [frame |-> posted + 1, droppable |-> droppable]
<1> USE DEF Inv, TypeOK
<1>1. /\ posted' = posted + 1 /\ UNCHANGED <<alive, shown>>
      /\ \/ pending' = Append(pending, new)
         \/ pending # <<>> /\ pending' = [pending EXCEPT ![Len(pending)] = new]
  BY Zenon DEF Post
<1>2. new \in Frame /\ new.frame = posted + 1
  BY DEF Frame
<1> HIDE DEF new
<1>3. \A i \in 1..Len(pending) : pending[i].frame \in Nat
  BY FrameNumber
<1>4. CASE pending' = Append(pending, new)
  <2>1. /\ Len(pending') = Len(pending) + 1
        /\ \A i \in 1..Len(pending') :
             pending'[i] = IF i = Len(pending) + 1 THEN new ELSE pending[i]
    BY <1>2, <1>4
  <2>2. TypeOK'
    BY <1>1, <1>2, <1>4
  <2>4. Len(pending) \in Nat /\ new.frame \in Nat
    BY <1>2
  <2> HIDE DEF TypeOK
  <2>5. \A i, j \in 1..Len(pending') : i < j => pending'[i].frame < pending'[j].frame
    <3> SUFFICES ASSUME NEW i \in 1..Len(pending'), NEW j \in 1..Len(pending'), i < j
                 PROVE  pending'[i].frame < pending'[j].frame
      OBVIOUS
    <3>1. i \in 1..Len(pending) /\ pending'[i] = pending[i]
      BY <2>1, <2>4
    <3>2. CASE j \in 1..Len(pending)
      <4>1. pending'[j] = pending[j]
        BY <2>1, <2>4, <3>2
      <4> QED
        BY <3>1, <3>2, <4>1 DEF InOrder
    <3>3. CASE j = Len(pending) + 1
      <4>1. pending'[j] = new
        BY <2>1, <2>4, <3>3
      <4>2. pending[i].frame <= posted /\ pending[i].frame \in Nat /\ posted \in Nat
        BY <1>3, <3>1 DEF InOrder, TypeOK
      <4> QED
        BY <1>2, <3>1, <4>1, <4>2
    <3> QED
      BY <2>1, <2>4, <3>2, <3>3
  <2>6. \A i \in 1..Len(pending') : shown < pending'[i].frame /\ pending'[i].frame <= posted + 1
    BY <1>1, <1>2, <1>3, <2>1, <2>4 DEF InOrder, TypeOK
  <2>3. InOrder'
    BY <1>1, <2>5, <2>6 DEF InOrder, TypeOK
  <2> QED
    BY <2>2, <2>3
<1>5. CASE pending # <<>> /\ pending' = [pending EXCEPT ![Len(pending)] = new]
  <2>1. /\ Len(pending') = Len(pending)
        /\ \A i \in 1..Len(pending') :
             pending'[i] = IF i = Len(pending) THEN new ELSE pending[i]
    BY <1>2, <1>5
  <2>2. TypeOK'
    BY <1>1, <1>2, <1>5
  <2>3. \A i \in 1..Len(pending) :
          pending'[i].frame = IF i = Len(pending) THEN posted + 1 ELSE pending[i].frame
    BY <1>2, <2>1
  <2>4. /\ posted \in Nat /\ Len(pending) \in Nat
        /\ \A i \in 1..Len(pending) : pending[i].frame \in Nat /\ pending[i].frame <= posted
    BY <1>3 DEF InOrder
  <2>5. \A i, j \in 1..Len(pending') : i < j => pending'[i].frame < pending'[j].frame
    BY <2>1, <2>3, <2>4 DEF InOrder
  <2>6. \A i \in 1..Len(pending') : shown < pending'[i].frame /\ pending'[i].frame <= posted + 1
    BY <2>1, <2>3, <2>4 DEF InOrder
  <2>7. InOrder'
    BY <1>1, <2>5, <2>6 DEF InOrder
  <2> QED
    BY <2>2, <2>7
<1> QED
  BY <1>1, <1>4, <1>5

\* What is left of the frames that wait stays in order when the first goes.
LEMMA TailKeeps ==
  ASSUME Inv, pending # <<>>, pending' = Tail(pending), UNCHANGED <<alive, posted>>,
         shown' \in {shown, Head(pending).frame}
  PROVE  Inv'
<1> USE DEF Inv, TypeOK
<1>1. /\ Len(pending) \in Nat \ {0} /\ Len(pending') = Len(pending) - 1
      /\ \A i \in 1..Len(pending') : pending'[i] = pending[i + 1]
  OBVIOUS
<1>4. Head(pending) = pending[1] /\ \A i \in 1..Len(pending) : pending[i].frame \in Nat
  BY FrameNumber
<1>2. TypeOK'
  BY <1>1, <1>4
<1>3. InOrder'
  BY <1>1, <1>4 DEF InOrder
<1> QED
  BY <1>2, <1>3

\* The invariant holds initially and is kept by every step.
LEMMA InvStep == Inv /\ [Next]_vars => Inv'
<1> SUFFICES ASSUME Inv, [Next]_vars PROVE Inv'
  OBVIOUS
<1>1. ASSUME NEW droppable \in BOOLEAN, Post(droppable) PROVE Inv'
  BY <1>1, PostKeeps
<1>2. CASE Show
  BY <1>2, TailKeeps DEF Show
<1>3. CASE Skip
  <2>1. pending # <<>>
    BY <1>3 DEF Skip, Inv, TypeOK
  <2> QED
    BY <1>3, <2>1, TailKeeps DEF Skip
<1>4. CASE Abandon
  <2>1. Len(pending') = 0 /\ pending' \in Seq(Frame)
    BY <1>4 DEF Abandon
  <2> QED
    <3>1. TypeOK'
      BY <1>4, <2>1, Zenon DEF Abandon, Inv, TypeOK
    <3>2. InOrder'
      BY <1>4, <2>1 DEF Abandon, Inv, InOrder
    <3> QED
      BY <3>1, <3>2 DEF Inv
<1>5. CASE UNCHANGED vars
  BY <1>5 DEF vars, Inv, TypeOK, InOrder
<1> QED
  BY <1>1, <1>2, <1>3, <1>4, <1>5 DEF Next

\* The frames that wait are in the order of posting and newer than any shown:
\* a stream never shows a frame twice or after a newer one.
THEOREM StreamInOrder == Spec => [](TypeOK /\ InOrder)
<1>1. Init => Inv
  BY DEF Init, Inv, TypeOK, InOrder
<1> QED
  BY <1>1, InvStep, PTL DEF Spec, Inv
=============================================================================
