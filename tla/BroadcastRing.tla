--------------------------- MODULE BroadcastRing ---------------------------
(***************************************************************************)
(* BroadcastRing of libs/vr/libbroadcastring: a ring of records in shared  *)
(* memory with one writer and any number of readers, without locks.  The   *)
(* writer advances head past the records it is going to overwrite, writes  *)
(* them and advances tail; a reader loads tail, copies a record, and loads *)
(* head again to learn whether what it copied may have been overwritten.   *)
(*                                                                         *)
(* The code relies on the C++ memory model, so the model has one: a        *)
(* location is the history of the stores to it, a thread has a view of     *)
(* how much of each history it must have seen, and a load returns any      *)
(* store from there on.  A store carries a view which an acquire load, or  *)
(* a relaxed load followed by an acquire fence, adds to the reader's: all  *)
(* that the writer had done, if it is a release store, and all it had done *)
(* at its last release fence if it is relaxed.  The readers store nothing, *)
(* so no load can depend on a later store, and a location has one writer,  *)
(* so the stores to it are in one order: this covers all executions.       *)
(***************************************************************************)
EXTENDS Integers, Sequences, FiniteSets

CONSTANTS
  Readers,          \* threads that have imported the ring
  RecordCount,      \* record_count, a power of two
  Words,            \* words of StorageType in a record
  SeqMod,           \* 2^32, the sequence numbers wrap at
  InitialSequence,  \* kInitialSequence
  MaxPuts           \* bound on the number of records put

ASSUME GeometryAssumption == /\ RecordCount \in Nat \ {0, 1} /\ Words \in Nat \ {0}
                             /\ SeqMod \in Nat /\ SeqMod > RecordCount
                             /\ SeqMod % RecordCount = 0
                             /\ InitialSequence \in 0..(SeqMod - 1)
                             /\ MaxPuts \in Nat

VARIABLES
  mem,      \* the history of each location: a value and a view per store
  fence,    \* what the writer had done at its last release fence
  wpc,      \* where the writer is: 0 idle, the next word, Words + 1 to publish
  puts,     \* the number of records put so far, with the one being put
  rd,       \* each reader's local variables
  view,     \* each reader's view
  acq,      \* ... and what an acquire fence would add to it
  got       \* history: what each reader's last successful Get returned

vars == <<mem, fence, wpc, puts, rd, view, acq, got>>
memoryVars == <<mem, fence>>

-----------------------------------------------------------------------------
(* Memory. *)

HeadLoc == <<"head", 0, 0>>
TailLoc == <<"tail", 0, 0>>
Data(index, word) == <<"data", index, word>>
Locations == {HeadLoc, TailLoc} \cup {Data(i, k) : i \in 0..(RecordCount - 1), k \in 1..Words}

Later(a, b) == IF a >= b THEN a ELSE b
Join(v, w) == [l \in Locations |-> Later(v[l], w[l])]

\* What the only writer has done, with one more store to location l.
WriterView(l) == [k \in Locations |-> IF k = l THEN Len(mem[k]) + 1 ELSE Len(mem[k])]

\* The last value stored, which is what the writer itself reads.
Last(l) == mem[l][Len(mem[l])].val

StoreRelaxed(l, v) ==
  mem' = [mem EXCEPT ![l] = Append(@, [val |-> v, view |-> [fence EXCEPT ![l] = Len(mem[l]) + 1]])]

StoreRelease(l, v) ==
  mem' = [mem EXCEPT ![l] = Append(@, [val |-> v, view |-> WriterView(l)])]

\* The stores to l that reader r may still read.
Visible(r, l) == view[r][l]..Len(mem[l])

LoadRelaxed(r, l, ts) ==
  /\ view' = [view EXCEPT ![r][l] = ts]
  /\ acq' = [acq EXCEPT ![r] = Join(@, mem[l][ts].view)]

LoadAcquire(r, l, ts) ==
  /\ view' = [view EXCEPT ![r] = Join(@, mem[l][ts].view)]
  /\ acq' = [acq EXCEPT ![r] = Join(@, mem[l][ts].view)]

-----------------------------------------------------------------------------
(* Sequence numbers. *)

\* Mutant: the subtraction does not wrap.
SubNoWrap(a, b) == a - b

\* Unsigned subtraction.
Sub(a, b) == (a - b) % SeqMod

SequenceToIndex(sequence) == sequence % RecordCount

\* The sequence number of the n-th record put.
SequenceOf(n) == (InitialSequence + n - 1) % SeqMod

\* The record the n-th Put writes: every word tells which Put it is from.
Record(n) == [k \in 1..Words |-> n]

-----------------------------------------------------------------------------
\* InitializeHeader, in zeroed memory that every reader sees.
Init ==
  /\ mem = [l \in Locations |->
              <<[val |-> IF l \in {HeadLoc, TailLoc} THEN InitialSequence ELSE 0,
                 view |-> [k \in Locations |-> 1]]>>]
  /\ fence = [l \in Locations |-> 1]
  /\ wpc = 0 /\ puts = 0
  /\ rd = [r \in Readers |-> [pc |-> "start", sequence |-> 0, tail |-> 0, head |-> 0,
                              seen |-> 0, record |-> <<>>]]
  /\ view = [r \in Readers |-> [l \in Locations |-> 1]]
  /\ acq = [r \in Readers |-> [l \in Locations |-> 1]]
  /\ got = [r \in Readers |-> [sequence |-> 0, record |-> <<>>, missed |-> 0]]

-----------------------------------------------------------------------------
(* Put. *)

\* Mutant: head is not advanced.
NeededNone(space, reserve) == 0

\* By how much head has to advance.
Needed(space, reserve) == IF space >= reserve THEN 0 ELSE reserve - space

\* Mutant: no fence after the store to head.
ReserveNoFence ==
  LET space == RecordCount - Sub(Last(TailLoc), Last(HeadLoc)) IN
  /\ wpc = 0 /\ puts < MaxPuts
  /\ StoreRelaxed(HeadLoc, (Last(HeadLoc) + Needed(space, 1)) % SeqMod)
  /\ puts' = puts + 1
  /\ wpc' = 1
  /\ UNCHANGED <<fence, rd, view, acq, got>>

\* Makes space for a record: head first, then a release fence.
Reserve ==
  LET space == RecordCount - Sub(Last(TailLoc), Last(HeadLoc)) IN
  /\ wpc = 0 /\ puts < MaxPuts
  /\ StoreRelaxed(HeadLoc, (Last(HeadLoc) + Needed(space, 1)) % SeqMod)
  /\ fence' = WriterView(HeadLoc)
  /\ puts' = puts + 1
  /\ wpc' = 1
  /\ UNCHANGED <<rd, view, acq, got>>

PutRecordInternal ==
  /\ wpc \in 1..Words
  /\ StoreRelaxed(Data(SequenceToIndex(Last(TailLoc)), wpc), Record(puts)[wpc])
  /\ wpc' = wpc + 1
  /\ UNCHANGED <<fence, puts, rd, view, acq, got>>

Publish ==
  /\ wpc = Words + 1
  /\ StoreRelease(TailLoc, (Last(TailLoc) + 1) % SeqMod)
  /\ wpc' = 0
  /\ UNCHANGED <<fence, puts, rd, view, acq, got>>

-----------------------------------------------------------------------------
(* Reading. *)

\* A reader chooses where to start: GetOldestSequence, GetNextSequence or
\* GetNewestSequence.
ChooseSequence(r, l, back, ts) ==
  /\ rd[r].pc = "start" /\ ts \in Visible(r, l)
  /\ LoadRelaxed(r, l, ts)
  /\ rd' = [rd EXCEPT ![r].pc = "idle", ![r].sequence = Sub(mem[l][ts].val, back)]
  /\ UNCHANGED <<memoryVars, wpc, puts, got>>

\* GetNewest: false if there is nothing after *sequence, else on to Get.
GetNewest(r, ts) ==
  LET newest == Sub(mem[TailLoc][ts].val, 1) IN
  /\ rd[r].pc = "idle" /\ ts \in Visible(r, TailLoc)
  /\ LoadRelaxed(r, TailLoc, ts)
  /\ rd' = IF rd[r].sequence = (newest + 1) % SeqMod THEN rd
           ELSE [rd EXCEPT ![r].pc = "tail", ![r].sequence = newest]
  /\ UNCHANGED <<memoryVars, wpc, puts, got>>

\* Get, the loop: tail is loaded first.
GetTail(r, ts) ==
  /\ rd[r].pc \in {"idle", "tail"} /\ ts \in Visible(r, TailLoc)
  /\ LoadAcquire(r, TailLoc, ts)
  /\ rd' = [rd EXCEPT ![r].pc = "head", ![r].tail = mem[TailLoc][ts].val, ![r].seen = ts]
  /\ UNCHANGED <<memoryVars, wpc, puts, got>>

\* Mutant: the end of the window is taken for out of it.
ClampAlways(sequence, head, tail) == head

\* Out of the window, *sequence skips to the first record available.
Clamp(sequence, head, tail) == IF Sub(sequence, head) > Sub(tail, head) THEN head ELSE sequence

\* Then head: what may be read is between the two.
GetHead(r, ts) ==
  LET head     == mem[HeadLoc][ts].val
      tail     == rd[r].tail
      sequence == Clamp(rd[r].sequence, head, tail)
  IN
  /\ rd[r].pc = "head" /\ ts \in Visible(r, HeadLoc)
  /\ LoadRelaxed(r, HeadLoc, ts)
  /\ rd' = [rd EXCEPT ![r] =
       IF Sub(tail, head) > RecordCount THEN [@ EXCEPT !.pc = "tail"]
       ELSE [@ EXCEPT !.pc = IF sequence = tail THEN "idle" ELSE "copy",
                      !.sequence = sequence, !.head = head, !.record = <<>>]]
  /\ UNCHANGED <<memoryVars, wpc, puts, got>>

\* GetRecordInternal, word by word.
GetRecordInternal(r, ts) ==
  LET word == Len(rd[r].record) + 1
      l    == Data(SequenceToIndex(rd[r].sequence), word)
  IN
  /\ rd[r].pc = "copy" /\ ts \in Visible(r, l)
  /\ LoadRelaxed(r, l, ts)
  /\ rd' = [rd EXCEPT ![r].record = Append(@, mem[l][ts].val),
                      ![r].pc = IF word = Words THEN "fence" ELSE "copy"]
  /\ UNCHANGED <<memoryVars, wpc, puts, got>>

\* atomic_thread_fence(memory_order_acquire)
GetFence(r) == [view EXCEPT ![r] = Join(@, acq[r])]

GetFences(r) ==
  /\ rd[r].pc = "fence"
  /\ view' = GetFence(r)
  /\ rd' = [rd EXCEPT ![r].pc = "final"]
  /\ UNCHANGED <<memoryVars, wpc, puts, acq, got>>

\* Has head passed the record meanwhile?  If not it is returned, and the caller
\* goes on with the next sequence number.
GetFinal(r, ts) ==
  LET final == mem[HeadLoc][ts].val IN
  /\ rd[r].pc = "final" /\ ts \in Visible(r, HeadLoc)
  /\ LoadRelaxed(r, HeadLoc, ts)
  /\ IF Sub(final, rd[r].head) > Sub(rd[r].sequence, rd[r].head)
     THEN /\ rd' = [rd EXCEPT ![r].pc = "tail"]
          /\ UNCHANGED got
     ELSE /\ rd' = [rd EXCEPT ![r].pc = "idle", ![r].sequence = (@ + 1) % SeqMod,
                              ![r].record = <<>>]
          /\ got' = [got EXCEPT ![r] = [sequence |-> rd[r].sequence, record |-> rd[r].record,
                                        missed |-> ts - rd[r].seen]]
  /\ UNCHANGED <<memoryVars, wpc, puts>>

-----------------------------------------------------------------------------
WriterStep == Reserve \/ PutRecordInternal \/ Publish

Times == 1..(MaxPuts + 1)

ReaderStep(r) ==
  \/ \E ts \in Times :
       \/ ChooseSequence(r, HeadLoc, 0, ts) \/ ChooseSequence(r, TailLoc, 0, ts)
       \/ ChooseSequence(r, TailLoc, 1, ts)
       \/ GetNewest(r, ts) \/ GetTail(r, ts) \/ GetHead(r, ts) \/ GetRecordInternal(r, ts)
       \/ GetFinal(r, ts)
  \/ GetFences(r)

Next == WriterStep \/ \E r \in Readers : ReaderStep(r)

Spec == Init /\ [][Next]_vars

-----------------------------------------------------------------------------
(* Properties. *)

View == [Locations -> 1..(MaxPuts + 1)]
Sequence == 0..(SeqMod - 1)

\* The type invariant.
TypeOK ==
  /\ \A l \in Locations : \A i \in 1..Len(mem[l]) :
       mem[l][i].val \in Nat /\ mem[l][i].view \in View
  /\ fence \in View /\ wpc \in 0..(Words + 1) /\ puts \in 0..MaxPuts
  /\ \A r \in Readers :
       /\ rd[r].pc \in {"start", "idle", "tail", "head", "copy", "fence", "final"}
       /\ rd[r].sequence \in Sequence /\ rd[r].tail \in Sequence /\ rd[r].head \in Sequence
       /\ view[r] \in View /\ acq[r] \in View

\* "Inconsistent data can only be returned if at least 2^32 records are written
\* during the read-side critical section": what Get returns is one record as a
\* Put wrote it, all its words, and the one that the sequence number names,
\* unless SeqMod records were put between its first load and its last.
GetConsistent ==
  \A r \in Readers :
    (got[r].record # <<>> /\ got[r].missed < SeqMod) =>
      \E n \in 1..puts : got[r].record = Record(n) /\ got[r].sequence = SequenceOf(n)

\* A Get during which the sequence numbers did not almost come round.
Timely(g) == g.missed < SeqMod - RecordCount

\* A reader that goes on from the sequence number after the last one is given
\* newer and newer records, none twice and none out of order, however far it
\* falls behind between two Gets.
RecordsInOrder ==
  [][\A r \in Readers :
       (got'[r] # got[r] /\ got[r].record # <<>> /\ Timely(got[r]) /\ Timely(got'[r])) =>
         got'[r].record[1] > got[r].record[1]]_vars

-----------------------------------------------------------------------------
(* Fairness: a Put that has begun goes on, and so does a Get; a thread that  *)
(* loads tail again and again sees the last store to it in the end, since    *)
(* stores become visible in finite time.                                     *)

Fairness ==
  /\ WF_vars(wpc # 0 /\ WriterStep)
  /\ \A r \in Readers : /\ WF_vars(rd[r].pc \notin {"start", "idle"} /\ ReaderStep(r))
                        /\ SF_vars(rd[r].pc = "tail" /\ GetTail(r, Len(mem[TailLoc])))

FairSpec == Spec /\ Fairness

\* A Get returns in the end, when no more records are put.
GetsEnd == \A r \in Readers : rd[r].pc \notin {"start", "idle"} ~> rd[r].pc = "idle"
=============================================================================
