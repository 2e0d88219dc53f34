--------------------------- MODULE RpcCountProofs ---------------------------
(***************************************************************************)
(* The invariant that relates the reference counts of the two ends of a     *)
(* session, that it holds initially, and what the parts of a step do to it. *)
(***************************************************************************)
EXTENDS RpcState, FiniteSetTheorems, TLAPS

Bit(b) == IF b THEN 1 ELSE 0

\* The references to a that p counts as sent and the other side does not count, and
\* those that p counts as received on behalf of a thread: it has to return the
\* reference, or could not.
Outstanding(p, a) == At(transaction, Other(p), a, {"leaving", "unsent", "wire"})

Unreturned(p, a) == At(transaction, p, a, {"entered", "kept"})

Transit(p, a) == Cardinality(Outstanding(p, a))

Owed(p, a) == Cardinality(Unreturned(p, a))

\* The reference of a transaction r counts for Transit(p, a), and for Owed(p, a).
Carries(r, p, a) ==
  r.address = a /\ r.from = p /\ r.at \in {"leaving", "unsent", "wire"}

Owes(r, p, a) ==
  r.address = a /\ r.from = Other(p) /\ r.at \in {"entered", "kept"}

\* What p counts as sent is under way, counted as received by the other side, or
\* on its way back.
Balanced(p, a) ==
  mNodeForAddress[p][a].timesSent + forfeited[p][a].sent
    = Transit(p, a) + mNodeForAddress[Other(p)][a].timesRecd
      + forfeited[Other(p)][a].recd + decStrong[p][a]

\* The proxy of p, if a is one, holds a reference, still has to return it, or died
\* without.
Held(p, a) == p = User(a) /\ (Alive(a) \/ a \in dying \/ a \in orphaned)

\* What p counts as received is a reference a thread did not return, or the one its
\* proxy did not.
ReceivedIsOwed(p, a) ==
  ~mTerminated[p] => mNodeForAddress[p][a].timesRecd = Owed(p, a) + Bit(Held(p, a))

\* A node exists as long as one of its counts is not zero, and owns the binder as
\* long as it was sent; a terminated side has no nodes, and only it forfeits.
NodesOwned(p, a) ==
  LET n == mNodeForAddress[p][a]
  IN  /\ n.known <=> (n.timesSent > 0 \/ n.timesRecd > 0)
      /\ n.sentRef <=> n.timesSent > 0
      /\ IF mTerminated[p] THEN n.timesSent = 0 /\ n.timesRecd = 0
         ELSE forfeited[p][a].sent = 0 /\ forfeited[p][a].recd = 0

\* A proxy that is dying or died has no strong reference, and dies once.
Gone(a) ==
  /\ a \in dying \/ a \in orphaned => ~Alive(a)
  /\ a \in dying => a \notin orphaned

\* The proxy a side forfeits was held when it had been sent.
ProxyOwned(a) ==
  /\ forfeited[User(a)][a].sent > 0 => forfeited[User(a)][a].recd > 0
  /\ ~mTerminated[User(a)] => Gone(a)

AddressInv(a) ==
  /\ \A p \in Peers : Balanced(p, a) /\ ReceivedIsOwed(p, a) /\ NodesOwned(p, a)
  /\ ProxyOwned(a)

\* Only proxies are called.
CallsProxies ==
  \A t \in Transactions :
    transaction[t].kind # "binder" => transaction[t].from = User(transaction[t].address)

IInv == TypeOK /\ CallsProxies /\ \A a \in Addresses : AddressInv(a)

-----------------------------------------------------------------------------
(* Sides, and counting references under way. *)

\* The two sides of a session, and of an address.
LEMMA Sides ==
  /\ \A p \in Peers : Other(p) \in Peers /\ Other(p) # p /\ Other(Other(p)) = p
  /\ \A p, q \in Peers : q # p => q = Other(p)
  /\ \A a \in Addresses : /\ Owner(a) \in Peers /\ User(a) \in Peers
                           /\ User(a) # Owner(a) /\ Other(User(a)) = Owner(a)
                           /\ BinderAt[a] \in Binders
BY RpcAssumption DEF Peers, Other, Owner, User

\* Sets of transactions are finite, so they can be counted.
LEMMA CountType ==
  ASSUME NEW tr, NEW p, NEW a, NEW P
  PROVE  /\ IsFiniteSet(At(tr, p, a, P))
         /\ Cardinality(At(tr, p, a, P)) \in Nat
         /\ Cardinality(At(tr, p, a, P)) = 0 <=> At(tr, p, a, P) = {}
<1>1. At(tr, p, a, P) \in SUBSET Transactions
  BY DEF At
<1>2. IsFiniteSet(At(tr, p, a, P))
  BY <1>1, FS_Subset, RpcAssumption
<1> QED
  BY <1>2, FS_CardinalityType, FS_EmptySet

\* One reference moves: it leaves the places it was at and enters new ones.
LEMMA CountMoved ==
  ASSUME NEW t \in Transactions, NEW r,
         \A x \in Transactions : transaction'[x] = IF x = t THEN r ELSE transaction[x]
  PROVE  \A p, a, P :
           Cardinality(At(transaction', p, a, P)) + Bit(t \in At(transaction, p, a, P))
             = Cardinality(At(transaction, p, a, P))
               + Bit(r.address = a /\ r.from = Other(p) /\ r.at \in P)
<1> TAKE p, a, P
<1> DEFINE A == At(transaction, p, a, P)
           B == At(transaction', p, a, P)
           C == A \ {t}
           new == r.address = a /\ r.from = Other(p) /\ r.at \in P
<1>1. IsFiniteSet(A) /\ Cardinality(A) \in Nat /\ Cardinality(B) \in Nat
  BY CountType
<1>2. /\ IsFiniteSet(C)
      /\ Cardinality(C) = IF t \in A THEN Cardinality(A) - 1 ELSE Cardinality(A)
  BY <1>1, FS_RemoveElement
<1>3. Cardinality(C \cup {t}) = Cardinality(C) + 1
  BY <1>2, FS_AddElement
<1>4. new => B = C \cup {t}
  BY DEF At
<1>5. ~new => B = C
  BY DEF At
<1>6. Cardinality(B) = Cardinality(C) + Bit(new)
  <2> HIDE DEF A, B, C, new
  <2>1. CASE new
    BY <2>1, <1>3, <1>4 DEF Bit
  <2>2. CASE ~new
    BY <2>2, <1>1, <1>2, <1>5 DEF Bit
  <2> QED
    BY <2>1, <2>2
<1>7. Cardinality(A) = Cardinality(C) + Bit(t \in A)
  <2> HIDE DEF A, B, C, new
  <2> QED
    BY <1>1, <1>2 DEF Bit
<1> HIDE DEF A, B, C, new
<1>8. Cardinality(C) \in Nat /\ Bit(new) \in Nat /\ Bit(t \in A) \in Nat
  BY <1>2, FS_CardinalityType DEF Bit
<1>9. Cardinality(B) + Bit(t \in A) = Cardinality(A) + Bit(new)
  BY <1>6, <1>7, <1>8, <1>1
<1> QED
  BY <1>9 DEF A, B, new

\* The two counts when one transaction t becomes r.
LEMMA MoveCounts ==
  ASSUME NEW t \in Transactions, NEW r,
         \A x \in Transactions : transaction'[x] = IF x = t THEN r ELSE transaction[x],
         NEW p \in Peers, NEW a \in Addresses
  PROVE  /\ Transit(p, a) \in Nat /\ Transit(p, a)' \in Nat
         /\ Owed(p, a) \in Nat /\ Owed(p, a)' \in Nat
         /\ Transit(p, a)' + Bit(Carries(transaction[t], p, a))
              = Transit(p, a) + Bit(Carries(r, p, a))
         /\ Owed(p, a)' + Bit(Owes(transaction[t], p, a))
              = Owed(p, a) + Bit(Owes(r, p, a))
<1> DEFINE P == {"leaving", "unsent", "wire"}
           E == {"entered", "kept"}
<1>1. /\ Cardinality(At(transaction', Other(p), a, P))
           + Bit(t \in At(transaction, Other(p), a, P))
           = Cardinality(At(transaction, Other(p), a, P))
             + Bit(r.address = a /\ r.from = Other(Other(p)) /\ r.at \in P)
      /\ Cardinality(At(transaction', p, a, E)) + Bit(t \in At(transaction, p, a, E))
           = Cardinality(At(transaction, p, a, E))
             + Bit(r.address = a /\ r.from = Other(p) /\ r.at \in E)
  <2>1. \A q, c, Q :
          Cardinality(At(transaction', q, c, Q)) + Bit(t \in At(transaction, q, c, Q))
            = Cardinality(At(transaction, q, c, Q))
              + Bit(r.address = c /\ r.from = Other(q) /\ r.at \in Q)
    BY CountMoved
  <2> HIDE DEF P, E
  <2>2. Cardinality(At(transaction', Other(p), a, P))
          + Bit(t \in At(transaction, Other(p), a, P))
          = Cardinality(At(transaction, Other(p), a, P))
            + Bit(r.address = a /\ r.from = Other(Other(p)) /\ r.at \in P)
    BY ONLY <2>1
  <2>3. Cardinality(At(transaction', p, a, E)) + Bit(t \in At(transaction, p, a, E))
          = Cardinality(At(transaction, p, a, E))
            + Bit(r.address = a /\ r.from = Other(p) /\ r.at \in E)
    BY ONLY <2>1
  <2> QED
    BY <2>2, <2>3
<1>2. /\ t \in At(transaction, Other(p), a, P) <=> Carries(transaction[t], p, a)
      /\ t \in At(transaction, p, a, E) <=> Owes(transaction[t], p, a)
  BY Sides DEF At, Carries, Owes
<1>3. /\ (r.address = a /\ r.from = Other(Other(p)) /\ r.at \in P) <=> Carries(r, p, a)
      /\ (r.address = a /\ r.from = Other(p) /\ r.at \in E) <=> Owes(r, p, a)
  BY Sides DEF Carries, Owes
<1>4. /\ Bit(t \in At(transaction, Other(p), a, P)) = Bit(Carries(transaction[t], p, a))
      /\ Bit(t \in At(transaction, p, a, E)) = Bit(Owes(transaction[t], p, a))
      /\ Bit(r.address = a /\ r.from = Other(Other(p)) /\ r.at \in P)
           = Bit(Carries(r, p, a))
      /\ Bit(r.address = a /\ r.from = Other(p) /\ r.at \in E) = Bit(Owes(r, p, a))
  BY <1>2, <1>3, Zenon DEF Bit
<1> QED
  BY <1>1, <1>4, CountType DEF Transit, Owed, Outstanding, Unreturned

\* Transactions that do not move in or out of the two counts.
LEMMA SameCounts ==
  ASSUME NEW p \in Peers, NEW a \in Addresses,
         \A x \in Transactions :
           /\ Carries(transaction[x], p, a) <=> Carries(transaction'[x], p, a)
           /\ Owes(transaction[x], p, a) <=> Owes(transaction'[x], p, a)
  PROVE  /\ Transit(p, a) \in Nat /\ Owed(p, a) \in Nat
         /\ Transit(p, a)' = Transit(p, a)
         /\ Owed(p, a)' = Owed(p, a)
<1>1. Outstanding(p, a)' = Outstanding(p, a)
  BY Sides DEF Outstanding, At, Carries
<1>2. Unreturned(p, a)' = Unreturned(p, a)
  BY DEF Unreturned, At, Owes
<1> QED
  BY <1>1, <1>2, CountType DEF Transit, Owed, Outstanding, Unreturned

\* A transaction that counts makes the count positive.
LEMMA CountPositive ==
  ASSUME NEW t \in Transactions, NEW p \in Peers, NEW a \in Addresses
  PROVE  /\ Transit(p, a) \in Nat /\ Owed(p, a) \in Nat
         /\ Carries(transaction[t], p, a) => Transit(p, a) > 0
         /\ Owes(transaction[t], p, a) => Owed(p, a) > 0
<1>1. /\ Carries(transaction[t], p, a) => t \in Outstanding(p, a)
      /\ Owes(transaction[t], p, a) => t \in Unreturned(p, a)
  BY Sides DEF Outstanding, Unreturned, At, Carries, Owes
<1>2. /\ Transit(p, a) \in Nat /\ (Transit(p, a) = 0 <=> Outstanding(p, a) = {})
      /\ Owed(p, a) \in Nat /\ (Owed(p, a) = 0 <=> Unreturned(p, a) = {})
  BY CountType DEF Transit, Owed, Outstanding, Unreturned
<1> QED
  BY <1>1, <1>2

-----------------------------------------------------------------------------
(* The invariant holds initially, and is kept when nothing it reads changes. *)

\* The invariant holds before anything was sent.
LEMMA InitIInv == Init => IInv
<1> SUFFICES ASSUME Init PROVE IInv
  OBVIOUS
<1>1. (CHOOSE a \in Addresses : TRUE) \in Addresses
  BY RpcAssumption
<1>2. TypeOK
  <2>1. Unknown \in Node /\ Idle \in Transaction
    BY <1>1 DEF Node, Unknown, Transaction, Idle, Kinds, Peers, Places
  <2> QED
    BY <2>1 DEF Init, TypeOK, Faults
<1>3. \A p, a, P : "idle" \notin P => Cardinality(At(transaction, p, a, P)) = 0
  <2>1. \A p, a, P : "idle" \notin P => At(transaction, p, a, P) = {}
    BY DEF Init, At, Idle
  <2> QED
    BY <2>1, CountType
<1>4. \A p, a : Transit(p, a) = 0 /\ Owed(p, a) = 0
  BY <1>3 DEF Outstanding, Unreturned, Transit, Owed
<1>5. \A a \in Addresses : ~Alive(a)
  BY Sides DEF Alive, Init, Unknown
<1>6. \A a \in Addresses, p \in Peers : Balanced(p, a)
  BY <1>4, Sides DEF Balanced, Init, Unknown
<1>7. \A a \in Addresses, p \in Peers : ReceivedIsOwed(p, a)
  BY <1>4, <1>5 DEF ReceivedIsOwed, Held, Init, Unknown, Bit
<1>8. \A a \in Addresses, p \in Peers : NodesOwned(p, a)
  BY DEF NodesOwned, Init, Unknown
<1>9. CallsProxies /\ \A a \in Addresses : ProxyOwned(a)
  BY <1>5, Sides DEF ProxyOwned, Gone, CallsProxies, Init, Idle
<1> QED
  BY <1>2, <1>6, <1>7, <1>8, <1>9 DEF IInv, AddressInv

\* Two nodes that agree but for the number of the next oneway call.
SameReferences(m, n) ==
  /\ m.known = n.known /\ m.sentRef = n.sentRef
  /\ m.timesSent = n.timesSent /\ m.timesRecd = n.timesRecd

\* An address whose references the step does not concern.
LEMMA Elsewhere ==
  ASSUME NEW a \in Addresses, AddressInv(a),
         UNCHANGED <<mTerminated, forfeited>>,
         \A p \in Peers : /\ SameReferences(mNodeForAddress'[p][a], mNodeForAddress[p][a])
                          /\ decStrong'[p][a] = decStrong[p][a]
                          /\ Transit(p, a)' = Transit(p, a)
                          /\ Owed(p, a)' = Owed(p, a),
         a \in handles' <=> a \in handles,
         a \in dying' <=> a \in dying,
         a \in orphaned' <=> a \in orphaned
  PROVE  AddressInv(a)'
<1>1. Alive(a)' <=> Alive(a)
  BY Sides DEF Alive, SameReferences
<1>2. \A p \in Peers : Balanced(p, a)' /\ NodesOwned(p, a)'
  BY Sides DEF AddressInv, Balanced, NodesOwned, SameReferences
<1>3. \A p \in Peers : ReceivedIsOwed(p, a)'
  BY <1>1, Zenon DEF AddressInv, ReceivedIsOwed, Held, Bit, SameReferences
<1>4. ProxyOwned(a)'
  BY <1>1, Sides DEF AddressInv, ProxyOwned, Gone
<1> QED
  BY <1>2, <1>3, <1>4 DEF AddressInv

\* The invariant holds after a step that changes none of its variables.
LEMMA StutterIInv ==
  ASSUME IInv, TypeOK',
         UNCHANGED <<mNodeForAddress, mTerminated, transaction, decStrong, handles,
                     dying, forfeited, orphaned>>
  PROVE  IInv'
<1>1. CallsProxies'
  BY DEF IInv, CallsProxies
<1>2. \A a \in Addresses : AddressInv(a)'
  BY Elsewhere DEF IInv, Transit, Owed, Outstanding, Unreturned, SameReferences
<1> QED
  BY <1>1, <1>2 DEF IInv

\* A process that stops at a failing check leaves the counts as they are.
LEMMA FailIInv ==
  ASSUME IInv, NEW p \in Peers, NEW what \in Faults, Fail(p, what)
  PROVE  IInv'
<1>1. TypeOK'
  BY DEF IInv, TypeOK, Fail
<1> QED
  BY <1>1, StutterIInv DEF Fail

\* One node changes.
LEMMA NodeSet ==
  ASSUME TypeOK, NEW p \in Peers, NEW a \in Addresses, NEW n \in Node,
         SetNode(p, a, n)
  PROVE  /\ mNodeForAddress' \in [Peers -> [Addresses -> Node]]
         /\ \A q \in Peers, c \in Addresses :
              mNodeForAddress'[q][c] = IF q = p /\ c = a THEN n
                                       ELSE mNodeForAddress[q][c]
BY DEF TypeOK, SetNode

\* A step that concerns one address.
LEMMA StepIInv ==
  ASSUME IInv, TypeOK', CallsProxies', NEW a \in Addresses, AddressInv(a)',
         UNCHANGED <<mTerminated, forfeited>>,
         \A p \in Peers, c \in Addresses : c # a =>
           /\ mNodeForAddress'[p][c] = mNodeForAddress[p][c]
           /\ decStrong'[p][c] = decStrong[p][c]
           /\ Transit(p, c)' = Transit(p, c)
           /\ Owed(p, c)' = Owed(p, c),
         \A c \in Addresses : c # a => /\ c \in handles' <=> c \in handles
                                       /\ c \in dying' <=> c \in dying
                                       /\ c \in orphaned' <=> c \in orphaned
  PROVE  IInv'
<1>1. \A c \in Addresses : c # a => AddressInv(c)'
  BY Elsewhere DEF IInv, SameReferences
<1> QED
  BY <1>1 DEF IInv

\* A step that concerns no reference.
LEMMA QuietIInv ==
  ASSUME IInv, TypeOK', CallsProxies',
         UNCHANGED <<mTerminated, forfeited, decStrong, handles, dying, orphaned>>,
         \A p \in Peers, a \in Addresses :
           SameReferences(mNodeForAddress'[p][a], mNodeForAddress[p][a]),
         \A p \in Peers, a \in Addresses, x \in Transactions :
           /\ Carries(transaction[x], p, a) <=> Carries(transaction'[x], p, a)
           /\ Owes(transaction[x], p, a) <=> Owes(transaction'[x], p, a)
  PROVE  IInv'
<1>1. \A p \in Peers, a \in Addresses : /\ Transit(p, a)' = Transit(p, a)
                                        /\ Owed(p, a)' = Owed(p, a)
  BY SameCounts
<1>2. \A a \in Addresses : AddressInv(a)'
  BY <1>1, Elsewhere DEF IInv
<1> QED
  BY <1>2 DEF IInv

\* The transactions of a step in which t, about address a, becomes r.
LEMMA MoveElsewhere ==
  ASSUME NEW t \in Transactions, NEW r, NEW a \in Addresses,
         \A x \in Transactions : transaction'[x] = IF x = t THEN r ELSE transaction[x],
         transaction[t].at = "idle" \/ transaction[t].address = a,
         r.at = "idle" \/ r.address = a,
         NEW p \in Peers, NEW c \in Addresses, c # a
  PROVE  Transit(p, c)' = Transit(p, c) /\ Owed(p, c)' = Owed(p, c)
<1>1. /\ ~Carries(transaction[t], p, c) /\ ~Carries(r, p, c)
      /\ ~Owes(transaction[t], p, c) /\ ~Owes(r, p, c)
  BY DEF Carries, Owes
<1> QED
  BY <1>1, SameCounts

-----------------------------------------------------------------------------
(* Places and nodes. *)

\* A transaction that goes from one place to the next.
LEMMA PlaceSet ==
  ASSUME TypeOK, NEW t \in Transactions, NEW place \in Places, Move(t, place)
  PROVE  LET r == IF place = "idle" THEN Idle ELSE [transaction[t] EXCEPT !.at = place]
         IN  /\ r \in Transaction
             /\ transaction' \in [Transactions -> Transaction]
             /\ \A x \in Transactions :
                  transaction'[x] = IF x = t THEN r ELSE transaction[x]
<1> DEFINE r == IF place = "idle" THEN Idle ELSE [transaction[t] EXCEPT !.at = place]
<1>1. Idle \in Transaction
  BY RpcAssumption DEF Idle, Transaction, Kinds, Peers, Places
<1>2. transaction[t] \in Transaction
  BY DEF TypeOK
<1>3. r \in Transaction
  BY <1>1, <1>2 DEF Transaction
<1> HIDE DEF r
<1>4. transaction' = [transaction EXCEPT ![t] = r]
  BY DEF Move, Moved, r
<1>5. /\ transaction' \in [Transactions -> Transaction]
      /\ \A x \in Transactions : transaction'[x] = IF x = t THEN r ELSE transaction[x]
  BY <1>3, <1>4 DEF TypeOK
<1> QED
  BY <1>3, <1>5 DEF r

\* The transaction that stands for no reference.
LEMMA IdleType == Idle \in Transaction /\ Idle.at = "idle" /\ Idle.kind = "binder"
BY RpcAssumption DEF Idle, Transaction, Kinds, Peers, Places

\* The node of a binder that is sent once more.
LEMMA NodeSent ==
  ASSUME NEW n \in Node
  PROVE  LET m == [n EXCEPT !.timesSent = @ + 1, !.sentRef = TRUE]
         IN  /\ m \in Node /\ m.known = n.known /\ m.sentRef
             /\ m.timesSent = n.timesSent + 1 /\ m.timesRecd = n.timesRecd
<1> DEFINE m == [n EXCEPT !.timesSent = @ + 1, !.sentRef = TRUE]
<1>1. n.timesSent + 1 \in Nat
  BY DEF Node
<1>2. m \in Node
  BY <1>1, Zenon DEF Node
<1>3. m.known = n.known /\ m.timesSent = n.timesSent + 1 /\ m.timesRecd = n.timesRecd
  BY DEF Node
<1>4. m.sentRef
  BY DEF Node
<1> QED
  BY <1>2, <1>3, <1>4

\* The node of a binder that is received once more.
LEMMA NodeReceived ==
  ASSUME NEW n \in Node
  PROVE  LET m == [n EXCEPT !.timesRecd = @ + 1]
         IN  /\ m \in Node /\ m.known = n.known /\ m.sentRef = n.sentRef
             /\ m.timesSent = n.timesSent /\ m.timesRecd = n.timesRecd + 1
<1> DEFINE m == [n EXCEPT !.timesRecd = @ + 1]
<1>1. n.timesRecd + 1 \in Nat
  BY DEF Node
<1>2. m \in Node
  BY <1>1, Zenon DEF Node
<1>3. /\ m.known = n.known /\ m.sentRef = n.sentRef
      /\ m.timesSent = n.timesSent /\ m.timesRecd = n.timesRecd + 1
  BY DEF Node
<1> QED
  BY <1>2, <1>3

\* The node of a received reference that is given back.
LEMMA NodeReturned ==
  ASSUME NEW n \in Node, n.timesRecd > 0,
         n.known, n.sentRef <=> n.timesSent > 0
  PROVE  LET m == tryEraseNode([n EXCEPT !.timesRecd = @ - 1])
         IN  /\ m \in Node /\ m.timesSent = n.timesSent
             /\ m.timesRecd = n.timesRecd - 1
             /\ m.known <=> (m.timesSent > 0 \/ m.timesRecd > 0)
             /\ m.sentRef <=> n.sentRef
<1> DEFINE k == [n EXCEPT !.timesRecd = @ - 1]
           m == tryEraseNode(k)
           w == [k EXCEPT !.sentRef = FALSE]
<1>1. n.timesRecd - 1 \in Nat /\ n.timesSent \in Nat
  BY DEF Node
<1>2. k \in Node
  BY <1>1, Zenon DEF Node
<1>3. /\ k.known = n.known /\ k.sentRef = n.sentRef
      /\ k.timesSent = n.timesSent /\ k.timesRecd = n.timesRecd - 1
  BY Zenon DEF Node
<1>4. k.known /\ k.timesSent \in Nat /\ k.timesRecd \in Nat
  BY <1>1, <1>3
<1> HIDE DEF k
<1>5. /\ w \in Node /\ w.known = k.known /\ w.timesSent = k.timesSent
      /\ w.timesRecd = k.timesRecd
  BY <1>2, Zenon DEF Node
<1>6. ~w.sentRef
  BY <1>2 DEF Node
<1>7. Unknown \in Node /\ Unknown.timesSent = 0 /\ Unknown.timesRecd = 0
  BY DEF Unknown, Node
<1>8. ~Unknown.known /\ ~Unknown.sentRef
  BY Zenon DEF Unknown
<1>9. m = IF k.timesSent # 0 THEN k ELSE IF k.timesRecd # 0 THEN w ELSE Unknown
  BY DEF tryEraseNode
<1> HIDE DEF w, m
<1>10. CASE k.timesSent # 0
  <2>1. m = k
    BY <1>9, <1>10
  <2>2. n.sentRef /\ k.sentRef /\ m.timesSent > 0
    BY <1>1, <1>3, <1>10, <2>1
  <2>3. m.known /\ m.sentRef
    BY <1>4, <2>1, <2>2, Zenon
  <2>4. m \in Node /\ m.timesSent = n.timesSent /\ m.timesRecd = n.timesRecd - 1
    BY <1>2, <1>3, <2>1
  <2> QED
    BY <2>2, <2>3, <2>4, Zenon DEF m, k
<1>11. CASE k.timesSent = 0 /\ k.timesRecd # 0
  <2>1. m = w
    BY <1>9, <1>11
  <2>2. ~n.sentRef /\ m.timesRecd > 0
    <3>1. m.timesRecd > 0
      BY <1>4, <1>5, <1>11, <2>1
    <3>2. ~(n.timesSent > 0)
      BY <1>3, <1>11
    <3> QED
      BY <3>1, <3>2
  <2>3. m.known /\ ~m.sentRef
    BY <1>4, <1>5, <1>6, <2>1, Zenon
  <2>4. m \in Node /\ m.timesSent = n.timesSent /\ m.timesRecd = n.timesRecd - 1
    BY <1>3, <1>5, <2>1
  <2> QED
    BY <2>2, <2>3, <2>4, Zenon DEF m, k
<1>12. CASE k.timesSent = 0 /\ k.timesRecd = 0
  <2>1. m = Unknown
    BY <1>9, <1>12
  <2>2. ~n.sentRef /\ ~(m.timesRecd > 0) /\ ~(m.timesSent > 0)
    BY <1>1, <1>3, <1>7, <1>12, <2>1
  <2>3. ~m.known /\ ~m.sentRef
    BY <1>8, <2>1, Zenon
  <2>4. m \in Node /\ m.timesSent = n.timesSent /\ m.timesRecd = n.timesRecd - 1
    BY <1>3, <1>7, <1>12, <2>1
  <2> QED
    BY <2>2, <2>3, <2>4, Zenon DEF m, k
<1> QED
  BY <1>10, <1>11, <1>12

\* The node of a sent reference that comes back.
LEMMA NodeUnsent ==
  ASSUME NEW n \in Node, n.timesSent > 0, n.known, n.sentRef
  PROVE  LET k == [n EXCEPT !.timesSent = @ - 1]
             m == tryEraseNode(k)
         IN  /\ k.timesSent = n.timesSent - 1
             /\ m \in Node /\ m.timesSent = n.timesSent - 1
             /\ m.timesRecd = n.timesRecd
             /\ m.known <=> (m.timesSent > 0 \/ m.timesRecd > 0)
             /\ m.sentRef <=> m.timesSent > 0
<1> DEFINE k == [n EXCEPT !.timesSent = @ - 1]
           m == tryEraseNode(k)
           w == [k EXCEPT !.sentRef = FALSE]
<1>1. n.timesSent - 1 \in Nat /\ n.timesRecd \in Nat
  BY DEF Node
<1>2. k \in Node
  BY <1>1, Zenon DEF Node
<1>3. /\ k.known = n.known /\ k.sentRef = n.sentRef
      /\ k.timesSent = n.timesSent - 1 /\ k.timesRecd = n.timesRecd
  BY Zenon DEF Node
<1>4. k.known /\ k.sentRef /\ k.timesSent \in Nat /\ k.timesRecd \in Nat
  BY <1>1, <1>3
<1> HIDE DEF k
<1>5. /\ w \in Node /\ w.known = k.known /\ w.timesSent = k.timesSent
      /\ w.timesRecd = k.timesRecd
  BY <1>2, Zenon DEF Node
<1>6. ~w.sentRef
  BY <1>2 DEF Node
<1>7. Unknown \in Node /\ Unknown.timesSent = 0 /\ Unknown.timesRecd = 0
  BY DEF Unknown, Node
<1>8. ~Unknown.known /\ ~Unknown.sentRef
  BY Zenon DEF Unknown
<1>9. m = IF k.timesSent # 0 THEN k ELSE IF k.timesRecd # 0 THEN w ELSE Unknown
  BY DEF tryEraseNode
<1> HIDE DEF w, m
<1>10. CASE k.timesSent # 0
  <2>1. m = k
    BY <1>9, <1>10
  <2>2. m.timesSent > 0
    BY <1>4, <1>10, <2>1
  <2>3. m.known /\ m.sentRef
    BY <1>4, <2>1, Zenon
  <2>4. m \in Node /\ m.timesSent = n.timesSent - 1 /\ m.timesRecd = n.timesRecd
    BY <1>2, <1>3, <2>1
  <2> QED
    BY <1>3, <2>2, <2>3, <2>4, Zenon DEF m, k
<1>11. CASE k.timesSent = 0 /\ k.timesRecd # 0
  <2>1. m = w
    BY <1>9, <1>11
  <2>2. m.timesRecd > 0 /\ ~(m.timesSent > 0)
    BY <1>1, <1>3, <1>5, <1>11, <2>1
  <2>3. m.known /\ ~m.sentRef
    BY <1>4, <1>5, <1>6, <2>1, Zenon
  <2>4. m \in Node /\ m.timesSent = n.timesSent - 1 /\ m.timesRecd = n.timesRecd
    BY <1>3, <1>5, <2>1
  <2> QED
    BY <1>3, <2>2, <2>3, <2>4, Zenon DEF m, k
<1>12. CASE k.timesSent = 0 /\ k.timesRecd = 0
  <2>1. m = Unknown
    BY <1>9, <1>12
  <2>2. ~(m.timesRecd > 0) /\ ~(m.timesSent > 0)
    BY <1>1, <1>3, <1>7, <1>12, <2>1
  <2>3. ~m.known /\ ~m.sentRef
    BY <1>8, <2>1, Zenon
  <2>4. m \in Node /\ m.timesSent = n.timesSent - 1 /\ m.timesRecd = n.timesRecd
    BY <1>3, <1>7, <1>12, <2>1
  <2> QED
    BY <1>3, <2>2, <2>3, <2>4, Zenon DEF m, k
<1> QED
  BY <1>10, <1>11, <1>12

\* A reference in the hands of a proxy is counted by its node.
LEMMA HandleKnown ==
  ASSUME IInv, NEW a \in Addresses, Alive(a) \/ a \in dying \/ a \in orphaned,
         ~mTerminated[User(a)]
  PROVE  /\ mNodeForAddress[User(a)][a].known
         /\ mNodeForAddress[User(a)][a].timesRecd > 0
<1> DEFINE p == User(a)
<1>1. p \in Peers /\ p = User(a)
  BY Sides
<1> HIDE DEF p
<1>2. mNodeForAddress[p][a] \in Node /\ Owed(p, a) \in Nat
  BY <1>1, CountType DEF IInv, TypeOK, Owed, Unreturned
<1>3. ReceivedIsOwed(p, a) /\ NodesOwned(p, a)
  BY <1>1 DEF IInv, AddressInv
<1>4. mNodeForAddress[p][a].timesRecd > 0
  BY <1>1, <1>2, <1>3 DEF ReceivedIsOwed, Held, Bit, Node
<1> QED
  BY <1>1, <1>3, <1>4 DEF NodesOwned

\* One reference to a goes from "wire" on, or out of "entered": what the counts of
\* both sides become.
LEMMA PlaceCounts ==
  ASSUME IInv, NEW t \in Transactions, NEW place \in Places, Move(t, place),
         NEW a \in Addresses, transaction[t].address = a,
         place \notin {"leaving", "unsent", "wire"}
  PROVE  /\ transaction' \in [Transactions -> Transaction] /\ CallsProxies'
         /\ \A q \in Peers, c \in Addresses : c # a =>
              Transit(q, c)' = Transit(q, c) /\ Owed(q, c)' = Owed(q, c)
         /\ \A q \in Peers :
              /\ Transit(q, a) \in Nat /\ Transit(q, a)' \in Nat
              /\ Owed(q, a) \in Nat /\ Owed(q, a)' \in Nat
              /\ Transit(q, a)' + Bit(Carries(transaction[t], q, a)) = Transit(q, a)
              /\ Owed(q, a)' + Bit(Owes(transaction[t], q, a))
                   = Owed(q, a) + Bit(place \in {"entered", "kept"} /\ q = Other(transaction[t].from))
<1> DEFINE s == transaction[t]
           r == IF place = "idle" THEN Idle ELSE [s EXCEPT !.at = place]
<1>1. TypeOK /\ CallsProxies /\ s \in Transaction /\ s.from \in Peers
  BY DEF IInv, TypeOK, Transaction
<1>2. /\ r \in Transaction
      /\ transaction' \in [Transactions -> Transaction]
      /\ \A x \in Transactions : transaction'[x] = IF x = t THEN r ELSE transaction[x]
  BY <1>1, PlaceSet
<1>3. /\ r.at = place
      /\ place # "idle" => r.kind = s.kind /\ r.from = s.from /\ r.address = a
      /\ place = "idle" => r.kind = "binder"
  BY <1>1, IdleType DEF Transaction
<1> HIDE DEF r
<1>4. CallsProxies'
  BY <1>1, <1>2, <1>3 DEF CallsProxies
<1>5. \A x \in Transactions : transaction'[x] = IF x = t THEN r ELSE transaction[x]
  BY <1>2
<1>6. \A q \in Peers, c \in Addresses : c # a =>
        Transit(q, c)' = Transit(q, c) /\ Owed(q, c)' = Owed(q, c)
  BY <1>3, <1>5, MoveElsewhere
<1>7. ASSUME NEW q \in Peers
      PROVE  /\ Transit(q, a) \in Nat /\ Transit(q, a)' \in Nat
             /\ Owed(q, a) \in Nat /\ Owed(q, a)' \in Nat
             /\ Transit(q, a)' + Bit(Carries(s, q, a)) = Transit(q, a)
             /\ Owed(q, a)' + Bit(Owes(s, q, a))
                  = Owed(q, a) + Bit(place \in {"entered", "kept"} /\ q = Other(s.from))
  <2>1. /\ ~Carries(r, q, a)
        /\ Owes(r, q, a) <=> (place \in {"entered", "kept"} /\ q = Other(s.from))
    BY <1>1, <1>3, Sides DEF Carries, Owes
  <2>2. /\ Transit(q, a) \in Nat /\ Transit(q, a)' \in Nat
        /\ Owed(q, a) \in Nat /\ Owed(q, a)' \in Nat
        /\ Transit(q, a)' + Bit(Carries(s, q, a)) = Transit(q, a) + Bit(Carries(r, q, a))
        /\ Owed(q, a)' + Bit(Owes(s, q, a)) = Owed(q, a) + Bit(Owes(r, q, a))
    BY <1>5, MoveCounts
  <2>3. /\ Bit(Carries(r, q, a)) = 0
        /\ Bit(Owes(r, q, a)) = Bit(place \in {"entered", "kept"} /\ q = Other(s.from))
    BY <2>1, Zenon DEF Bit
  <2> QED
    BY <2>2, <2>3
<1> QED
  BY <1>2, <1>4, <1>6, <1>7

\* Both sides' counts of sent references, when those of p's node change.
LEMMA BalancedStep ==
  ASSUME TypeOK, TypeOK', NEW a \in Addresses, NEW p \in Peers, NEW o \in Peers,
         Other(p) = o, Other(o) = p, Balanced(p, a), Balanced(o, a),
         UNCHANGED forfeited, mNodeForAddress'[o][a] = mNodeForAddress[o][a],
         mNodeForAddress'[p][a].timesSent + Transit(p, a) + decStrong[p][a]
           = mNodeForAddress[p][a].timesSent + Transit(p, a)' + decStrong'[p][a],
         mNodeForAddress'[p][a].timesRecd + Transit(o, a)' + decStrong'[o][a]
           = mNodeForAddress[p][a].timesRecd + Transit(o, a) + decStrong[o][a]
  PROVE  Balanced(p, a)' /\ Balanced(o, a)'
<1> DEFINE n == mNodeForAddress[p][a]
           m == mNodeForAddress'[p][a]
           k == mNodeForAddress[o][a]
<1>1. /\ n \in Node /\ m \in Node /\ k \in Node
      /\ decStrong[p][a] \in Nat /\ decStrong[o][a] \in Nat
      /\ decStrong'[p][a] \in Nat /\ decStrong'[o][a] \in Nat
      /\ forfeited[o][a] \in [sent : Nat, recd : Nat]
      /\ forfeited[p][a] \in [sent : Nat, recd : Nat]
  BY DEF TypeOK
<1>2. /\ n.timesSent \in Nat /\ n.timesRecd \in Nat /\ m.timesSent \in Nat
      /\ m.timesRecd \in Nat /\ k.timesSent \in Nat /\ k.timesRecd \in Nat
      /\ forfeited[o][a].sent \in Nat /\ forfeited[o][a].recd \in Nat
      /\ forfeited[p][a].sent \in Nat /\ forfeited[p][a].recd \in Nat
  BY <1>1 DEF Node
<1>3. /\ Transit(p, a) \in Nat /\ Transit(o, a) \in Nat
      /\ Transit(p, a)' \in Nat /\ Transit(o, a)' \in Nat
  BY CountType DEF Transit, Outstanding
<1> DEFINE s0 == n.timesSent   s1 == m.timesSent   ks == k.timesSent
           r0 == n.timesRecd   r1 == m.timesRecd   kr == k.timesRecd
           T0 == Transit(p, a) T1 == Transit(p, a)'
           U0 == Transit(o, a) U1 == Transit(o, a)'
           D0 == decStrong[p][a] D1 == decStrong'[p][a]
           E0 == decStrong[o][a] E1 == decStrong'[o][a]
           fs == forfeited[p][a].sent fr == forfeited[p][a].recd
           gs == forfeited[o][a].sent gr == forfeited[o][a].recd
<1>4. /\ s0 + fs = T0 + kr + gr + D0
      /\ ks + gs = U0 + r0 + fr + E0
  BY Zenon DEF Balanced
<1>5. s1 + T0 + D0 = s0 + T1 + D1 /\ r1 + U1 + E1 = r0 + U0 + E0
  OBVIOUS
<1>6. /\ s0 \in Nat /\ s1 \in Nat /\ ks \in Nat /\ r0 \in Nat /\ r1 \in Nat /\ kr \in Nat
      /\ T0 \in Nat /\ T1 \in Nat /\ U0 \in Nat /\ U1 \in Nat
      /\ D0 \in Nat /\ D1 \in Nat /\ E0 \in Nat /\ E1 \in Nat
      /\ fs \in Nat /\ fr \in Nat /\ gs \in Nat /\ gr \in Nat
  BY <1>1, <1>2, <1>3, Zenon
<1>7. /\ s1 + fs = T1 + kr + gr + D1
      /\ ks + gs = U1 + r1 + fr + E1
  <2> HIDE DEF n, m, k, s0, s1, ks, r0, r1, kr, T0, T1, U0, U1, D0, D1, E0, E1, fs, fr, gs, gr
  <2> QED
    BY <1>4, <1>5, <1>6
<1> QED
  BY <1>7, Zenon DEF Balanced

\* A bit is a number.
LEMMA BitType == \A b : Bit(b) \in Nat
BY DEF Bit

\* A step that changes side p's node for a, and the counts of a in step with it.
LEMMA CountStep ==
  ASSUME TypeOK, TypeOK', NEW a \in Addresses, AddressInv(a),
         NEW p \in Peers, NEW o \in Peers, o = Other(p), ~mTerminated[p],
         UNCHANGED mTerminated, UNCHANGED forfeited,
         NEW n, n = mNodeForAddress[p][a], NEW m, m = mNodeForAddress'[p][a],
         mNodeForAddress'[o][a] = mNodeForAddress[o][a],
         m.known <=> (m.timesSent > 0 \/ m.timesRecd > 0),
         m.sentRef <=> m.timesSent > 0,
         m.timesSent + Transit(p, a) + decStrong[p][a]
           = n.timesSent + Transit(p, a)' + decStrong'[p][a],
         m.timesRecd + Transit(o, a)' + decStrong'[o][a]
           = n.timesRecd + Transit(o, a) + decStrong[o][a],
         m.timesRecd + Owed(p, a) + Bit(Held(p, a))
           = n.timesRecd + Owed(p, a)' + Bit(Held(p, a)'),
         Owed(o, a)' = Owed(o, a), Held(o, a)' <=> Held(o, a),
         ~mTerminated[User(a)] => Gone(a)'
  PROVE  AddressInv(a)'
<1>1. /\ o \in Peers /\ o # p /\ Other(o) = p /\ Other(p) = o
      /\ \A q \in Peers : q = p \/ q = o
  BY Sides
<1>2. /\ n \in Node /\ m \in Node /\ mNodeForAddress[o][a] \in Node
      /\ decStrong[p][a] \in Nat /\ decStrong[o][a] \in Nat
      /\ decStrong'[p][a] \in Nat /\ decStrong'[o][a] \in Nat
      /\ forfeited[o][a] \in [sent : Nat, recd : Nat]
      /\ forfeited[p][a] \in [sent : Nat, recd : Nat]
  BY DEF TypeOK
<1>3. /\ Transit(p, a) \in Nat /\ Transit(o, a) \in Nat
      /\ Transit(p, a)' \in Nat /\ Transit(o, a)' \in Nat
      /\ Owed(p, a) \in Nat /\ Owed(p, a)' \in Nat
  BY CountType DEF Transit, Owed, Outstanding, Unreturned
<1>4. /\ Balanced(p, a) /\ Balanced(o, a) /\ ReceivedIsOwed(p, a)
      /\ ReceivedIsOwed(o, a) /\ NodesOwned(p, a) /\ NodesOwned(o, a) /\ ProxyOwned(a)
  BY DEF AddressInv
<1>5. Balanced(p, a)' /\ Balanced(o, a)'
  BY <1>1, <1>4, BalancedStep, Zenon
<1>7. NodesOwned(p, a)'
  BY <1>4, Zenon DEF NodesOwned
<1>8. NodesOwned(o, a)'
  BY <1>4, Zenon DEF NodesOwned
<1>9. ReceivedIsOwed(p, a)'
  <2>1. n.timesRecd = Owed(p, a) + Bit(Held(p, a))
    BY <1>4, Zenon DEF ReceivedIsOwed
  <2>2. Bit(Held(p, a)) \in Nat /\ Bit(Held(p, a)') \in Nat
    BY DEF Bit
  <2>3. m.timesRecd = Owed(p, a)' + Bit(Held(p, a)')
    BY <1>2, <1>3, <2>1, <2>2 DEF Node
  <2> QED
    BY <2>3, Zenon DEF ReceivedIsOwed
<1>10. ReceivedIsOwed(o, a)'
  <2>1. Bit(Held(o, a)') = Bit(Held(o, a))
    BY Zenon DEF Bit
  <2>2. ~mTerminated[o] => mNodeForAddress[o][a].timesRecd = Owed(o, a) + Bit(Held(o, a))
    BY <1>4, Zenon DEF ReceivedIsOwed
  <2>3. ~mTerminated'[o] =>
          mNodeForAddress'[o][a].timesRecd = Owed(o, a)' + Bit(Held(o, a)')
    BY <2>1, <2>2
  <2> QED
    BY <2>3, Zenon DEF ReceivedIsOwed
<1>11. ProxyOwned(a)'
  BY <1>4, Zenon DEF ProxyOwned
<1> QED
  BY <1>1, <1>5, <1>7, <1>8, <1>9, <1>10, <1>11, Zenon DEF AddressInv

\* What a step may do to fault: nothing, or one of the known ones.
KnownFault(p) ==
  \/ UNCHANGED fault
  \/ \E what \in {"pending async", "expected to be owned", "end iterator"} :
       fault' = [fault EXCEPT ![p] = what]

\* Nothing under way moves: the counts stay.
LEMMA StillCounts ==
  ASSUME UNCHANGED transaction
  PROVE  \A q, c : Transit(q, c)' = Transit(q, c) /\ Owed(q, c)' = Owed(q, c)
BY DEF Transit, Owed, Outstanding, Unreturned, At

\* sendDecStrong on a reference that was received: of its checks, only the one on
\* pending oneway calls can fail.
LEMMA DecStrongChecks ==
  ASSUME IInv, NEW p \in Peers, NEW a \in Addresses,
         mTerminated[p] \/ mNodeForAddress[p][a].timesRecd > 0
  PROVE  DecStrongFault(p, a) \in {"none", "pending async"}
<1> DEFINE n == mNodeForAddress[p][a]
<1>1. CASE mTerminated[p]
  BY <1>1 DEF DecStrongFault
<1>2. CASE ~mTerminated[p]
  <2>1. n \in Node /\ NodesOwned(p, a) /\ n.timesRecd > 0
    BY <1>2 DEF IInv, TypeOK, AddressInv
  <2>2. n.known /\ n.timesRecd # 0
    BY <2>1 DEF NodesOwned, Node
  <2>3. ~(n.timesSent = 0 /\ n.sentRef)
    BY <2>1 DEF NodesOwned, Node
  <2> QED
    BY <1>2, <2>2, <2>3, Zenon DEF DecStrongFault
<1> QED
  BY <1>1, <1>2, Zenon

\* What sendDecStrong does to the node and to the wire.
LEMMA SentDecStrong ==
  ASSUME IInv, NEW p \in Peers, NEW o \in Peers, o = Other(p), NEW a \in Addresses,
         ~mTerminated[p], mNodeForAddress[p][a].timesRecd > 0, sendDecStrong(p, a)
  PROVE  /\ mNodeForAddress' \in [Peers -> [Addresses -> Node]]
         /\ decStrong' \in [Peers -> [Addresses -> Nat]]
         /\ \A q \in Peers, c \in Addresses :
              q # p \/ c # a => mNodeForAddress'[q][c] = mNodeForAddress[q][c]
         /\ \A q \in Peers, c \in Addresses :
              q # o \/ c # a => decStrong'[q][c] = decStrong[q][c]
         /\ decStrong'[o][a] = decStrong[o][a] + 1
         /\ mNodeForAddress'[p][a].timesSent = mNodeForAddress[p][a].timesSent
         /\ mNodeForAddress'[p][a].timesRecd = mNodeForAddress[p][a].timesRecd - 1
         /\ mNodeForAddress'[p][a].known <=>
              (mNodeForAddress'[p][a].timesSent > 0 \/ mNodeForAddress'[p][a].timesRecd > 0)
         /\ mNodeForAddress'[p][a].sentRef <=> mNodeForAddress[p][a].sentRef
<1> DEFINE n == mNodeForAddress[p][a]
           m == tryEraseNode([n EXCEPT !.timesRecd = @ - 1])
<1>1. TypeOK /\ n \in Node /\ NodesOwned(p, a)
  BY DEF IInv, TypeOK, AddressInv
<1>2. n.known /\ (n.sentRef <=> n.timesSent > 0)
  BY <1>1 DEF NodesOwned
<1>3. /\ m \in Node /\ m.timesSent = n.timesSent
      /\ m.timesRecd = n.timesRecd - 1
      /\ m.known <=> (m.timesSent > 0 \/ m.timesRecd > 0)
      /\ m.sentRef <=> n.sentRef
  BY <1>1, <1>2, NodeReturned
<1>4. /\ SetNode(p, a, m)
      /\ decStrong' = [decStrong EXCEPT ![o][a] = @ + 1]
  BY DEF sendDecStrong
<1> HIDE DEF m
<1>5. /\ mNodeForAddress' \in [Peers -> [Addresses -> Node]]
      /\ \A q \in Peers, c \in Addresses :
           mNodeForAddress'[q][c] = IF q = p /\ c = a THEN m ELSE mNodeForAddress[q][c]
  BY <1>1, <1>3, <1>4, NodeSet
<1>6. /\ decStrong' \in [Peers -> [Addresses -> Nat]]
      /\ decStrong'[o][a] = decStrong[o][a] + 1
      /\ \A q \in Peers, c \in Addresses :
           q # o \/ c # a => decStrong'[q][c] = decStrong[q][c]
  <2>1. decStrong[o][a] + 1 \in Nat /\ decStrong \in [Peers -> [Addresses -> Nat]]
    BY <1>1 DEF TypeOK
  <2> QED
    BY <1>4, <2>1
<1>7. m = mNodeForAddress'[p][a]
  BY <1>5
<1> HIDE DEF n
<1>8. \A q \in Peers, c \in Addresses :
        q # p \/ c # a => mNodeForAddress'[q][c] = mNodeForAddress[q][c]
  BY <1>5
<1>9. /\ mNodeForAddress'[p][a].timesSent = n.timesSent
      /\ mNodeForAddress'[p][a].timesRecd = n.timesRecd - 1
      /\ mNodeForAddress'[p][a].known <=>
           (mNodeForAddress'[p][a].timesSent > 0 \/ mNodeForAddress'[p][a].timesRecd > 0)
      /\ mNodeForAddress'[p][a].sentRef <=> n.sentRef
  BY <1>3, <1>7, Zenon
<1> QED
  BY <1>5, <1>6, <1>8, <1>9, Zenon DEF n

\* A reference that is given back: the counts of both sides stay in step.
LEMMA DecStrongCounts ==
  ASSUME IInv, TypeOK', NEW p \in Peers, NEW o \in Peers, o = Other(p), NEW a \in Addresses,
         ~mTerminated[p], mNodeForAddress[p][a].timesRecd > 0, sendDecStrong(p, a),
         UNCHANGED mTerminated, UNCHANGED forfeited,
         \A q \in Peers : Transit(q, a)' = Transit(q, a),
         Owed(o, a)' = Owed(o, a), Held(o, a)' <=> Held(o, a),
         Owed(p, a) + Bit(Held(p, a)) = Owed(p, a)' + Bit(Held(p, a)') + 1,
         ~mTerminated[User(a)] => Gone(a)'
  PROVE  AddressInv(a)'
<1>1. PICK n \in Node : n = mNodeForAddress[p][a]
  BY DEF IInv, TypeOK
<1>2. PICK m \in Node : m = mNodeForAddress'[p][a]
  BY DEF TypeOK
<1>3. /\ m.timesSent = n.timesSent
      /\ m.timesRecd = n.timesRecd - 1
      /\ m.known <=> (m.timesSent > 0 \/ m.timesRecd > 0)
      /\ m.sentRef <=> n.sentRef
      /\ decStrong'[o][a] = decStrong[o][a] + 1
  <2>1. /\ mNodeForAddress'[p][a].timesSent = mNodeForAddress[p][a].timesSent
        /\ mNodeForAddress'[p][a].timesRecd = mNodeForAddress[p][a].timesRecd - 1
        /\ mNodeForAddress'[p][a].known <=>
             (mNodeForAddress'[p][a].timesSent > 0 \/ mNodeForAddress'[p][a].timesRecd > 0)
        /\ mNodeForAddress'[p][a].sentRef <=> mNodeForAddress[p][a].sentRef
        /\ decStrong'[o][a] = decStrong[o][a] + 1
    BY SentDecStrong
  <2> QED
    BY <1>1, <1>2, <2>1, Zenon
<1>4. o # p
  BY Sides
<1>5. /\ mNodeForAddress'[o][a] = mNodeForAddress[o][a]
      /\ decStrong'[p][a] = decStrong[p][a]
  <2>1. /\ \A q \in Peers, c \in Addresses :
             q # p \/ c # a => mNodeForAddress'[q][c] = mNodeForAddress[q][c]
        /\ \A q \in Peers, c \in Addresses :
             q # o \/ c # a => decStrong'[q][c] = decStrong[q][c]
    BY SentDecStrong
  <2> QED
    BY <1>4, <2>1, Zenon
<1>6. NodesOwned(p, a) /\ AddressInv(a) /\ TypeOK
  BY DEF IInv, AddressInv
<1>7. m.sentRef <=> m.timesSent > 0
  BY <1>1, <1>3, <1>6, Zenon DEF NodesOwned
<1>8. /\ n.timesSent \in Nat /\ n.timesRecd \in Nat /\ m.timesRecd \in Nat
      /\ decStrong[p][a] \in Nat /\ decStrong[o][a] \in Nat
      /\ \A q \in Peers : Transit(q, a) \in Nat /\ Owed(q, a) \in Nat /\ Owed(q, a)' \in Nat
  BY <1>6, CountType DEF TypeOK, Node, Transit, Owed, Outstanding, Unreturned
<1>9. m.timesSent + Transit(p, a) + decStrong[p][a]
        = n.timesSent + Transit(p, a)' + decStrong'[p][a]
  BY <1>3, <1>5, Zenon
<1>10. m.timesRecd + Transit(o, a)' + decStrong'[o][a]
         = n.timesRecd + Transit(o, a) + decStrong[o][a]
  <2> DEFINE T == Transit(o, a)   D == decStrong[o][a]   E == decStrong'[o][a]
             x == n.timesRecd   y == m.timesRecd
  <2>1. T \in Nat /\ D \in Nat /\ x \in Nat /\ y \in Nat /\ E = D + 1 /\ y = x - 1
    BY <1>3, <1>8
  <2> HIDE DEF T, D, E, x, y
  <2>2. y + T + E = x + T + D
    BY <2>1
  <2> QED
    BY <2>2, Zenon DEF T, D, E, x, y
<1>11. m.timesRecd + Owed(p, a) + Bit(Held(p, a))
         = n.timesRecd + Owed(p, a)' + Bit(Held(p, a)')
  <2> DEFINE U == Owed(p, a)   V == Owed(p, a)'   g == Bit(Held(p, a))
             h == Bit(Held(p, a)')   x == n.timesRecd   y == m.timesRecd
  <2>1. /\ U \in Nat /\ V \in Nat /\ g \in Nat /\ h \in Nat /\ x \in Nat /\ y \in Nat
        /\ y = x - 1 /\ U + g = V + h + 1
    BY <1>3, <1>8, BitType
  <2> HIDE DEF U, V, g, h, x, y
  <2>2. y + U + g = x + V + h
    BY <2>1
  <2> QED
    BY <2>2, Zenon DEF U, V, g, h, x, y
<1> QED
  BY <1>1, <1>2, <1>3, <1>5, <1>6, <1>7, <1>9, <1>10, <1>11, CountStep

\* On a terminated side a reference is given up without any count.
LEMMA TerminatedCounts ==
  ASSUME IInv, NEW p \in Peers, NEW o \in Peers, o = Other(p), NEW a \in Addresses,
         mTerminated[p],
         UNCHANGED <<mNodeForAddress, mTerminated, decStrong, forfeited>>,
         \A q \in Peers : Transit(q, a)' = Transit(q, a),
         Owed(o, a)' = Owed(o, a), Held(o, a)' <=> Held(o, a),
         ~mTerminated[User(a)] => Gone(a)'
  PROVE  AddressInv(a)'
<1>1. \A q \in Peers : q = p \/ q = o
  BY Sides
<1>2. \A q \in Peers : Balanced(q, a) /\ NodesOwned(q, a) /\ ReceivedIsOwed(q, a)
  BY DEF IInv, AddressInv
<1>3. ProxyOwned(a)
  BY DEF IInv, AddressInv
<1>4. \A q \in Peers : Balanced(q, a)'
  BY <1>2, Zenon DEF Balanced
<1>5. \A q \in Peers : NodesOwned(q, a)'
  BY <1>2, Zenon DEF NodesOwned
<1>6. ReceivedIsOwed(p, a)'
  BY Zenon DEF ReceivedIsOwed
<1>7. ReceivedIsOwed(o, a)'
  <2>1. Bit(Held(o, a)') = Bit(Held(o, a))
    BY Zenon DEF Bit
  <2>2. ~mTerminated[o] => mNodeForAddress[o][a].timesRecd = Owed(o, a) + Bit(Held(o, a))
    BY <1>2, Zenon DEF ReceivedIsOwed
  <2>3. ~mTerminated'[o] =>
          mNodeForAddress'[o][a].timesRecd = Owed(o, a)' + Bit(Held(o, a)')
    BY <2>1, <2>2
  <2> QED
    BY <2>3, Zenon DEF ReceivedIsOwed
<1>8. ProxyOwned(a)'
  BY <1>3, Zenon DEF ProxyOwned
<1> QED
  BY <1>1, <1>4, <1>5, <1>6, <1>7, <1>8, Zenon DEF AddressInv

=============================================================================
