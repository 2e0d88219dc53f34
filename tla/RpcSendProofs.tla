--------------------------- MODULE RpcSendProofs ----------------------------
(***************************************************************************)
(* The steps of a session that send references, end it, or run oneway calls *)
(* keep the invariant.                                                      *)
(***************************************************************************)
EXTENDS RpcCountProofs

\* A reference leaves side p: its node counts it (timesSent) and it is under way.
LEMMA LeaveIInv ==
  ASSUME IInv, NEW p \in Peers, NEW t \in Transactions, NEW kind \in Kinds,
         NEW a \in Addresses, NEW n \in Node,
         ~mTerminated[p], transaction[t].at = "idle",
         kind # "binder" => p = User(a), p = User(a) => a \in handles,
         n.known, n.sentRef, n.timesSent = mNodeForAddress[p][a].timesSent + 1,
         n.timesRecd = mNodeForAddress[p][a].timesRecd,
         Leave(p, t, kind, a, n), used' \in SUBSET Addresses
  PROVE  IInv'
<1> DEFINE r == [kind |-> kind, from |-> p, address |-> a, number |-> 0,
                 at |-> "leaving"]
<1>1. r \in Transaction
  BY DEF Transaction, Places
<1>2. /\ mNodeForAddress' \in [Peers -> [Addresses -> Node]]
      /\ \A q \in Peers, c \in Addresses :
           mNodeForAddress'[q][c] = IF q = p /\ c = a THEN n ELSE mNodeForAddress[q][c]
  BY NodeSet DEF IInv, Leave
<1>3. TypeOK'
  BY <1>1, <1>2 DEF IInv, TypeOK, Leave
<1>4. \A x \in Transactions : transaction'[x] = IF x = t THEN r ELSE transaction[x]
  BY DEF Leave, IInv, TypeOK
<1>5. CallsProxies'
  BY <1>4 DEF CallsProxies, IInv
<1>6. \A q \in Peers, c \in Addresses : c # a =>
        Transit(q, c)' = Transit(q, c) /\ Owed(q, c)' = Owed(q, c)
  BY <1>4, MoveElsewhere
<1>7. \A q \in Peers : /\ Transit(q, a) \in Nat /\ Owed(q, a) \in Nat
                       /\ Transit(q, a)' = Transit(q, a) + Bit(q = p)
                       /\ Owed(q, a)' = Owed(q, a)
  <2> SUFFICES ASSUME NEW q \in Peers
               PROVE  /\ Transit(q, a) \in Nat /\ Owed(q, a) \in Nat
                      /\ Transit(q, a)' = Transit(q, a) + Bit(q = p)
                      /\ Owed(q, a)' = Owed(q, a)
    OBVIOUS
  <2>1. /\ ~Carries(transaction[t], q, a) /\ ~Owes(transaction[t], q, a)
        /\ ~Owes(r, q, a) /\ (Carries(r, q, a) <=> q = p)
    BY DEF Carries, Owes
  <2> HIDE DEF r
  <2>2. /\ Transit(q, a) \in Nat /\ Transit(q, a)' \in Nat
        /\ Owed(q, a) \in Nat /\ Owed(q, a)' \in Nat
        /\ Transit(q, a)' + Bit(Carries(transaction[t], q, a))
             = Transit(q, a) + Bit(Carries(r, q, a))
        /\ Owed(q, a)' + Bit(Owes(transaction[t], q, a))
             = Owed(q, a) + Bit(Owes(r, q, a))
    BY <1>4, MoveCounts
  <2> QED
    BY <2>1, <2>2 DEF Bit
<1>8. AddressInv(a)'
  <2>1. UNCHANGED <<mTerminated, decStrong, handles, dying, forfeited, orphaned>>
    BY DEF Leave
  <2>2. AddressInv(a) /\ TypeOK
    BY DEF IInv
  <2>3. \A q \in Peers : Balanced(q, a)'
    BY <2>1, <2>2, <1>2, <1>7, Sides DEF AddressInv, Balanced, TypeOK, Node, Bit
  <2>4. \A q \in Peers : NodesOwned(q, a)'
    <3>1. mNodeForAddress'[p][a] = n /\ n.timesSent > 0
      BY <2>2, <1>2 DEF TypeOK, Node
    <3>2. forfeited[p][a].sent = 0 /\ forfeited[p][a].recd = 0
      BY <2>2 DEF AddressInv, NodesOwned
    <3>3. NodesOwned(p, a)'
      BY <2>1, <3>1, <3>2, Zenon DEF NodesOwned
    <3>4. \A q \in Peers : q # p => NodesOwned(q, a)'
      BY <2>1, <2>2, <1>2 DEF AddressInv, NodesOwned
    <3> QED
      BY <3>3, <3>4
  <2>5. p = User(a) => Alive(a) /\ Alive(a)'
    BY <2>1 DEF Alive
  <2>6. p # User(a) => (Alive(a)' <=> Alive(a))
    BY <2>1, <1>2, Sides DEF Alive
  <2>7. \A q \in Peers : ReceivedIsOwed(q, a)'
    BY <2>1, <2>2, <2>5, <2>6, <1>2, <1>7, Sides DEF AddressInv, ReceivedIsOwed, Held
  <2>8. ProxyOwned(a)'
    BY <2>1, <2>2, <2>5, <2>6 DEF AddressInv, ProxyOwned, Gone
  <2> QED
    BY <2>3, <2>4, <2>7, <2>8 DEF AddressInv
<1> QED
  BY <1>2, <1>3, <1>5, <1>6, <1>8, StepIInv DEF Leave

\* onBinderLeaving for a proxy: the node it looks up is there.
LEMMA ProxyLeavingIInv ==
  ASSUME IInv, NEW p \in Peers, NEW t \in Transactions, NEW kind \in Kinds,
         NEW a \in Addresses, onProxyLeaving(p, t, kind, a)
  PROVE  IInv' /\ UNCHANGED fault
<1> DEFINE n == mNodeForAddress[p][a]
           m == [n EXCEPT !.timesSent = @ + 1, !.sentRef = TRUE]
<1>1. n.known
  BY HandleKnown, Zenon DEF onProxyLeaving, Alive
<1>2. n \in Node /\ TypeOK
  BY DEF IInv, TypeOK
<1>3. /\ m \in Node /\ m.known /\ m.sentRef /\ m.timesSent = n.timesSent + 1
      /\ m.timesRecd = n.timesRecd
  BY <1>1, <1>2, NodeSent, Zenon
<1>4. Leave(p, t, kind, a, m) /\ UNCHANGED used /\ UNCHANGED fault
  BY <1>1 DEF onProxyLeaving, Leave
<1>5. /\ ~mTerminated[p] /\ transaction[t].at = "idle"
      /\ p = User(a) /\ a \in handles
  BY Zenon DEF onProxyLeaving
<1> HIDE DEF m
<1> QED
  BY <1>2, <1>3, <1>4, <1>5, LeaveIInv, Zenon DEF TypeOK

\* onBinderLeaving for a local binder, known or new.
LEMMA LocalLeavingIInv ==
  ASSUME IInv, NEW p \in Peers, NEW t \in Transactions, NEW a \in Addresses,
         onLocalLeaving(p, t, a)
  PROVE  IInv' /\ UNCHANGED fault
<1> DEFINE n == mNodeForAddress[p][a]
           m == [n EXCEPT !.timesSent = @ + 1, !.sentRef = TRUE]
           f == [Unknown EXCEPT !.known = TRUE, !.timesSent = 1, !.sentRef = TRUE]
<1>1. n \in Node /\ TypeOK
  BY DEF IInv, TypeOK
<1>2. /\ ~mTerminated[p] /\ transaction[t].at = "idle" /\ p # User(a)
      /\ "binder" \in Kinds
  BY Sides DEF onLocalLeaving, Kinds
<1>3. CASE n.known /\ Leave(p, t, "binder", a, m) /\ UNCHANGED used
  <2>1. /\ m \in Node /\ m.known /\ m.sentRef /\ m.timesSent = n.timesSent + 1
        /\ m.timesRecd = n.timesRecd
    BY <1>1, <1>3, NodeSent, Zenon
  <2> HIDE DEF m
  <2> QED
    BY <1>1, <1>2, <1>3, <2>1, LeaveIInv, Zenon DEF TypeOK, Leave
<1>4. CASE ~n.known /\ used' = used \cup {a} /\ Leave(p, t, "binder", a, f)
  <2>1. n.timesSent = 0 /\ n.timesRecd = 0
    BY <1>1, <1>4 DEF IInv, AddressInv, NodesOwned, Node
  <2>2. /\ f \in Node /\ f.known /\ f.sentRef /\ f.timesSent = n.timesSent + 1
        /\ f.timesRecd = n.timesRecd
    <3>1. f \in Node
      BY Zenon DEF Node, Unknown
    <3>2. f.known
      BY DEF Unknown
    <3>3. f.sentRef
      BY DEF Unknown
    <3>4. f.timesSent = n.timesSent + 1 /\ f.timesRecd = n.timesRecd
      BY <2>1 DEF Unknown
    <3> QED
      BY <3>1, <3>2, <3>3, <3>4
  <2> HIDE DEF f
  <2> QED
    BY <1>1, <1>2, <1>4, <2>2, LeaveIInv, Zenon DEF TypeOK, Leave
<1> QED
  BY <1>3, <1>4 DEF onLocalLeaving

\* A parcel goes out, or is given up, with its references still counted.
LEMMA SendParcelIInv ==
  ASSUME IInv, NEW t \in Transactions, sendParcel(t)
  PROVE  IInv' /\ UNCHANGED fault
<1>1. PICK place \in Sent : Move(t, place)
  BY DEF sendParcel
<1> DEFINE r == [transaction[t] EXCEPT !.at = place]
<1>2. place \in Places /\ place # "idle" /\ TypeOK /\ CallsProxies
  BY DEF Sent, Places, IInv
<1>3. /\ r \in Transaction
      /\ transaction' \in [Transactions -> Transaction]
      /\ \A x \in Transactions : transaction'[x] = IF x = t THEN r ELSE transaction[x]
  BY <1>1, <1>2, PlaceSet
<1>4. TypeOK'
  BY <1>2, <1>3 DEF TypeOK, sendParcel
<1>5. transaction[t] \in Transaction /\ transaction[t].at = "leaving"
  BY <1>2 DEF TypeOK, sendParcel
<1>6. /\ r.kind = transaction[t].kind /\ r.from = transaction[t].from
      /\ r.address = transaction[t].address /\ r.at = place
  BY <1>5 DEF Transaction
<1> HIDE DEF r
<1>7. CallsProxies'
  BY <1>2, <1>3, <1>6 DEF CallsProxies
<1>8. \A p \in Peers, a \in Addresses, x \in Transactions :
        /\ Carries(transaction[x], p, a) <=> Carries(transaction'[x], p, a)
        /\ Owes(transaction[x], p, a) <=> Owes(transaction'[x], p, a)
  BY <1>3, <1>5, <1>6 DEF Carries, Owes, Sent
<1> QED
  BY <1>4, <1>7, <1>8, QuietIInv DEF sendParcel, SameReferences

\* clear(): the counts a side drops are forfeited, and those of the other side stay.
LEMMA ClearIInv ==
  ASSUME IInv, NEW p \in Peers, ~mTerminated[p], clear(p)
  PROVE  IInv' /\ (UNCHANGED fault \/ fault' = [fault EXCEPT ![p] = "expected to be owned"])
<1>1. CASE Fail(p, "expected to be owned")
  BY <1>1, FailIInv, Zenon DEF Fail, Faults
<1>2. CASE ~Fail(p, "expected to be owned")
  <2> DEFINE F == [a \in Addresses |-> [sent |-> mNodeForAddress[p][a].timesSent,
                                        recd |-> mNodeForAddress[p][a].timesRecd]]
             U == [a \in Addresses |-> Unknown]
  <2>1. /\ mTerminated' = [mTerminated EXCEPT ![p] = TRUE]
        /\ mNodeForAddress' = [mNodeForAddress EXCEPT ![p] = U]
        /\ forfeited' = [forfeited EXCEPT ![p] = F]
        /\ transaction' = [x \in Transactions |->
                             IF x \in Todo(p, transaction[x].address) THEN Idle
                             ELSE transaction[x]]
        /\ terminating' = terminating \ {p}
        /\ UNCHANGED <<fault, decStrong, handles, local, dying, used, renumbered,
                       orphaned>>
    BY <1>2, Zenon DEF clear
  <2>2. TypeOK /\ CallsProxies /\ \A a \in Addresses : AddressInv(a)
    BY DEF IInv
  <2>3. U \in [Addresses -> Node]
    <3>1. Unknown \in Node
      BY DEF Unknown, Node
    <3> QED
      BY <3>1
  <2>4. F \in [Addresses -> [sent : Nat, recd : Nat]]
    BY <2>2 DEF TypeOK, Node
  <2>5. \A a \in Addresses : /\ U[a].timesSent = 0 /\ U[a].timesRecd = 0
                             /\ ~U[a].known /\ ~U[a].sentRef
                             /\ F[a].sent = mNodeForAddress[p][a].timesSent
                             /\ F[a].recd = mNodeForAddress[p][a].timesRecd
    BY DEF Unknown
  <2> HIDE DEF U, F
  <2>6. TypeOK'
    <3>1. transaction' \in [Transactions -> Transaction]
      BY <2>1, <2>2, IdleType DEF TypeOK
    <3>2. mTerminated' \in [Peers -> BOOLEAN]
      BY <2>1, <2>2 DEF TypeOK
    <3>3. mNodeForAddress' \in [Peers -> [Addresses -> Node]]
      BY <2>1, <2>2, <2>3 DEF TypeOK
    <3>4. forfeited' \in [Peers -> [Addresses -> [sent : Nat, recd : Nat]]]
      BY <2>1, <2>2, <2>4 DEF TypeOK
    <3>5. terminating' \subseteq Peers
      BY <2>1, <2>2 DEF TypeOK
    <3> QED
      BY <2>1, <2>2, <3>1, <3>2, <3>3, <3>4, <3>5 DEF TypeOK
  <2>7. CallsProxies'
    BY <2>1, <2>2, IdleType DEF CallsProxies
  <2>8. \A q \in Peers, a \in Addresses, x \in Transactions :
          /\ Carries(transaction[x], q, a) <=> Carries(transaction'[x], q, a)
          /\ Owes(transaction[x], q, a) <=> Owes(transaction'[x], q, a)
    <3> SUFFICES ASSUME NEW q \in Peers, NEW a \in Addresses, NEW x \in Transactions
                 PROVE  /\ Carries(transaction[x], q, a) <=> Carries(transaction'[x], q, a)
                        /\ Owes(transaction[x], q, a) <=> Owes(transaction'[x], q, a)
      OBVIOUS
    <3>1. CASE x \in Todo(p, transaction[x].address)
      <4>1. transaction[x].at = "queued" /\ transaction'[x] = Idle
        BY <2>1, <3>1 DEF Todo, At
      <4> QED
        BY <4>1, IdleType DEF Carries, Owes
    <3>2. CASE x \notin Todo(p, transaction[x].address)
      BY <2>1, <3>2
    <3> QED
      BY <3>1, <3>2
  <2>9. \A q \in Peers, a \in Addresses : /\ Transit(q, a) \in Nat
                                          /\ Transit(q, a)' = Transit(q, a)
                                          /\ Owed(q, a)' = Owed(q, a)
    BY <2>8, SameCounts
  <2>10. ASSUME NEW a \in Addresses
         PROVE  AddressInv(a)'
    <3>1. \A q \in Peers :
            /\ mNodeForAddress'[q][a] = IF q = p THEN U[a] ELSE mNodeForAddress[q][a]
            /\ forfeited'[q][a] = IF q = p THEN F[a] ELSE forfeited[q][a]
            /\ q # p => mTerminated'[q] = mTerminated[q]
      BY <2>1, <2>2, Zenon DEF TypeOK
    <3> mTerminated'[p]
      BY <2>1, <2>2 DEF TypeOK
    <3>2. \A q \in Peers : /\ mNodeForAddress[q][a].timesSent \in Nat
                           /\ mNodeForAddress[q][a].timesRecd \in Nat
                           /\ forfeited[q][a].sent \in Nat /\ forfeited[q][a].recd \in Nat
                           /\ decStrong[q][a] \in Nat
      BY <2>2 DEF TypeOK, Node
    <3>3. \A q \in Peers : Balanced(q, a) /\ NodesOwned(q, a)
      BY <2>2 DEF AddressInv
    <3>4. forfeited[p][a].sent = 0 /\ forfeited[p][a].recd = 0
      BY <3>3 DEF NodesOwned
    <3>5. \A q \in Peers : Balanced(q, a)'
      <4> DEFINE o == Other(p)
      <4>1. o \in Peers /\ o # p /\ Other(o) = p /\ \A q \in Peers : q = p \/ q = o
        BY Sides
      <4>2. /\ mNodeForAddress'[p][a] = U[a] /\ forfeited'[p][a] = F[a]
            /\ mNodeForAddress'[o][a] = mNodeForAddress[o][a]
            /\ forfeited'[o][a] = forfeited[o][a]
        BY <3>1, <4>1
      <4> HIDE DEF o
      <4>3. Balanced(p, a)'
        BY <2>1, <2>5, <2>9, <3>2, <3>3, <3>4, <4>1, <4>2 DEF Balanced, o
      <4>4. Balanced(o, a)'
        BY <2>1, <2>5, <2>9, <3>2, <3>3, <3>4, <4>1, <4>2 DEF Balanced
      <4> QED
        BY <4>1, <4>3, <4>4
    <3>6. \A q \in Peers : NodesOwned(q, a)'
      <4>1. NodesOwned(p, a)'
        <5>1. mNodeForAddress'[p][a] = U[a]
          BY <3>1
        <5>2. U[a].timesSent = 0 /\ U[a].timesRecd = 0 /\ ~U[a].known /\ ~U[a].sentRef
          BY <2>5
        <5>3. ~(0 > 0)
          OBVIOUS
        <5> QED
          BY <5>1, <5>2, <5>3, Zenon DEF NodesOwned
      <4>2. \A q \in Peers : q # p => NodesOwned(q, a)'
        BY <3>1, <3>3 DEF NodesOwned
      <4> QED
        BY <4>1, <4>2
    <3>7. User(a) # p => (Alive(a)' <=> Alive(a))
      BY <2>1, <3>1, Sides DEF Alive
    <3>8. \A q \in Peers : ReceivedIsOwed(q, a)'
      <4>1. \A q \in Peers : q # p => ReceivedIsOwed(q, a)'
        <5> SUFFICES ASSUME NEW q \in Peers, q # p
                     PROVE  ReceivedIsOwed(q, a)'
          OBVIOUS
        <5>1. /\ mNodeForAddress'[q][a] = mNodeForAddress[q][a]
              /\ mTerminated'[q] = mTerminated[q] /\ Owed(q, a)' = Owed(q, a)
              /\ dying' = dying /\ orphaned' = orphaned /\ ReceivedIsOwed(q, a)
          BY <2>1, <2>2, <2>9, <3>1 DEF AddressInv
        <5>2. Held(q, a)' <=> Held(q, a)
          BY <5>1, <3>7 DEF Held
        <5>3. Bit(Held(q, a))' = Bit(Held(q, a))
          BY <5>2 DEF Bit
        <5> QED
          BY <5>1, <5>3 DEF ReceivedIsOwed
      <4> QED
        BY <4>1, Zenon DEF ReceivedIsOwed
    <3>9. mNodeForAddress[User(a)][a].timesSent > 0 => Alive(a)
      BY <3>3, Sides DEF NodesOwned, Alive
    <3>10. User(a) = p /\ Alive(a) => mNodeForAddress[p][a].timesRecd > 0
      BY HandleKnown
    <3>11. ProxyOwned(a)'
      <4>1. CASE User(a) = p
        BY <2>5, <3>1, <3>9, <3>10, <4>1 DEF ProxyOwned
      <4>2. CASE User(a) # p
        BY <2>1, <2>2, <3>1, <3>7, <4>2, Sides DEF AddressInv, ProxyOwned, Gone
      <4> QED
        BY <4>1, <4>2
    <3> QED
      BY <3>5, <3>6, <3>8, <3>11 DEF AddressInv
  <2> QED
    BY <2>1, <2>6, <2>7, <2>10 DEF IInv
<1> QED
  BY <1>1, <1>2, Zenon

\* A thread ends the session on one side.
LEMMA ShutdownIInv ==
  ASSUME IInv, NEW p \in Peers, Shutdown(p)
  PROVE  IInv' /\ (UNCHANGED fault \/ fault' = [fault EXCEPT ![p] = "expected to be owned"])
BY ClearIInv DEF Shutdown

\* A call that is under way is counted, and its node is there.
LEMMA CarriedKnown ==
  ASSUME IInv, NEW t \in Transactions, NEW p \in Peers, NEW a \in Addresses,
         Carries(transaction[t], p, a), ~mTerminated[p]
  PROVE  mNodeForAddress[p][a].known /\ mNodeForAddress[p][a].timesSent > 0
<1>1. Transit(p, a) \in Nat /\ Transit(p, a) > 0
  BY CountPositive
<1>2. Balanced(p, a) /\ NodesOwned(p, a)
  BY DEF IInv, AddressInv
<1>3. /\ mNodeForAddress[p][a].timesSent \in Nat
      /\ mNodeForAddress[Other(p)][a].timesRecd \in Nat
      /\ forfeited[Other(p)][a].recd \in Nat /\ decStrong[p][a] \in Nat
  BY Sides DEF IInv, TypeOK, Node
<1>4. forfeited[p][a].sent = 0
  BY <1>2 DEF NodesOwned
<1>5. mNodeForAddress[p][a].timesSent > 0
  BY <1>1, <1>2, <1>3, <1>4 DEF Balanced
<1> QED
  BY <1>2, <1>5 DEF NodesOwned

\* A reference goes on without entering or leaving a count.
SameCount(from, to) ==
  \/ from \in {"leaving", "unsent", "wire"} /\ to \in {"leaving", "unsent", "wire"}
  \/ from \in {"entered", "kept"} /\ to \in {"entered", "kept"}
  \/ /\ from \notin {"leaving", "unsent", "wire", "entered", "kept"}
     /\ to \notin {"leaving", "unsent", "wire", "entered", "kept"}

\* The transactions after such a move.
LEMMA MovedQuietly ==
  ASSUME IInv, NEW t \in Transactions, NEW place \in Places,
         SameCount(transaction[t].at, place)
  PROVE  LET tr == Moved(t, place)
         IN  /\ tr \in [Transactions -> Transaction]
             /\ \A p \in Peers, a \in Addresses, x \in Transactions :
                  /\ Carries(transaction[x], p, a) <=> Carries(tr[x], p, a)
                  /\ Owes(transaction[x], p, a) <=> Owes(tr[x], p, a)
             /\ \A x \in Transactions :
                  tr[x].kind # "binder" => tr[x].from = User(tr[x].address)
<1> DEFINE tr == Moved(t, place)
           s == transaction[t]
           r == IF place = "idle" THEN Idle ELSE [s EXCEPT !.at = place]
<1>1. s \in Transaction /\ TypeOK /\ CallsProxies
  BY DEF IInv, TypeOK
<1>2. r \in Transaction
  BY <1>1, IdleType DEF Transaction
<1>3. /\ r.at = place
      /\ place # "idle" => /\ r.kind = s.kind /\ r.from = s.from
                           /\ r.address = s.address
      /\ place = "idle" => r.kind = "binder"
  BY <1>1, IdleType DEF Transaction
<1> HIDE DEF r
<1>4. tr = [transaction EXCEPT ![t] = r]
  BY DEF Moved, r
<1> HIDE DEF tr
<1>5. /\ tr \in [Transactions -> Transaction]
      /\ \A x \in Transactions : tr[x] = IF x = t THEN r ELSE transaction[x]
  BY <1>1, <1>2, <1>4 DEF TypeOK
<1>6. \A p \in Peers, a \in Addresses : /\ Carries(s, p, a) <=> Carries(r, p, a)
                                        /\ Owes(s, p, a) <=> Owes(r, p, a)
  BY <1>3 DEF Carries, Owes, SameCount
<1>7. \A p \in Peers, a \in Addresses, x \in Transactions :
        /\ Carries(transaction[x], p, a) <=> Carries(tr[x], p, a)
        /\ Owes(transaction[x], p, a) <=> Owes(tr[x], p, a)
  BY <1>5, <1>6
<1>8. r.kind # "binder" => r.from = User(r.address)
  BY <1>1, <1>3 DEF CallsProxies
<1>9. \A x \in Transactions : tr[x].kind # "binder" => tr[x].from = User(tr[x].address)
  BY <1>1, <1>5, <1>8 DEF CallsProxies
<1> QED
  BY <1>5, <1>7, <1>9 DEF tr

\* A node takes the next number for oneway calls, or stays as it is.
LEMMA NodeNumbered ==
  ASSUME TypeOK, NEW p \in Peers, NEW a \in Addresses, NEW n \in Node,
         SameReferences(n, mNodeForAddress[p][a]), SetNode(p, a, n)
  PROVE  /\ mNodeForAddress' \in [Peers -> [Addresses -> Node]]
         /\ \A q \in Peers, c \in Addresses :
              SameReferences(mNodeForAddress'[q][c], mNodeForAddress[q][c])
<1>1. /\ mNodeForAddress' \in [Peers -> [Addresses -> Node]]
      /\ \A q \in Peers, c \in Addresses :
           mNodeForAddress'[q][c] = IF q = p /\ c = a THEN n ELSE mNodeForAddress[q][c]
  BY NodeSet
<1> QED
  BY <1>1 DEF SameReferences

\* A node that takes the next number for oneway calls keeps its references.
LEMMA NextNumber ==
  ASSUME NEW n \in Node
  PROVE  /\ [n EXCEPT !.asyncNumber = @ + 1] \in Node
         /\ SameReferences([n EXCEPT !.asyncNumber = @ + 1], n)
         /\ SameReferences(n, n)
<1>1. [n EXCEPT !.asyncNumber = @ + 1] \in Node
  BY DEF Node
<1>2. SameReferences([n EXCEPT !.asyncNumber = @ + 1], n)
  BY DEF Node, SameReferences
<1> QED
  BY <1>1, <1>2 DEF SameReferences

\* A step that moves one reference without entering or leaving a count, whether or not
\* it leads to the end of the session.
LEMMA MovedIInv ==
  ASSUME IInv, NEW t \in Transactions, NEW place \in Places,
         SameCount(transaction[t].at, place), Move(t, place),
         NEW p \in Peers, terminating' \in {terminating, terminating \cup {p}},
         UNCHANGED <<mNodeForAddress, mTerminated, fault, decStrong, handles, local,
                     dying, used, forfeited, renumbered, orphaned>>
  PROVE  IInv' /\ KnownFault(p)
<1>1. /\ transaction' \in [Transactions -> Transaction] /\ CallsProxies'
      /\ \A q \in Peers, c \in Addresses, x \in Transactions :
           /\ Carries(transaction[x], q, c) <=> Carries(transaction'[x], q, c)
           /\ Owes(transaction[x], q, c) <=> Owes(transaction'[x], q, c)
  BY MovedQuietly DEF Move, CallsProxies
<1>2. terminating' \subseteq Peers
  BY DEF IInv, TypeOK
<1>3. TypeOK'
  BY <1>1, <1>2 DEF IInv, TypeOK
<1> QED
  BY <1>1, <1>3, QuietIInv DEF SameReferences, KnownFault

\* A call that is given up after its reference was counted.
LEMMA GivenUpIInv ==
  ASSUME IInv, NEW t \in Transactions, transaction[t].at = "leaving", Move(t, "unsent"),
         NEW p \in Peers, terminating' \in {terminating, terminating \cup {p}},
         UNCHANGED <<mNodeForAddress, mTerminated, fault, decStrong, handles, local,
                     dying, used, forfeited, renumbered, orphaned>>
  PROVE  IInv' /\ \E q \in Peers : KnownFault(q)
<1>1. "unsent" \in Places /\ SameCount(transaction[t].at, "unsent")
  BY DEF Places, SameCount
<1> QED
  BY <1>1, MovedIInv

\* transactAddress: the node of the target is there, and only its number changes.
LEMMA TransactIInv ==
  ASSUME IInv, NEW t \in Transactions, transactAddress(t)
  PROVE  IInv' /\ \E p \in Peers : KnownFault(p)
<1> DEFINE s == transaction[t]
           p == s.from
           a == s.address
           n == mNodeForAddress[p][a]
           oneway == s.kind = "oneway"
<1>1. s \in Transaction /\ TypeOK /\ CallsProxies /\ s.at = "leaving" /\ s.kind # "binder"
  BY Zenon DEF IInv, TypeOK, transactAddress
<1>2. p \in Peers /\ a \in Addresses /\ n \in Node
  BY <1>1 DEF Transaction, TypeOK
<1>3. CASE mTerminated[p]
  <2>1. /\ Move(t, "unsent") /\ terminating' = terminating
        /\ UNCHANGED <<mNodeForAddress, mTerminated, fault, decStrong, handles,
                       local, dying, used, forfeited, renumbered, orphaned>>
    BY <1>3 DEF transactAddress
  <2> QED
    BY <1>1, <1>2, <2>1, GivenUpIInv
<1>4. CASE ~mTerminated[p]
  <2>1. n.known
    BY <1>1, <1>2, <1>4, CarriedKnown DEF Carries
  <2>2. CASE oneway /\ n.asyncNumber >= MaxAsyncNumber
    <3>1. /\ Move(t, "unsent") /\ terminating' = terminating \cup {p}
          /\ UNCHANGED <<mNodeForAddress, mTerminated, fault, decStrong, handles,
                         local, dying, used, forfeited, renumbered, orphaned>>
      BY <1>4, <2>1, <2>2, Zenon DEF transactAddress
    <3> QED
      BY <1>1, <1>2, <3>1, GivenUpIInv
  <2>3. CASE ~(oneway /\ n.asyncNumber >= MaxAsyncNumber)
    <3> DEFINE m == IF oneway THEN [n EXCEPT !.asyncNumber = @ + 1] ELSE n
    <3>1. /\ SetNode(p, a, m)
          /\ \E place \in Sent :
               transaction' = [transaction EXCEPT ![t].at = place,
                                                  ![t].number = n.asyncNumber]
          /\ UNCHANGED <<mTerminated, fault, decStrong, handles, local, dying, used,
                         forfeited, renumbered, orphaned, terminating>>
      BY <1>4, <2>1, <2>3, Zenon DEF transactAddress
    <3>2. m \in Node /\ SameReferences(m, n)
      BY <1>2, NextNumber, Zenon
    <3>3. /\ mNodeForAddress' \in [Peers -> [Addresses -> Node]]
          /\ \A q \in Peers, c \in Addresses :
               SameReferences(mNodeForAddress'[q][c], mNodeForAddress[q][c])
      BY <1>1, <1>2, <3>1, <3>2, NodeNumbered, Zenon
    <3>4. PICK place \in Sent :
            transaction' = [transaction EXCEPT ![t].at = place,
                                               ![t].number = n.asyncNumber]
      BY <3>1, Zenon
    <3> DEFINE r == [s EXCEPT !.at = place, !.number = n.asyncNumber]
    <3>5. transaction' = [transaction EXCEPT ![t] = r]
      BY <1>1, <3>4, Zenon DEF TypeOK
    <3>6. /\ r \in Transaction
          /\ r.kind = s.kind /\ r.from = s.from /\ r.address = s.address /\ r.at = place
      <4>1. n.asyncNumber \in Nat /\ place \in Places
        BY <1>2 DEF Node, Sent, Places
      <4>2. r \in Transaction
        BY <1>1, <4>1, Zenon DEF Transaction
      <4> QED
        BY <1>1, <4>2 DEF Transaction
    <3> HIDE DEF r, m
    <3>7. /\ transaction' \in [Transactions -> Transaction]
          /\ \A x \in Transactions : transaction'[x] = IF x = t THEN r ELSE transaction[x]
      BY <1>1, <3>5, <3>6 DEF TypeOK
    <3>8. TypeOK'
      BY <1>1, <3>1, <3>3, <3>7 DEF TypeOK
    <3>9. CallsProxies'
      BY <1>1, <3>6, <3>7 DEF CallsProxies
    <3>10. \A q \in Peers, c \in Addresses, x \in Transactions :
             /\ Carries(transaction[x], q, c) <=> Carries(transaction'[x], q, c)
             /\ Owes(transaction[x], q, c) <=> Owes(transaction'[x], q, c)
      BY <1>1, <3>6, <3>7 DEF Carries, Owes, Sent
    <3> QED
      BY <1>2, <3>1, <3>3, <3>8, <3>9, <3>10, QuietIInv, Zenon DEF KnownFault
  <2> QED
    BY <2>2, <2>3
<1> QED
  BY <1>3, <1>4

\* processTransactInternal takes up a oneway call, or puts it into asyncTodo.
LEMMA AcceptOnewayIInv ==
  ASSUME IInv, NEW t \in Transactions, acceptOneway(t)
  PROVE  IInv' /\ \E p \in Peers : KnownFault(p)
<1> DEFINE s == transaction[t]
           p == Other(s.from)
           a == s.address
           n == mNodeForAddress[p][a]
           late == Late(t)
           full == Cardinality(Todo(p, a)) + 1 >= MaxPending
<1>1. s \in Transaction /\ TypeOK /\ CallsProxies /\ s.at = "accepted"
  BY Zenon DEF IInv, TypeOK, acceptOneway
<1>2. p \in Peers /\ a \in Addresses
  BY <1>1, Sides DEF Transaction
<1>3. CASE ~n.known
  <2>1. Fail(p, "end iterator")
    BY <1>3, Zenon DEF acceptOneway
  <2> QED
    BY <1>2, <2>1, FailIInv, Zenon DEF Fail, Faults, KnownFault
<1>4. CASE n.known
  <2> DEFINE place == IF late THEN "queued" ELSE "running"
  <2>1. /\ Move(t, place)
        /\ terminating' \in {terminating, terminating \cup {p}}
        /\ UNCHANGED <<mNodeForAddress, mTerminated, fault, decStrong, handles,
                       local, dying, used, forfeited, renumbered, orphaned>>
    BY <1>4, Zenon DEF acceptOneway
  <2>2. place \in Places /\ SameCount(s.at, place)
    BY <1>1 DEF Places, SameCount
  <2> HIDE DEF place
  <2> QED
    BY <1>2, <2>1, <2>2, MovedIInv
<1> QED
  BY <1>3, <1>4

\* A oneway call taken from asyncTodo is executed by the thread of the one before.
LEMMA TakenFromTodo ==
  ASSUME NEW tr \in [Transactions -> Transaction], NEW c \in Transactions,
         tr[c].at = "queued",
         \A x \in Transactions : tr[x].kind # "binder" => tr[x].from = User(tr[x].address)
  PROVE  LET ts == [tr EXCEPT ![c].at = "accepted"]
         IN  /\ ts \in [Transactions -> Transaction]
             /\ \A p \in Peers, a \in Addresses, x \in Transactions :
                  /\ Carries(tr[x], p, a) <=> Carries(ts[x], p, a)
                  /\ Owes(tr[x], p, a) <=> Owes(ts[x], p, a)
             /\ \A x \in Transactions :
                  ts[x].kind # "binder" => ts[x].from = User(ts[x].address)
<1> DEFINE r == [tr[c] EXCEPT !.at = "accepted"]
           ts == [tr EXCEPT ![c].at = "accepted"]
<1>1. /\ r \in Transaction
      /\ r.kind = tr[c].kind /\ r.from = tr[c].from /\ r.address = tr[c].address
      /\ r.at = "accepted"
  BY DEF Transaction, Places
<1> HIDE DEF r
<1>2. ts = [tr EXCEPT ![c] = r]
  BY DEF r
<1>3. /\ ts \in [Transactions -> Transaction]
      /\ \A x \in Transactions : ts[x] = IF x = c THEN r ELSE tr[x]
  BY <1>1, <1>2
<1> HIDE DEF ts
<1>4. \A p \in Peers, a \in Addresses, x \in Transactions :
        /\ Carries(tr[x], p, a) <=> Carries(ts[x], p, a)
        /\ Owes(tr[x], p, a) <=> Owes(ts[x], p, a)
  BY <1>1, <1>3 DEF Carries, Owes
<1>5. \A x \in Transactions : ts[x].kind # "binder" => ts[x].from = User(ts[x].address)
  BY <1>1, <1>3
<1> QED
  BY <1>3, <1>4, <1>5 DEF ts

\* processTransactInternal ends a oneway call, and takes the next from asyncTodo.
LEMMA FinishOnewayIInv ==
  ASSUME IInv, NEW t \in Transactions, finishOneway(t)
  PROVE  IInv' /\ \E p \in Peers : KnownFault(p)
<1> DEFINE s == transaction[t]
           p == Other(s.from)
           a == s.address
           n == mNodeForAddress[p][a]
           done == Moved(t, "idle")
           next == NextTodo(p, a)
<1>1. s \in Transaction /\ TypeOK /\ CallsProxies /\ s.at = "running"
  BY Zenon DEF IInv, TypeOK, finishOneway
<1>2. p \in Peers /\ a \in Addresses /\ n \in Node
  BY <1>1, Sides DEF Transaction, TypeOK
<1>3. "idle" \in Places /\ SameCount(s.at, "idle")
  BY <1>1 DEF Places, SameCount
<1>4. CASE n.known /\ n.asyncNumber >= MaxAsyncNumber
  <2>1. /\ Move(t, "idle") /\ terminating' = terminating \cup {p}
        /\ UNCHANGED <<mNodeForAddress, mTerminated, fault, decStrong, handles,
                       local, dying, used, forfeited, renumbered, orphaned>>
    BY <1>4, Zenon DEF finishOneway, Move
  <2> QED
    BY <1>2, <1>3, <2>1, MovedIInv
<1>5. CASE ~(n.known /\ n.asyncNumber >= MaxAsyncNumber)
  <2> DEFINE m == IF n.known THEN [n EXCEPT !.asyncNumber = @ + 1] ELSE n
  <2>1. /\ SetNode(p, a, m)
        /\ \/ \E c \in next : transaction' = [done EXCEPT ![c].at = "accepted"]
           \/ transaction' = done
        /\ UNCHANGED <<mTerminated, fault, decStrong, handles, local, dying, used,
                       forfeited, renumbered, orphaned, terminating>>
    BY <1>5, Zenon DEF finishOneway
  <2>2. m \in Node /\ SameReferences(m, n)
    BY <1>2, NextNumber
  <2> HIDE DEF m
  <2>3. /\ mNodeForAddress' \in [Peers -> [Addresses -> Node]]
        /\ \A q \in Peers, c \in Addresses :
             SameReferences(mNodeForAddress'[q][c], mNodeForAddress[q][c])
    BY <1>1, <1>2, <2>1, <2>2, NodeNumbered
  <2>4. /\ done \in [Transactions -> Transaction]
        /\ \A q \in Peers, c \in Addresses, x \in Transactions :
             /\ Carries(transaction[x], q, c) <=> Carries(done[x], q, c)
             /\ Owes(transaction[x], q, c) <=> Owes(done[x], q, c)
        /\ \A x \in Transactions :
             done[x].kind # "binder" => done[x].from = User(done[x].address)
    BY <1>3, MovedQuietly
  <2>5. \A c \in next : c \in Transactions /\ done[c].at = "queued"
    <3>1. \A c \in next : c \in Transactions /\ transaction[c].at = "queued"
      BY DEF NextTodo, Todo, At
    <3>2. \A c \in next : done[c] = transaction[c]
      BY <1>1, <3>1 DEF Moved, TypeOK
    <3> QED
      BY <3>1, <3>2
  <2> HIDE DEF done, next
  <2>6. /\ transaction' \in [Transactions -> Transaction] /\ CallsProxies'
        /\ \A q \in Peers, c \in Addresses, x \in Transactions :
             /\ Carries(transaction[x], q, c) <=> Carries(transaction'[x], q, c)
             /\ Owes(transaction[x], q, c) <=> Owes(transaction'[x], q, c)
    <3>1. CASE transaction' = done
      BY <3>1, <2>4 DEF CallsProxies
    <3>2. CASE \E c \in next : transaction' = [done EXCEPT ![c].at = "accepted"]
      <4>1. PICK c \in next : transaction' = [done EXCEPT ![c].at = "accepted"]
        BY <3>2, Zenon
      <4>2. c \in Transactions /\ done[c].at = "queued"
        BY <2>5
      <4>3. /\ transaction' \in [Transactions -> Transaction]
            /\ \A q \in Peers, d \in Addresses, x \in Transactions :
                 /\ Carries(done[x], q, d) <=> Carries(transaction'[x], q, d)
                 /\ Owes(done[x], q, d) <=> Owes(transaction'[x], q, d)
            /\ \A x \in Transactions : transaction'[x].kind # "binder" =>
                 transaction'[x].from = User(transaction'[x].address)
        BY <4>1, <4>2, <2>4, TakenFromTodo
      <4> QED
        BY <4>3, <2>4 DEF CallsProxies
    <3> QED
      BY <2>1, <3>1, <3>2
  <2>7. TypeOK'
    BY <2>1, <2>3, <2>6, <1>1 DEF TypeOK
  <2> QED
    BY <1>2, <2>1, <2>3, <2>6, <2>7, QuietIInv DEF KnownFault
<1> QED
  BY <1>4, <1>5

=============================================================================
