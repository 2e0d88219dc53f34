--------------------------- MODULE RpcStateProofs ---------------------------
(***************************************************************************)
(* The reference counts of the two ends of a session agree, for every       *)
(* number of binders, addresses and transactions and for every bound; so    *)
(* the checks that abort the process in RpcState.cpp fail in no other way   *)
(* than the three OnlyKnownFaults names, and a node outlives its proxy only  *)
(* for a reference that was given up or could not be returned.              *)
(* Here: the steps that receive and return references, and the theorems.    *)
(***************************************************************************)
EXTENDS RpcSendProofs

\* While a proxy's reference is under way, the side of the binder still counts
\* the proxy itself, so that the call finds its node and its binder.
LEMMA OwnerKnows ==
  ASSUME IInv, NEW a \in Addresses, Transit(User(a), a) > 0, ~mTerminated[Owner(a)]
  PROVE  /\ mNodeForAddress[Owner(a)][a].known
         /\ mNodeForAddress[Owner(a)][a].sentRef
<1> DEFINE u == User(a)
           o == Owner(a)
<1>1. u \in Peers /\ o \in Peers /\ Other(u) = o /\ Other(o) = u /\ u = User(a)
  BY Sides
<1>2. TypeOK /\ AddressInv(a) /\ Transit(u, a) > 0 /\ ~mTerminated[o]
  BY DEF IInv
<1> HIDE DEF u, o
<1>3. /\ mNodeForAddress[u][a] \in Node /\ mNodeForAddress[o][a] \in Node
      /\ forfeited[u][a] \in [sent : Nat, recd : Nat]
      /\ forfeited[o][a] \in [sent : Nat, recd : Nat]
      /\ decStrong[u][a] \in Nat /\ decStrong[o][a] \in Nat
  BY <1>1, <1>2 DEF TypeOK
<1>4. Transit(u, a) \in Nat /\ Transit(o, a) \in Nat /\ Owed(u, a) \in Nat
  BY CountType DEF Transit, Owed, Outstanding, Unreturned
<1>5. mNodeForAddress[u][a].timesSent > 0 \/ forfeited[u][a].sent > 0
  <2>1. Balanced(u, a)
    BY <1>1, <1>2 DEF AddressInv
  <2> QED
    BY <1>1, <1>2, <1>3, <1>4, <2>1 DEF Balanced, Node
<1>6. mNodeForAddress[u][a].timesRecd > 0 \/ forfeited[u][a].recd > 0
  <2>1. CASE forfeited[u][a].sent > 0
    BY <2>1, <1>1, <1>2 DEF AddressInv, ProxyOwned
  <2>2. CASE mNodeForAddress[u][a].timesSent > 0
    <3>1. NodesOwned(u, a)
      BY <1>1, <1>2 DEF AddressInv
    <3>2. ~mTerminated[u] /\ mNodeForAddress[u][a].sentRef
      BY <2>2, <3>1 DEF NodesOwned
    <3>3. Alive(a)
      BY <1>1, <3>2 DEF Alive
    <3> QED
      BY <1>1, <3>2, <3>3, HandleKnown
  <2> QED
    BY <1>5, <2>1, <2>2
<1>7. NodesOwned(o, a) /\ Balanced(o, a)
  BY <1>1, <1>2 DEF AddressInv
<1>8. forfeited[o][a].sent = 0
  BY <1>2, <1>7 DEF NodesOwned
<1>9. mNodeForAddress[o][a].timesSent > 0
  BY <1>1, <1>3, <1>4, <1>6, <1>7, <1>8 DEF Balanced, Node
<1> QED
  BY <1>7, <1>9 DEF NodesOwned, o

\* onBinderEntering keeps the counts; the node and the binder of a target it looks
\* up are there, so it blames the other side for nothing.
LEMMA EnteringIInv ==
  ASSUME IInv, NEW t \in Transactions, onBinderEntering(t)
  PROVE  IInv' /\ UNCHANGED fault
<1>1. TypeOK /\ CallsProxies /\ transaction[t] \in Transaction
  BY DEF IInv, TypeOK
<1>2. PICK a \in Addresses, o \in Peers : a = transaction[t].address /\ o = transaction[t].from
  BY <1>1 DEF Transaction
<1>3. PICK p \in Peers : /\ p = Other(o) /\ o = Other(p) /\ o # p
                         /\ \A q \in Peers : q = p \/ q = o
  BY Sides
<1> DEFINE s == transaction[t]
           n == mNodeForAddress[p][a]
<1>4. s.at = "wire" /\ ~mTerminated[p] /\ n \in Node /\ AddressInv(a)
  <2>1. s.at = "wire" /\ ~mTerminated[p]
    BY <1>2, <1>3, Zenon DEF onBinderEntering
  <2> QED
    BY <1>1, <2>1 DEF TypeOK, IInv
<1>5. /\ Carries(s, o, a) /\ ~Carries(s, p, a)
      /\ ~Owes(s, p, a) /\ ~Owes(s, o, a)
  BY <1>2, <1>3, <1>4 DEF Carries, Owes
<1>6. p = Owner(a) => n.known /\ n.sentRef
  <2>1. Transit(o, a) > 0
    BY <1>5, CountPositive
  <2>2. p = Owner(a) => o = User(a)
    BY <1>3 DEF User
  <2> QED
    BY <1>4, <2>1, <2>2, OwnerKnows
<1>7. ~(n.known /\ s.kind # "binder" /\ ~Promotable(p, a))
  <2>1. CASE s.kind # "binder"
    <3>1. o = User(a) /\ p = Owner(a) /\ p # User(a)
      BY <1>1, <1>2, <1>3, <2>1, Sides DEF CallsProxies
    <3> QED
      BY <1>6, <3>1 DEF Promotable
  <2> QED
    BY <2>1
<1>8. CASE n.known
  <2> DEFINE m == [n EXCEPT !.timesRecd = @ + 1]
  <2>1. /\ SetNode(p, a, m) /\ Move(t, "entered")
        /\ handles' = IF p = User(a) /\ Alive(a) THEN handles \cup {a} ELSE handles
        /\ local' = IF p = Owner(a) /\ s.kind # "oneway"
                    THEN local \cup {BinderAt[a]} ELSE local
        /\ UNCHANGED <<mTerminated, fault, decStrong, dying, used, forfeited,
                       renumbered, orphaned, terminating>>
    BY <1>2, <1>3, <1>7, <1>8, Zenon DEF onBinderEntering
  <2>2. /\ m \in Node /\ m.known = n.known /\ m.sentRef = n.sentRef
        /\ m.timesSent = n.timesSent /\ m.timesRecd = n.timesRecd + 1
    BY <1>4, NodeReceived
  <2> HIDE DEF m
  <2>3. /\ mNodeForAddress' \in [Peers -> [Addresses -> Node]]
        /\ \A q \in Peers, c \in Addresses :
             mNodeForAddress'[q][c] = IF q = p /\ c = a THEN m ELSE mNodeForAddress[q][c]
    BY <1>1, <2>1, <2>2, NodeSet
  <2>4. /\ transaction' \in [Transactions -> Transaction] /\ CallsProxies'
        /\ \A q \in Peers, c \in Addresses : c # a =>
             Transit(q, c)' = Transit(q, c) /\ Owed(q, c)' = Owed(q, c)
    BY <1>2, <2>1, PlaceCounts DEF Places
  <2>5. /\ Transit(o, a) \in Nat /\ Transit(o, a)' \in Nat /\ Owed(p, a) \in Nat
        /\ Transit(o, a)' + 1 = Transit(o, a) /\ Transit(p, a)' = Transit(p, a)
        /\ Owed(p, a)' = Owed(p, a) + 1 /\ Owed(o, a)' = Owed(o, a)
    <3>1. \A q \in Peers :
            /\ Transit(q, a) \in Nat /\ Transit(q, a)' \in Nat
            /\ Owed(q, a) \in Nat /\ Owed(q, a)' \in Nat
            /\ Transit(q, a)' + Bit(Carries(s, q, a)) = Transit(q, a)
            /\ Owed(q, a)' + Bit(Owes(s, q, a))
                 = Owed(q, a) + Bit("entered" \in {"entered", "kept"} /\ q = Other(s.from))
      BY <1>2, <2>1, PlaceCounts DEF Places
    <3>2. /\ Bit(Carries(s, o, a)) = 1 /\ Bit(Carries(s, p, a)) = 0
          /\ Bit(Owes(s, p, a)) = 0 /\ Bit(Owes(s, o, a)) = 0
          /\ Bit("entered" \in {"entered", "kept"} /\ p = Other(s.from)) = 1
          /\ Bit("entered" \in {"entered", "kept"} /\ o = Other(s.from)) = 0
      BY <1>2, <1>3, <1>5, Zenon DEF Bit
    <3> HIDE DEF s
    <3> QED
      BY <3>1, <3>2
  <2>6. TypeOK'
    <3>1. handles' \subseteq Addresses /\ local' \subseteq Binders
      BY <1>1, <2>1, Sides DEF TypeOK
    <3> QED
      BY <1>1, <2>1, <2>3, <2>4, <3>1 DEF TypeOK
  <2>7. Alive(a)' <=> Alive(a)
    <3>1. mNodeForAddress'[User(a)][a].sentRef = mNodeForAddress[User(a)][a].sentRef
      BY <2>2, <2>3, Sides, Zenon
    <3>2. (a \in handles' => Alive(a)) /\ (a \in handles => a \in handles')
      BY <2>1 DEF Alive
    <3> QED
      BY <3>1, <3>2, Zenon DEF Alive
  <2>8. NodesOwned(p, a) /\ ProxyOwned(a)
    BY <1>4 DEF AddressInv
  <2>9. /\ m.timesRecd > 0 /\ m.known
        /\ m.sentRef <=> m.timesSent > 0
    <3>1. m.timesRecd > 0
      BY <1>4, <2>2 DEF Node
    <3>2. m.sentRef <=> m.timesSent > 0
      BY <2>2, <2>8, Zenon DEF NodesOwned
    <3> QED
      BY <1>8, <2>2, <3>1, <3>2, Zenon
  <2>10. /\ Held(o, a)' <=> Held(o, a)
         /\ Bit(Held(p, a)') = Bit(Held(p, a))
         /\ Bit(Held(p, a)) \in Nat
    <3>1. (Held(p, a)' <=> Held(p, a)) /\ (Held(o, a)' <=> Held(o, a))
      BY <2>1, <2>7, Zenon DEF Held
    <3>2. Bit(Held(p, a)') = Bit(Held(p, a))
      BY <3>1, Zenon DEF Bit
    <3> QED
      BY <3>1, <3>2, BitType
  <2>11. AddressInv(a)'
    <3>1. /\ m = mNodeForAddress'[p][a] /\ mNodeForAddress'[o][a] = mNodeForAddress[o][a]
          /\ UNCHANGED <<mTerminated, forfeited, decStrong, dying, orphaned>>
      BY <1>3, <2>1, <2>3
    <3>2. /\ decStrong[p][a] \in Nat /\ decStrong[o][a] \in Nat
          /\ n.timesSent \in Nat /\ n.timesRecd \in Nat
      BY <1>1, <1>4 DEF TypeOK, Node
    <3>3. /\ m.timesSent + Transit(p, a) + decStrong[p][a]
               = n.timesSent + Transit(p, a)' + decStrong'[p][a]
          /\ m.timesRecd + Transit(o, a)' + decStrong'[o][a]
               = n.timesRecd + Transit(o, a) + decStrong[o][a]
          /\ m.timesRecd + Owed(p, a) + Bit(Held(p, a))
               = n.timesRecd + Owed(p, a)' + Bit(Held(p, a)')
      <4> HIDE DEF n
      <4> QED
        BY <2>2, <2>5, <2>10, <3>1, <3>2
    <3>4. ~mTerminated[User(a)] => Gone(a)'
      BY <2>7, <2>8, <3>1 DEF ProxyOwned, Gone
    <3>5. m.known <=> (m.timesSent > 0 \/ m.timesRecd > 0)
      BY <2>9, Zenon
    <3> QED
      BY <1>1, <1>3, <1>4, <2>5, <2>6, <2>9, <2>10, <3>1, <3>3, <3>4, <3>5, CountStep, Zenon
  <2>12. \A c \in Addresses : c # a => (c \in handles' <=> c \in handles)
    BY <2>1
  <2> QED
    BY <2>1, <2>3, <2>4, <2>6, <2>11, <2>12, StepIInv
<1>9. CASE ~n.known
  <2> DEFINE m == [Unknown EXCEPT !.known = TRUE, !.timesRecd = 1]
  <2>1. p # Owner(a) /\ p = User(a) /\ o # User(a)
    BY <1>3, <1>6, <1>9, Sides
  <2>2. /\ SetNode(p, a, m) /\ Move(t, "idle")
        /\ handles' = handles \cup {a}
        /\ renumbered' = IF CalledBefore(a) THEN renumbered \cup {a} ELSE renumbered
        /\ UNCHANGED <<mTerminated, fault, decStrong, local, dying, used, forfeited,
                       orphaned, terminating>>
    BY <1>2, <1>3, <1>9, <2>1, Zenon DEF onBinderEntering
  <2>3. m \in Node /\ m.timesSent = 0 /\ m.timesRecd = 1
    BY Zenon DEF Node, Unknown
  <2>4. m.known /\ ~m.sentRef
    BY DEF Unknown
  <2> HIDE DEF m
  <2>5. /\ mNodeForAddress' \in [Peers -> [Addresses -> Node]]
        /\ \A q \in Peers, c \in Addresses :
             mNodeForAddress'[q][c] = IF q = p /\ c = a THEN m ELSE mNodeForAddress[q][c]
    BY <1>1, <2>2, <2>3, NodeSet
  <2>6. /\ transaction' \in [Transactions -> Transaction] /\ CallsProxies'
        /\ \A q \in Peers, c \in Addresses : c # a =>
             Transit(q, c)' = Transit(q, c) /\ Owed(q, c)' = Owed(q, c)
    BY <1>2, <2>2, PlaceCounts DEF Places
  <2>7. /\ Transit(o, a) \in Nat /\ Transit(o, a)' \in Nat /\ Owed(p, a) \in Nat
        /\ Transit(o, a)' + 1 = Transit(o, a) /\ Transit(p, a)' = Transit(p, a)
        /\ Owed(p, a)' = Owed(p, a) /\ Owed(o, a)' = Owed(o, a)
    <3>1. \A q \in Peers :
            /\ Transit(q, a) \in Nat /\ Transit(q, a)' \in Nat
            /\ Owed(q, a) \in Nat /\ Owed(q, a)' \in Nat
            /\ Transit(q, a)' + Bit(Carries(s, q, a)) = Transit(q, a)
            /\ Owed(q, a)' + Bit(Owes(s, q, a))
                 = Owed(q, a) + Bit("idle" \in {"entered", "kept"} /\ q = Other(s.from))
      BY <1>2, <2>2, PlaceCounts DEF Places
    <3>2. /\ Bit(Carries(s, o, a)) = 1 /\ Bit(Carries(s, p, a)) = 0
          /\ Bit(Owes(s, p, a)) = 0 /\ Bit(Owes(s, o, a)) = 0
          /\ \A q : Bit("idle" \in {"entered", "kept"} /\ q = Other(s.from)) = 0
      BY <1>2, <1>3, <1>5, Zenon DEF Bit
    <3> HIDE DEF s
    <3> QED
      BY <3>1, <3>2
  <2>8. TypeOK'
    <3>1. handles' \subseteq Addresses /\ renumbered' \subseteq Addresses
      BY <1>1, <2>2 DEF TypeOK
    <3> QED
      BY <1>1, <2>2, <2>5, <2>6, <3>1 DEF TypeOK
  <2>9. /\ n.timesSent = 0 /\ n.timesRecd = 0 /\ ~Held(p, a)
        /\ a \notin dying /\ a \notin orphaned
    <3>1. NodesOwned(p, a) /\ ReceivedIsOwed(p, a)
      BY <1>4 DEF AddressInv
    <3>2. n.timesSent = 0 /\ n.timesRecd = 0
      BY <1>4, <1>9, <3>1 DEF NodesOwned, Node
    <3>3. n.timesRecd = Owed(p, a) + Bit(Held(p, a))
      BY <1>4, <3>1, Zenon DEF ReceivedIsOwed, Held
    <3>4. Bit(Held(p, a)) = 0
      BY <2>7, <3>2, <3>3, BitType
    <3>5. ~Held(p, a)
      BY <3>4 DEF Bit
    <3> QED
      BY <2>1, <3>2, <3>5 DEF Held
  <2>10. /\ Held(p, a)' /\ ~Held(o, a) /\ ~Held(o, a)'
         /\ Bit(Held(p, a)') = 1 /\ Bit(Held(p, a)) = 0
    <3>1. Held(p, a)' /\ ~Held(o, a) /\ ~Held(o, a)'
      BY <2>1, <2>2 DEF Held, Alive
    <3> QED
      BY <2>9, <3>1, Zenon DEF Bit
  <2>11. AddressInv(a)'
    <3>1. /\ m = mNodeForAddress'[p][a] /\ mNodeForAddress'[o][a] = mNodeForAddress[o][a]
          /\ UNCHANGED <<mTerminated, forfeited, decStrong, dying, orphaned>>
      BY <1>3, <2>2, <2>5
    <3>2. decStrong[p][a] \in Nat /\ decStrong[o][a] \in Nat
      BY <1>1 DEF TypeOK
    <3>3. /\ m.timesSent + Transit(p, a) + decStrong[p][a]
               = n.timesSent + Transit(p, a)' + decStrong'[p][a]
          /\ m.timesRecd + Transit(o, a)' + decStrong'[o][a]
               = n.timesRecd + Transit(o, a) + decStrong[o][a]
          /\ m.timesRecd + Owed(p, a) + Bit(Held(p, a))
               = n.timesRecd + Owed(p, a)' + Bit(Held(p, a)')
      <4> HIDE DEF n
      <4> QED
        <5>1. m.timesSent = n.timesSent /\ UNCHANGED decStrong
          BY <2>3, <2>9, <3>1
        <5>2. m.timesRecd + Transit(o, a)' + decStrong[o][a]
                = n.timesRecd + Transit(o, a) + decStrong[o][a]
          BY <2>3, <2>7, <2>9, <3>2
        <5>3. m.timesRecd + Owed(p, a) + Bit(Held(p, a))
                = n.timesRecd + Owed(p, a)' + Bit(Held(p, a)')
          <6> DEFINE h0 == Bit(Held(p, a))
                     h1 == Bit(Held(p, a)')
          <6>1. h0 = 0 /\ h1 = 1
            BY <2>10, Zenon
          <6> HIDE DEF h0, h1
          <6>2. m.timesRecd + Owed(p, a) + h0 = n.timesRecd + Owed(p, a)' + h1
            BY <2>3, <2>7, <2>9, <6>1
          <6> QED
            BY <6>2, Zenon DEF h0, h1
        <5> QED
          BY <2>7, <5>1, <5>2, <5>3, Zenon
    <3>4. /\ m.known <=> (m.timesSent > 0 \/ m.timesRecd > 0)
          /\ m.sentRef <=> m.timesSent > 0
      <4>1. m.timesRecd > 0 /\ ~(m.timesSent > 0)
        BY <2>3
      <4> QED
        BY <2>4, <4>1, Zenon
    <3>5. Gone(a)'
      BY <2>9, <3>1 DEF Gone
    <3> QED
      BY <1>1, <1>3, <1>4, <2>7, <2>8, <2>10, <3>1, <3>3, <3>4, <3>5, CountStep, Zenon
  <2>12. \A c \in Addresses : c # a => (c \in handles' <=> c \in handles)
    BY <2>2
  <2> QED
    BY <2>2, <2>5, <2>6, <2>8, <2>11, <2>12, StepIInv
<1> QED
  BY <1>8, <1>9

\* The thread inside onBinderEntering gives its reference back.
LEMMA ReturnReferenceIInv ==
  ASSUME IInv, NEW t \in Transactions, returnReference(t)
  PROVE  IInv' /\ \E p \in Peers : KnownFault(p)
<1>1. TypeOK /\ CallsProxies /\ transaction[t] \in Transaction
  BY DEF IInv, TypeOK
<1>2. PICK a \in Addresses, o \in Peers : a = transaction[t].address /\ o = transaction[t].from
  BY <1>1 DEF Transaction
<1>3. PICK p \in Peers : /\ p = Other(o) /\ o = Other(p) /\ o # p
                         /\ \A q \in Peers : q = p \/ q = o
  BY Sides
<1> DEFINE s == transaction[t]
           n == mNodeForAddress[p][a]
<1>4. s.at = "entered" /\ n \in Node /\ AddressInv(a)
  <2>1. s.at = "entered"
    BY DEF returnReference
  <2> QED
    BY <1>1, <2>1 DEF TypeOK, IInv
<1>5. /\ Owes(s, p, a) /\ ~Owes(s, o, a)
      /\ ~Carries(s, p, a) /\ ~Carries(s, o, a)
  BY <1>2, <1>3, <1>4 DEF Carries, Owes
<1>6. mTerminated[p] \/ n.timesRecd > 0
  <2>1. Owed(p, a) \in Nat /\ Owed(p, a) > 0
    BY <1>5, CountPositive
  <2>2. ~mTerminated[p] => n.timesRecd = Owed(p, a) + Bit(Held(p, a))
    BY <1>4, Zenon DEF AddressInv, ReceivedIsOwed, Held
  <2> QED
    BY <2>1, <2>2, BitType
<1>7. DecStrongFault(p, a) \in {"none", "pending async"}
  BY <1>6, DecStrongChecks, Zenon
<1>10. CASE /\ Move(t, "kept")
            /\ UNCHANGED <<mNodeForAddress, mTerminated, fault, decStrong, handles,
                           local, dying, used, forfeited, renumbered, orphaned,
                           terminating>>
  <2>1. "kept" \in Places /\ SameCount(s.at, "kept")
    BY <1>4 DEF Places, SameCount
  <2> QED
    BY <1>10, <2>1, MovedIInv
<1> DEFINE Returned ==
             IF DecStrongFault(p, a) # "none"
             THEN Fail(p, DecStrongFault(p, a))
             ELSE /\ sendDecStrong(p, a)
                  /\ Move(t, IF s.kind = "oneway" THEN "accepted" ELSE "idle")
                  /\ UNCHANGED <<mTerminated, fault, handles, local, dying, used,
                                 forfeited, renumbered, orphaned, terminating>>
<1>11. \/ /\ Move(t, "kept")
          /\ UNCHANGED <<mNodeForAddress, mTerminated, fault, decStrong, handles,
                         local, dying, used, forfeited, renumbered, orphaned,
                         terminating>>
       \/ Returned
  BY <1>2, <1>3, Zenon DEF returnReference
<1>8. CASE Returned /\ DecStrongFault(p, a) = "pending async"
  <2>1. Fail(p, "pending async")
    BY <1>8, Zenon
  <2> QED
    BY <2>1, FailIInv, Zenon DEF Fail, Faults, KnownFault
<1>9. CASE Returned /\ DecStrongFault(p, a) = "none"
  <2>1. PICK place \in {"accepted", "idle"} :
          /\ sendDecStrong(p, a) /\ Move(t, place)
          /\ UNCHANGED <<mTerminated, fault, handles, local, dying, used, forfeited,
                         renumbered, orphaned, terminating>>
    BY <1>9
  <2>2. place \in Places /\ place \notin {"entered", "kept"} /\ place \notin {"leaving", "unsent", "wire"}
    BY DEF Places
  <2>3. /\ transaction' \in [Transactions -> Transaction] /\ CallsProxies'
        /\ \A q \in Peers, c \in Addresses : c # a =>
             Transit(q, c)' = Transit(q, c) /\ Owed(q, c)' = Owed(q, c)
    BY <1>2, <2>1, <2>2, PlaceCounts
  <2>4. /\ \A q \in Peers : Transit(q, a)' = Transit(q, a)
        /\ Owed(p, a) \in Nat /\ Owed(p, a)' \in Nat
        /\ Owed(p, a) = Owed(p, a)' + 1 /\ Owed(o, a)' = Owed(o, a)
    <3>1. \A q \in Peers :
            /\ Transit(q, a) \in Nat /\ Transit(q, a)' \in Nat
            /\ Owed(q, a) \in Nat /\ Owed(q, a)' \in Nat
            /\ Transit(q, a)' + Bit(Carries(s, q, a)) = Transit(q, a)
            /\ Owed(q, a)' + Bit(Owes(s, q, a))
                 = Owed(q, a) + Bit(place \in {"entered", "kept"} /\ q = Other(s.from))
      BY <1>2, <2>1, <2>2, PlaceCounts
    <3>2. /\ Bit(Carries(s, o, a)) = 0 /\ Bit(Carries(s, p, a)) = 0
          /\ Bit(Owes(s, p, a)) = 1 /\ Bit(Owes(s, o, a)) = 0
          /\ \A q : Bit(place \in {"entered", "kept"} /\ q = Other(s.from)) = 0
      BY <1>5, <2>2, Zenon DEF Bit
    <3> HIDE DEF s
    <3> QED
      BY <1>3, <3>1, <3>2
  <2>5. CASE mTerminated[p]
    <3>1. UNCHANGED <<mNodeForAddress, decStrong>>
      BY <2>1, <2>5 DEF sendDecStrong
    <3>2. TypeOK'
      BY <1>1, <2>1, <2>3, <3>1 DEF TypeOK
    <3>3. (Alive(a)' <=> Alive(a)) /\ (Held(o, a)' <=> Held(o, a))
      BY <2>1, <3>1, Zenon DEF Alive, Held
    <3>4. ~mTerminated[User(a)] => Gone(a)'
      BY <1>4, <2>1, <3>3 DEF AddressInv, ProxyOwned, Gone
    <3>5. AddressInv(a)'
      BY <1>3, <2>1, <2>4, <2>5, <3>1, <3>3, <3>4, TerminatedCounts
    <3> QED
      BY <2>1, <2>3, <3>1, <3>2, <3>5, StepIInv DEF KnownFault
  <2>6. CASE ~mTerminated[p]
    <3>1. /\ mNodeForAddress' \in [Peers -> [Addresses -> Node]]
          /\ decStrong' \in [Peers -> [Addresses -> Nat]]
          /\ \A q \in Peers, c \in Addresses :
               q # p \/ c # a => mNodeForAddress'[q][c] = mNodeForAddress[q][c]
          /\ \A q \in Peers, c \in Addresses :
               q # o \/ c # a => decStrong'[q][c] = decStrong[q][c]
          /\ mNodeForAddress'[p][a].sentRef <=> n.sentRef
      BY <1>3, <1>6, <2>1, <2>6, SentDecStrong
    <3>2. TypeOK'
      BY <1>1, <2>1, <2>3, <3>1 DEF TypeOK
    <3>3. Alive(a)' <=> Alive(a)
      <4>1. mNodeForAddress'[User(a)][a].sentRef <=> mNodeForAddress[User(a)][a].sentRef
        <5>1. CASE User(a) = p
          BY <3>1, <5>1, Zenon
        <5>2. CASE User(a) # p
          BY <3>1, <5>2, Sides
        <5> QED
          BY <5>1, <5>2
      <4> QED
        BY <2>1, <4>1, Zenon DEF Alive
    <3>4. \A q \in Peers : Held(q, a)' <=> Held(q, a)
      BY <2>1, <3>3, Zenon DEF Held
    <3>5. ~mTerminated[User(a)] => Gone(a)'
      BY <1>4, <2>1, <3>3 DEF AddressInv, ProxyOwned, Gone
    <3>6. Owed(p, a) + Bit(Held(p, a)) = Owed(p, a)' + Bit(Held(p, a)') + 1
      <4>1. Bit(Held(p, a)') = Bit(Held(p, a))
        BY <3>4, Zenon DEF Bit
      <4> DEFINE g == Bit(Held(p, a))
      <4>2. g \in Nat
        BY BitType
      <4> HIDE DEF g
      <4>3. Owed(p, a) + g = Owed(p, a)' + g + 1
        BY <2>4, <4>2
      <4> QED
        BY <4>1, <4>3, Zenon DEF g
    <3>7. AddressInv(a)'
      BY <1>3, <1>6, <2>1, <2>4, <2>6, <3>2, <3>4, <3>5, <3>6, DecStrongCounts
    <3> QED
      BY <2>1, <2>3, <3>1, <3>2, <3>7, StepIInv DEF KnownFault
  <2> QED
    BY <2>5, <2>6
<1> QED
  BY <1>7, <1>8, <1>9, <1>10, <1>11, Zenon

\* A proxy that died gives its reference back, or is left without.
LEMMA LastStrongRefIInv ==
  ASSUME IInv, NEW a \in Addresses, onLastStrongRef(a)
  PROVE  IInv' /\ \E p \in Peers : KnownFault(p)
<1>1. PICK p \in Peers, o \in Peers : /\ p = User(a) /\ o = Other(p) /\ o # p
                                      /\ p = Other(o) /\ o # User(a)
  BY Sides
<1> DEFINE n == mNodeForAddress[p][a]
<1>2. TypeOK /\ CallsProxies /\ AddressInv(a) /\ a \in dying
  BY DEF IInv, onLastStrongRef
<1>3. mTerminated[p] \/ n.timesRecd > 0
  BY <1>1, <1>2, HandleKnown, Zenon
<1>4. DecStrongFault(p, a) \in {"none", "pending async"}
  BY <1>3, DecStrongChecks, Zenon
<1> DEFINE Orphaned ==
             /\ dying' = dying \ {a} /\ orphaned' = orphaned \cup {a}
             /\ UNCHANGED <<mNodeForAddress, mTerminated, fault, transaction,
                            decStrong, handles, local, used, forfeited, renumbered,
                            terminating>>
           Returned ==
             IF DecStrongFault(p, a) # "none"
             THEN Fail(p, DecStrongFault(p, a))
             ELSE /\ sendDecStrong(p, a)
                  /\ dying' = dying \ {a}
                  /\ UNCHANGED <<mTerminated, fault, transaction, handles, local,
                                 used, forfeited, renumbered, orphaned, terminating>>
<1>7. Orphaned \/ Returned
  BY <1>1, Zenon DEF onLastStrongRef
<1>8. CASE Orphaned
  <2>1. TypeOK'
    <3>1. dying' \subseteq Addresses /\ orphaned' \subseteq Addresses
      BY <1>2, <1>8 DEF TypeOK
    <3> QED
      BY <1>2, <1>8, <3>1, Zenon DEF TypeOK
  <2>2. /\ \A q \in Peers, c \in Addresses :
             Transit(q, c)' = Transit(q, c) /\ Owed(q, c)' = Owed(q, c)
        /\ CallsProxies'
    BY <1>2, <1>8, StillCounts DEF CallsProxies
  <2>3. /\ Alive(a)' <=> Alive(a)
        /\ a \notin dying' /\ a \in orphaned'
    BY <1>8 DEF Alive
  <2>4. \A q \in Peers : Held(q, a)' <=> Held(q, a)
    BY <1>2, <2>3, Zenon DEF Held
  <2>5. ProxyOwned(a)'
    BY <1>2, <1>8, <2>3 DEF AddressInv, ProxyOwned, Gone
  <2>6. \A q \in Peers : Balanced(q, a)' /\ NodesOwned(q, a)'
    <3>1. \A q \in Peers : Balanced(q, a) /\ NodesOwned(q, a)
      BY <1>2 DEF AddressInv
    <3>2. \A q \in Peers : Balanced(q, a)'
      BY <1>8, <2>2, <3>1, Zenon DEF Balanced
    <3>3. \A q \in Peers : NodesOwned(q, a)'
      BY <1>8, <3>1, Zenon DEF NodesOwned
    <3> QED
      BY <3>2, <3>3
  <2>7. ASSUME NEW q \in Peers PROVE ReceivedIsOwed(q, a)'
    <3>1. ReceivedIsOwed(q, a)
      BY <1>2 DEF AddressInv
    <3>2. Bit(Held(q, a)') = Bit(Held(q, a))
      BY <2>4, Zenon DEF Bit
    <3> QED
      BY <1>8, <2>2, <3>1, <3>2, Zenon DEF ReceivedIsOwed
  <2>8. AddressInv(a)'
    BY <2>5, <2>6, <2>7, Zenon DEF AddressInv
  <2>9. \A c \in Addresses : c # a => /\ c \in dying' <=> c \in dying
                                      /\ c \in orphaned' <=> c \in orphaned
    BY <1>8
  <2> QED
    BY <1>8, <2>1, <2>2, <2>8, <2>9, StepIInv DEF KnownFault
<1>5. CASE Returned /\ DecStrongFault(p, a) = "pending async"
  <2>1. Fail(p, "pending async")
    BY <1>5, Zenon
  <2> QED
    BY <2>1, FailIInv, Zenon DEF Fail, Faults, KnownFault
<1>6. CASE Returned /\ DecStrongFault(p, a) = "none"
  <2>1. /\ sendDecStrong(p, a) /\ dying' = dying \ {a}
        /\ UNCHANGED <<mTerminated, fault, transaction, handles, local, used,
                       forfeited, renumbered, orphaned, terminating>>
    BY <1>6, Zenon
  <2>2. /\ \A q \in Peers, c \in Addresses :
             Transit(q, c)' = Transit(q, c) /\ Owed(q, c)' = Owed(q, c)
        /\ CallsProxies'
    BY <1>2, <2>1, StillCounts DEF CallsProxies
  <2>3. ~Held(o, a) /\ ~Held(o, a)' /\ a \notin dying'
    BY <1>1, <2>1, Zenon DEF Held
  <2>4. \A c \in Addresses : c # a => (c \in dying' <=> c \in dying)
    BY <2>1
  <2>5. CASE mTerminated[p]
    <3>1. UNCHANGED <<mNodeForAddress, decStrong>>
      BY <2>1, <2>5 DEF sendDecStrong
    <3>2. TypeOK'
      BY <1>2, <2>1, <3>1 DEF TypeOK
    <3>3. AddressInv(a)'
      <4>1. ~mTerminated[User(a)] => Gone(a)'
        BY <1>1, <2>5, Zenon
      <4> QED
        BY <1>1, <2>1, <2>2, <2>3, <2>5, <3>1, <4>1, TerminatedCounts, Zenon
    <3> QED
      BY <2>1, <2>2, <2>4, <3>1, <3>2, <3>3, StepIInv DEF KnownFault
  <2>6. CASE ~mTerminated[p]
    <3>8. sendDecStrong(p, a) /\ o = Other(p) /\ n.timesRecd > 0 /\ ~mTerminated[p]
      BY <1>1, <1>3, <2>1, <2>6, Zenon
    <3>1. /\ mNodeForAddress' \in [Peers -> [Addresses -> Node]]
          /\ decStrong' \in [Peers -> [Addresses -> Nat]]
          /\ \A q \in Peers, c \in Addresses :
               q # p \/ c # a => mNodeForAddress'[q][c] = mNodeForAddress[q][c]
          /\ \A q \in Peers, c \in Addresses :
               q # o \/ c # a => decStrong'[q][c] = decStrong[q][c]
          /\ mNodeForAddress'[p][a].sentRef <=> n.sentRef
      BY <3>8, SentDecStrong
    <3>2. TypeOK'
      <4>1. dying' \subseteq Addresses
        BY <1>2, <2>1 DEF TypeOK
      <4> QED
        BY <1>2, <2>1, <3>1, <4>1, Zenon DEF TypeOK
    <3>3. ~Alive(a) /\ a \notin orphaned
      BY <1>1, <1>2, <2>6, Zenon DEF AddressInv, ProxyOwned, Gone
    <3>4. ~Alive(a)'
      BY <1>1, <2>1, <3>1, <3>3, Zenon DEF Alive
    <3>5. Held(p, a) /\ ~Held(p, a)'
      BY <1>1, <1>2, <2>1, <2>3, <3>3, <3>4, Zenon DEF Held
    <3>9. Gone(a)'
      BY <2>1, <2>3, <3>3, Zenon DEF Gone
    <3>6. Owed(p, a) + Bit(Held(p, a)) = Owed(p, a)' + Bit(Held(p, a)') + 1
      <4>1. Bit(Held(p, a)) = 1 /\ Bit(Held(p, a)') = 0
        BY <3>5, Zenon DEF Bit
      <4> DEFINE g == Bit(Held(p, a))
                 h == Bit(Held(p, a)')
      <4>2. g = 1 /\ h = 0 /\ Owed(p, a) \in Nat /\ Owed(p, a)' = Owed(p, a)
        BY <2>2, <4>1, CountType DEF Owed, Unreturned
      <4> HIDE DEF g, h
      <4>3. Owed(p, a) + g = Owed(p, a)' + h + 1
        BY <4>2
      <4> QED
        BY <4>3, Zenon DEF g, h
    <3>7. AddressInv(a)'
      BY <1>1, <1>3, <2>1, <2>2, <2>3, <2>6, <3>2, <3>6, <3>9, DecStrongCounts, Zenon
    <3> QED
      BY <2>1, <2>2, <2>4, <3>1, <3>2, <3>7, StepIInv DEF KnownFault
  <2> QED
    BY <2>5, <2>6
<1> QED
  BY <1>4, <1>5, <1>6, <1>7, <1>8, Zenon

\* DEC_STRONG finds a node that was sent, and its binder alive.
LEMMA ProcessDecStrongIInv ==
  ASSUME IInv, NEW p \in Peers, NEW a \in Addresses, processDecStrong(p, a)
  PROVE  IInv' /\ \E q \in Peers : KnownFault(q)
<1>1. PICK o \in Peers : o = Other(p) /\ o # p /\ p = Other(o)
  BY Sides
<1> DEFINE n == mNodeForAddress[p][a]
           k == [n EXCEPT !.timesSent = @ - 1]
           m == tryEraseNode(k)
<1>2. /\ TypeOK /\ CallsProxies /\ AddressInv(a) /\ n \in Node
      /\ ~mTerminated[p] /\ decStrong[p][a] > 0
  <2>1. ~mTerminated[p] /\ decStrong[p][a] > 0
    BY Zenon DEF processDecStrong
  <2>2. TypeOK /\ CallsProxies /\ AddressInv(a) /\ n \in Node
    BY DEF IInv, TypeOK
  <2> QED
    BY <2>1, <2>2
<1>3. n.timesSent > 0 /\ n.known /\ n.sentRef
  <2>1. /\ mNodeForAddress[o][a].timesRecd \in Nat /\ forfeited[o][a].recd \in Nat
        /\ decStrong[p][a] \in Nat /\ n.timesSent \in Nat /\ Transit(p, a) \in Nat
    BY <1>2, CountType DEF TypeOK, Node, Transit, Outstanding
  <2>2. Balanced(p, a) /\ NodesOwned(p, a)
    BY <1>2 DEF AddressInv
  <2>3. forfeited[p][a].sent = 0
    BY <1>2, <2>2 DEF NodesOwned
  <2>4. n.timesSent > 0
    BY <1>1, <1>2, <2>1, <2>2, <2>3 DEF Balanced
  <2> QED
    BY <2>2, <2>4 DEF NodesOwned
<1>4. Promotable(p, a) /\ (p = User(a) => Alive(a))
  BY <1>3, Zenon DEF Promotable, Alive
<1>7. ~(~n.known \/ ~Promotable(p, a) \/ n.timesSent = 0) /\ n.sentRef
  BY <1>2, <1>3, <1>4 DEF Node
<1>5. CASE PendingAsync(p, a, k)
  <2>1. Fail(p, "pending async")
    BY <1>2, <1>7, <1>5, Zenon DEF processDecStrong
  <2> QED
    BY <2>1, FailIInv, Zenon DEF Fail, Faults, KnownFault
<1>6. CASE ~PendingAsync(p, a, k)
  <2>1. /\ SetNode(p, a, m)
        /\ decStrong' = [decStrong EXCEPT ![p][a] = @ - 1]
        /\ dying' = IF p = User(a) /\ k.timesSent = 0 /\ a \notin handles
                    THEN dying \cup {a} ELSE dying
        /\ UNCHANGED <<mTerminated, fault, transaction, handles, local, used,
                       forfeited, renumbered, orphaned, terminating>>
    BY <1>2, <1>7, <1>6, Zenon DEF processDecStrong
  <2>2. /\ k.timesSent = n.timesSent - 1
        /\ m \in Node /\ m.timesSent = n.timesSent - 1
        /\ m.timesRecd = n.timesRecd
        /\ m.known <=> (m.timesSent > 0 \/ m.timesRecd > 0)
        /\ m.sentRef <=> m.timesSent > 0
    BY <1>2, <1>3, NodeUnsent
  <2>3. k.timesSent = 0 <=> ~(m.timesSent > 0)
    BY <1>2, <1>3, <2>2 DEF Node
  <2> HIDE DEF m, k
  <2>4. /\ mNodeForAddress' \in [Peers -> [Addresses -> Node]]
        /\ \A q \in Peers, c \in Addresses :
             mNodeForAddress'[q][c] = IF q = p /\ c = a THEN m ELSE mNodeForAddress[q][c]
    BY <1>2, <2>1, <2>2, NodeSet
  <2>5. /\ decStrong' \in [Peers -> [Addresses -> Nat]]
        /\ decStrong[p][a] \in Nat /\ decStrong[o][a] \in Nat
        /\ decStrong'[p][a] = decStrong[p][a] - 1
        /\ \A q \in Peers, c \in Addresses :
             q # p \/ c # a => decStrong'[q][c] = decStrong[q][c]
    <3>1. decStrong[p][a] - 1 \in Nat /\ decStrong \in [Peers -> [Addresses -> Nat]]
      BY <1>2 DEF TypeOK
    <3> QED
      BY <2>1, <3>1
  <2>6. /\ \A q \in Peers, c \in Addresses :
             Transit(q, c)' = Transit(q, c) /\ Owed(q, c)' = Owed(q, c)
        /\ CallsProxies'
    BY <1>2, <2>1, StillCounts DEF CallsProxies
  <2>7. TypeOK'
    <3>1. dying' \subseteq Addresses
      BY <1>2, <2>1 DEF TypeOK
    <3> QED
      BY <1>2, <2>1, <2>4, <2>5, <3>1 DEF TypeOK
  <2>8. /\ Held(p, a)' <=> Held(p, a)
        /\ Held(o, a)' <=> Held(o, a)
        /\ ~mTerminated[User(a)] => Gone(a)'
    <3>1. CASE p = User(a)
      <4>1. a \notin dying /\ a \notin orphaned /\ Alive(a) /\ o # User(a)
        BY <1>1, <1>2, <1>4, <3>1 DEF AddressInv, ProxyOwned, Gone
      <4>2. Alive(a)' <=> (a \in handles \/ m.timesSent > 0)
        BY <2>1, <2>2, <2>4, <3>1, Zenon DEF Alive
      <4>3. a \in dying' <=> (~(m.timesSent > 0) /\ a \notin handles)
        BY <2>1, <2>3, <3>1, <4>1
      <4> QED
        BY <2>1, <3>1, <4>1, <4>2, <4>3, Zenon DEF Held, Gone
    <3>2. CASE p # User(a)
      <4>1. Alive(a)' <=> Alive(a)
        BY <2>1, <2>4, <3>2, Sides DEF Alive
      <4>2. dying' = dying
        BY <2>1, <3>2
      <4>3. ~mTerminated[User(a)] => Gone(a)
        BY <1>2 DEF AddressInv, ProxyOwned
      <4> QED
        BY <2>1, <4>1, <4>2, <4>3, Zenon DEF Held, Gone
    <3> QED
      BY <3>1, <3>2
  <2>9. AddressInv(a)'
    <3>1. /\ m = mNodeForAddress'[p][a] /\ mNodeForAddress'[o][a] = mNodeForAddress[o][a]
      BY <1>1, <2>4
    <3>2. Bit(Held(p, a)') = Bit(Held(p, a))
      BY <2>8, Zenon DEF Bit
    <3>3. m.timesSent + Transit(p, a) + decStrong[p][a]
            = n.timesSent + Transit(p, a)' + decStrong'[p][a]
      <4> DEFINE T == Transit(p, a)   D == decStrong[p][a]   E == decStrong'[p][a]
                 x == n.timesSent   y == m.timesSent
      <4>1. T \in Nat /\ D \in Nat /\ E = D - 1 /\ x \in Nat /\ y = x - 1
        BY <1>2, <2>2, <2>5, CountType DEF Node, Transit, Outstanding
      <4> HIDE DEF T, D, E, x, y
      <4>2. y + T + D = x + T + E
        BY <4>1
      <4> QED
        BY <2>6, <4>2, Zenon DEF T, D, E, x, y
    <3>4. /\ m.timesRecd + Transit(o, a)' + decStrong'[o][a]
               = n.timesRecd + Transit(o, a) + decStrong[o][a]
          /\ m.timesRecd + Owed(p, a) + Bit(Held(p, a))
               = n.timesRecd + Owed(p, a)' + Bit(Held(p, a)')
      BY <1>1, <2>2, <2>5, <2>6, <3>2, Zenon
    <3> QED
      BY <1>1, <1>2, <2>1, <2>2, <2>6, <2>7, <2>8, <3>1, <3>3, <3>4, CountStep, Zenon
  <2>10. \A c \in Addresses : c # a => (c \in dying' <=> c \in dying)
    BY <2>1
  <2> QED
    BY <2>1, <2>4, <2>5, <2>6, <2>7, <2>9, <2>10, StepIInv DEF KnownFault
<1> QED
  BY <1>5, <1>6

\* The user's code lets go of a proxy.
LEMMA DropProxyIInv ==
  ASSUME IInv, NEW a \in Addresses, DropProxy(a)
  PROVE  IInv' /\ UNCHANGED fault
<1>1. PICK p \in Peers, o \in Peers : /\ p = User(a) /\ o = Other(p) /\ o # p
                                      /\ p = Other(o) /\ o # User(a)
  BY Sides
<1>2. TypeOK /\ CallsProxies /\ AddressInv(a) /\ a \in handles
  BY DEF IInv, DropProxy
<1>3. /\ handles' = handles \ {a}
      /\ dying' = IF mNodeForAddress[p][a].sentRef THEN dying ELSE dying \cup {a}
      /\ UNCHANGED <<mNodeForAddress, mTerminated, fault, transaction, decStrong,
                     local, used, forfeited, renumbered, orphaned, terminating>>
  BY <1>1, Zenon DEF DropProxy
<1>4. /\ \A q \in Peers, c \in Addresses :
           Transit(q, c)' = Transit(q, c) /\ Owed(q, c)' = Owed(q, c)
      /\ CallsProxies'
  BY <1>2, <1>3, StillCounts DEF CallsProxies
<1>5. TypeOK'
  <2>1. handles' \subseteq Addresses /\ dying' \subseteq Addresses
    BY <1>2, <1>3 DEF TypeOK
  <2> QED
    BY <1>2, <1>3, <2>1, Zenon DEF TypeOK
<1>6. ~Held(o, a) /\ ~Held(o, a)'
  BY <1>1, Zenon DEF Held
<1>7. Alive(a)' <=> mNodeForAddress[p][a].sentRef
  BY <1>1, <1>3, Zenon DEF Alive
<1>8. AddressInv(a)'
  <2>1. CASE mTerminated[p]
    <3>1. ~mTerminated[User(a)] => Gone(a)'
      BY <1>1, <2>1, Zenon
    <3> QED
      BY <1>1, <1>3, <1>4, <1>6, <2>1, <3>1, TerminatedCounts, Zenon
  <2>2. CASE ~mTerminated[p]
    <3>1. Alive(a) /\ a \notin dying /\ a \notin orphaned
      BY <1>1, <1>2, <2>2, Zenon DEF AddressInv, ProxyOwned, Gone, Alive
    <3>2. a \in dying' <=> ~mNodeForAddress[p][a].sentRef
      BY <1>3, <3>1
    <3>3. (Held(p, a)' <=> Held(p, a)) /\ Gone(a)'
      BY <1>1, <1>3, <1>7, <3>1, <3>2, Zenon DEF Held, Gone
    <3>4. \A q \in Peers : Balanced(q, a)' /\ NodesOwned(q, a)'
      <4>1. \A q \in Peers : Balanced(q, a) /\ NodesOwned(q, a)
        BY <1>2 DEF AddressInv
      <4>2. \A q \in Peers : Balanced(q, a)'
        BY <1>3, <1>4, <4>1, Zenon DEF Balanced
      <4>3. \A q \in Peers : NodesOwned(q, a)'
        BY <1>3, <4>1, Zenon DEF NodesOwned
      <4> QED
        BY <4>2, <4>3
    <3>5. \A q \in Peers : ReceivedIsOwed(q, a)'
      <4> SUFFICES ASSUME NEW q \in Peers PROVE ReceivedIsOwed(q, a)'
        OBVIOUS
      <4>1. ~mTerminated[q] => mNodeForAddress[q][a].timesRecd = Owed(q, a) + Bit(Held(q, a))
        BY <1>2, Zenon DEF AddressInv, ReceivedIsOwed, Held
      <4>2. Held(q, a)' <=> Held(q, a)
        BY <1>1, <1>6, <3>3, Sides, Zenon
      <4>3. Bit(Held(q, a)') = Bit(Held(q, a))
        BY <4>2, Zenon DEF Bit
      <4>4. ~mTerminated'[q] =>
              mNodeForAddress'[q][a].timesRecd = Owed(q, a)' + Bit(Held(q, a)')
        BY <1>3, <1>4, <4>1, <4>3, Zenon
      <4> QED
        BY <4>4, Zenon DEF ReceivedIsOwed, Held
    <3>6. ProxyOwned(a)'
      BY <1>2, <1>3, <3>3, Zenon DEF AddressInv, ProxyOwned
    <3> QED
      BY <3>4, <3>5, <3>6, Zenon DEF AddressInv
  <2> QED
    BY <2>1, <2>2
<1>9. \A c \in Addresses : c # a => /\ c \in handles' <=> c \in handles
                                    /\ c \in dying' <=> c \in dying
  BY <1>3
<1> QED
  BY <1>3, <1>4, <1>5, <1>8, <1>9, StepIInv, Zenon

\* The owner's code lets go of its binder.
LEMMA DropLocalIInv ==
  ASSUME IInv, NEW b \in Binders, DropLocal(b)
  PROVE  IInv' /\ UNCHANGED fault
<1>1. /\ local' = local \ {b}
      /\ UNCHANGED <<mNodeForAddress, mTerminated, fault, transaction, decStrong,
                     handles, dying, used, forfeited, renumbered, orphaned,
                     terminating>>
  BY DEF DropLocal
<1>2. local' \subseteq Binders
  BY <1>1 DEF IInv, TypeOK
<1>3. TypeOK'
  BY <1>1, <1>2, Zenon DEF IInv, TypeOK
<1> QED
  BY <1>1, <1>3, StutterIInv

-----------------------------------------------------------------------------
(* The theorems. *)

\* Every step of either side keeps the counts, and stops a process, if it does, in
\* one of the three known ways.
LEMMA NextIInv ==
  ASSUME IInv, [Next]_vars
  PROVE  IInv' /\ \E p \in Peers : KnownFault(p)
<1>1. UNCHANGED fault => \E p \in Peers : KnownFault(p)
  BY DEF KnownFault, Peers
<1>2. ASSUME NEW p \in Peers, Shutdown(p)
      PROVE  IInv' /\ \E q \in Peers : KnownFault(q)
  BY <1>2, ShutdownIInv, Zenon DEF KnownFault
<1>3. ASSUME NEW p \in Peers, NEW t \in Transactions, NEW kind \in Kinds,
             NEW a \in Addresses, onProxyLeaving(p, t, kind, a)
      PROVE  IInv' /\ UNCHANGED fault
  BY <1>3, ProxyLeavingIInv
<1>4. ASSUME NEW p \in Peers, NEW t \in Transactions, NEW a \in Addresses,
             onLocalLeaving(p, t, a)
      PROVE  IInv' /\ UNCHANGED fault
  BY <1>4, LocalLeavingIInv
<1>5. ASSUME NEW t \in Transactions, sendParcel(t) \/ onBinderEntering(t)
      PROVE  IInv' /\ UNCHANGED fault
  BY <1>5, SendParcelIInv, EnteringIInv
<1>6. ASSUME NEW t \in Transactions,
             \/ transactAddress(t) \/ returnReference(t)
             \/ acceptOneway(t) \/ finishOneway(t)
      PROVE  IInv' /\ \E q \in Peers : KnownFault(q)
  BY <1>6, TransactIInv, ReturnReferenceIInv, AcceptOnewayIInv, FinishOnewayIInv
<1>7. ASSUME NEW a \in Addresses, onLastStrongRef(a)
      PROVE  IInv' /\ \E q \in Peers : KnownFault(q)
  BY <1>7, LastStrongRefIInv
<1>8. ASSUME NEW p \in Peers, NEW a \in Addresses, processDecStrong(p, a)
      PROVE  IInv' /\ \E q \in Peers : KnownFault(q)
  BY <1>8, ProcessDecStrongIInv
<1>9. ASSUME NEW a \in Addresses, DropProxy(a)
      PROVE  IInv' /\ UNCHANGED fault
  BY <1>9, DropProxyIInv
<1>10. ASSUME NEW b \in Binders, DropLocal(b)
       PROVE  IInv' /\ UNCHANGED fault
  BY <1>10, DropLocalIInv
<1>11. CASE UNCHANGED vars
  <2>1. TypeOK'
    BY <1>11, Zenon DEF IInv, TypeOK, vars
  <2> QED
    BY <1>1, <1>11, <2>1, StutterIInv DEF vars
<1> QED
  BY <1>1, <1>2, <1>3, <1>4, <1>5, <1>6, <1>7, <1>8, <1>9, <1>10, <1>11, Zenon DEF Next

\* The reference counts of the two ends agree in every state of a session: what a
\* side counts as sent is under way, counted by the other side or on its way back.
THEOREM CountsAgree == Spec => []IInv
<1>1. IInv /\ [Next]_vars => IInv'
  BY NextIInv
<1> QED
  BY InitIInv, <1>1, PTL DEF Spec

\* Of the checks of RpcState.cpp that abort the process or reject a command of the
\* other side, only the three of OnlyKnownFaults ever fail: every address that is
\* sent, called or returned is known to the side that looks it up, no count goes
\* below zero, and no reference is lost.
THEOREM FaultsKnown == Spec => []OnlyKnownFaults
<1>1. Init => OnlyKnownFaults
  BY DEF Init, OnlyKnownFaults
<1>2. IInv /\ OnlyKnownFaults /\ [Next]_vars => OnlyKnownFaults'
  <2> SUFFICES ASSUME IInv, OnlyKnownFaults, [Next]_vars PROVE OnlyKnownFaults'
    OBVIOUS
  <2>1. PICK p \in Peers : KnownFault(p)
    BY NextIInv
  <2>2. fault \in [Peers -> Faults]
    BY DEF IInv, TypeOK
  <2> QED
    BY <2>1, <2>2, Zenon DEF KnownFault, OnlyKnownFaults
<1> QED
  BY CountsAgree, <1>1, <1>2, PTL DEF Spec

\* At rest, what a side gave up or kept is all that is left of its counts.
LEMMA RestCounts ==
  ASSUME IInv, NEW a \in Addresses, AtRest(a), NEW p \in Peers
  PROVE  /\ Transit(p, a) \in Nat /\ Owed(p, a) \in Nat
         /\ Transit(p, a) > 0 <=> GivenUp(p, a) # {}
         /\ Owed(p, a) > 0 <=> Kept(p, a) # {}
<1>1. /\ Transit(p, a) \in Nat /\ (Transit(p, a) = 0 <=> Outstanding(p, a) = {})
      /\ Owed(p, a) \in Nat /\ (Owed(p, a) = 0 <=> Unreturned(p, a) = {})
  BY CountType DEF Transit, Owed, Outstanding, Unreturned
<1>2. InTransit(p, a) = {} /\ Entered(p, a) = {}
  BY DEF AtRest
<1>3. Outstanding(p, a) = GivenUp(p, a)
  BY <1>2 DEF Outstanding, GivenUp, InTransit, At
<1>4. Unreturned(p, a) = Kept(p, a)
  BY <1>2 DEF Unreturned, Kept, Entered, At
<1> QED
  BY <1>1, <1>3, <1>4

\* A node outlives its proxy only for a reference that a parcel took along when it was
\* given up, or that sendDecStrong could not return for want of a connection; and for
\* each such reference it does.  Every other node is erased (tryEraseNode) once
\* nothing of its address is under way.
THEOREM NoLeak == Spec => []NothingElseLeaks
<1>1. IInv => NothingElseLeaks
  <2> SUFFICES ASSUME IInv, NEW a \in Addresses, AtRest(a)
               PROVE  /\ mNodeForAddress[User(a)][a].known <=> Lost(a)
                      /\ mNodeForAddress[Owner(a)][a].known <=>
                           Lost(a) \/ GivenUp(Owner(a), a) # {}
    BY DEF NothingElseLeaks
  <2>1. PICK u \in Peers, o \in Peers : /\ u = User(a) /\ o = Owner(a)
                                        /\ o = Other(u) /\ u = Other(o)
                                        /\ o # u /\ \A q \in Peers : q = u \/ q = o
    BY Sides
  <2> DEFINE n == mNodeForAddress[u][a]
             k == mNodeForAddress[o][a]
             h == Bit(Held(u, a))
  <2>2. /\ n.timesSent \in Nat /\ n.timesRecd \in Nat
        /\ k.timesSent \in Nat /\ k.timesRecd \in Nat
    BY DEF IInv, TypeOK, Node
  <2>3. /\ \A q \in Peers : Balanced(q, a) /\ ReceivedIsOwed(q, a) /\ NodesOwned(q, a)
        /\ \A q \in Peers : ~mTerminated[q] /\ decStrong[q][a] = 0
        /\ a \notin handles /\ a \notin dying
    BY DEF IInv, AddressInv, AtRest
  <2>4. /\ n.known <=> (n.timesSent > 0 \/ n.timesRecd > 0)
        /\ k.known <=> (k.timesSent > 0 \/ k.timesRecd > 0)
        /\ n.sentRef <=> n.timesSent > 0
    BY <2>3, Zenon DEF NodesOwned
  <2>5. h \in {0, 1} /\ (h = 1 <=> (n.timesSent > 0 \/ a \in orphaned))
    <3>1. Held(u, a) <=> (n.timesSent > 0 \/ a \in orphaned)
      BY <2>1, <2>3, <2>4, Zenon DEF Held, Alive
    <3> QED
      BY <3>1 DEF Bit
  <2>6. n.timesRecd = Owed(u, a) + h /\ k.timesRecd = Owed(o, a)
    <3>1. /\ n.timesRecd = Owed(u, a) + h
          /\ k.timesRecd = Owed(o, a) + Bit(Held(o, a))
      BY <2>3, Zenon DEF ReceivedIsOwed
    <3>2. Bit(Held(o, a)) = 0 /\ Owed(o, a) \in Nat
      BY <2>1, RestCounts DEF Held, Bit
    <3> QED
      BY <3>1, <3>2
  <2>7. /\ n.timesSent = Transit(u, a) + k.timesRecd
        /\ k.timesSent = Transit(o, a) + n.timesRecd
    <3>1. \A q \in Peers : forfeited[q][a].recd = 0 /\ forfeited[q][a].sent = 0
      BY <2>3 DEF NodesOwned
    <3>2. /\ n.timesSent + forfeited[u][a].sent
               = Transit(u, a) + k.timesRecd + forfeited[o][a].recd + decStrong[u][a]
          /\ k.timesSent + forfeited[o][a].sent
               = Transit(o, a) + n.timesRecd + forfeited[u][a].recd + decStrong[o][a]
      BY <2>1, <2>3, Zenon DEF Balanced
    <3>3. Transit(u, a) \in Nat /\ Transit(o, a) \in Nat
      BY RestCounts
    <3> QED
      BY <2>2, <2>3, <3>1, <3>2, <3>3
  <2>8. /\ Transit(u, a) \in Nat /\ Transit(o, a) \in Nat
        /\ Owed(u, a) \in Nat /\ Owed(o, a) \in Nat
        /\ Transit(o, a) > 0 <=> GivenUp(o, a) # {}
        /\ Lost(a) <=> (\/ a \in orphaned \/ Transit(u, a) > 0
                        \/ Owed(u, a) > 0 \/ Owed(o, a) > 0)
    <3>1. \A q \in Peers : /\ Transit(q, a) \in Nat /\ Owed(q, a) \in Nat
                           /\ Transit(q, a) > 0 <=> GivenUp(q, a) # {}
                           /\ Owed(q, a) > 0 <=> Kept(q, a) # {}
      BY RestCounts
    <3> QED
      BY <2>1, <3>1, Zenon DEF Lost
  <2> HIDE DEF h
  <2>9. n.known <=> Lost(a)
    <3> DEFINE ns == n.timesSent  nr == n.timesRecd  ks == k.timesSent
               kr == k.timesRecd  T == Transit(u, a)  U == Owed(u, a)
               V == Owed(o, a)
    <3>1. /\ T \in Nat /\ U \in Nat /\ V \in Nat /\ h \in {0, 1}
          /\ nr = U + h /\ kr = V /\ ns = T + kr
          /\ h = 1 <=> (ns > 0 \/ a \in orphaned)
      BY <2>5, <2>6, <2>7, <2>8
    <3> HIDE DEF ns, nr, ks, kr, T, U, V
    <3>2. (ns > 0 \/ nr > 0) <=> (a \in orphaned \/ T > 0 \/ U > 0 \/ V > 0)
      BY <3>1
    <3> QED
      BY <2>4, <2>8, <3>2, Zenon DEF ns, nr, T, U, V
  <2>10. k.known <=> Lost(a) \/ GivenUp(o, a) # {}
    <3> DEFINE ns == n.timesSent  nr == n.timesRecd  ks == k.timesSent
               kr == k.timesRecd  T == Transit(u, a)  W == Transit(o, a)
               U == Owed(u, a)  V == Owed(o, a)
    <3>1. /\ T \in Nat /\ W \in Nat /\ U \in Nat /\ V \in Nat /\ h \in {0, 1}
          /\ nr = U + h /\ kr = V /\ ns = T + kr /\ ks = W + nr
          /\ h = 1 <=> (ns > 0 \/ a \in orphaned)
      BY <2>5, <2>6, <2>7, <2>8
    <3> HIDE DEF ns, nr, ks, kr, T, U, V, W
    <3>2. (ks > 0 \/ kr > 0) <=> (\/ a \in orphaned \/ T > 0 \/ U > 0 \/ V > 0
                                  \/ W > 0)
      BY <3>1
    <3> QED
      BY <2>4, <2>8, <3>2, Zenon DEF ks, kr, T, U, V, W
  <2> QED
    BY <2>1, <2>9, <2>10, Zenon
<1> QED
  BY CountsAgree, <1>1, PTL

=============================================================================
