------------------------------ MODULE RpcState ------------------------------
(***************************************************************************)
(* The two ends of one binder RPC session (libs/binder/RpcState.cpp): how   *)
(* the references to the binders that cross the session are counted on both *)
(* sides, and in which order the oneway calls on a binder are executed.     *)
(*                                                                          *)
(* One action per critical section of mNodeMutex: what a thread does        *)
(* between two critical sections is a separate step, and threads of both    *)
(* processes interleave.  The connections of a session are independent      *)
(* sockets and every command may go out on any free one                     *)
(* (RpcSession::ExclusiveConnection), so what is on the wire has no order.  *)
(*                                                                          *)
(* A transaction t stands for one reference on its way through the session, *)
(* and for the thread that handles it: a "binder" written to a parcel, the  *)
(* target of a synchronous "call", or the target of a "oneway" call.        *)
(***************************************************************************)
EXTENDS Naturals, FiniteSets

CONSTANTS
  Binders,         \* the local binders of both processes
  Home,            \* the process a binder lives in
  Addresses,       \* the values RpcAddress::random can return
  BinderAt,        \* the binder an address is generated for
  Transactions,    \* the references under way at one time
  MaxAsyncNumber,  \* the largest value of asyncNumber (2^64 - 1 in the code)
  MaxPending,      \* kArbitraryOnewayCallTerminateLevel
  MaxSent,         \* a bound on timesSent
  MaxUsed,         \* a bound on the addresses generated
  Connected        \* the sides with mOutgoingConnections: the server has some when
                   \* the client serves incoming connections

Peers == {"client", "server"}

ASSUME RpcAssumption ==
  /\ Home \in [Binders -> Peers]
  /\ Addresses # {}
  /\ BinderAt \in [Addresses -> Binders]
  /\ IsFiniteSet(Transactions)
  /\ MaxAsyncNumber \in Nat /\ MaxPending \in Nat \ {0} /\ MaxSent \in Nat \ {0}
  /\ MaxUsed \in Nat
  /\ Connected \subseteq Peers /\ "client" \in Connected

Other(p) == IF p = "client" THEN "server" ELSE "client"

\* The side whose binder an address names, and the side that has a proxy for it.
Owner(a) == Home[BinderAt[a]]
User(a) == Other(Owner(a))

VARIABLES
  mNodeForAddress,  \* [p][a]: BinderNode
  mTerminated,      \* [p]
  fault,            \* [p]: the abort (or undefined behaviour) that ended the process
  transaction,      \* [t]: where a reference under way is
  decStrong,        \* [p][a]: DEC_STRONG commands on their way to p
  handles,          \* the addresses whose proxy the user's own code holds
  local,            \* the binders their own process holds
  dying,            \* the proxies between their last decStrong and sendDecStrong
  used,             \* the addresses generated so far
  forfeited,        \* [p][a]: what the counts were when clear() dropped them
  renumbered,       \* the addresses whose proxy was rebuilt after oneway calls
  orphaned,         \* the proxies that died and could not give their reference back
  terminating       \* the sides with a thread on its way to shutdownAndWait

vars == <<mNodeForAddress, mTerminated, fault, transaction, decStrong, handles,
          local, dying, used, forfeited, renumbered, orphaned, terminating>>

Kinds == {"binder", "call", "oneway"}
Places == {"idle", "leaving", "unsent", "wire", "entered", "kept", "accepted",
           "queued", "running"}

\* The failing checks of the code, and the outcomes it blames on the other side.
Faults == {"none", "must have known address", "transact on unknown address",
           "dec strong on unknown address", "bad dec strong", "own received binder",
           "lost ref", "pending async", "expected to be owned", "end iterator",
           "transacting on deleted binder", "unrecognized address",
           "dec strong not accepted"}

\* A BinderNode; its asyncTodo is the transactions that are "queued".
Node == [known : BOOLEAN, timesSent : Nat, timesRecd : Nat, sentRef : BOOLEAN,
         asyncNumber : Nat]

Unknown == [known |-> FALSE, timesSent |-> 0, timesRecd |-> 0, sentRef |-> FALSE,
            asyncNumber |-> 0]

Transaction == [kind : Kinds, from : Peers, address : Addresses, number : Nat,
                at : Places]

\* No reference: the other fields do not matter.
Idle == [kind |-> "binder", from |-> "server",
         address |-> CHOOSE a \in Addresses : TRUE, number |-> 0, at |-> "idle"]

\* The type invariant: nodes count, and every reference under way is in one place.
TypeOK ==
  /\ mNodeForAddress \in [Peers -> [Addresses -> Node]]
  /\ mTerminated \in [Peers -> BOOLEAN]
  /\ fault \in [Peers -> Faults]
  /\ transaction \in [Transactions -> Transaction]
  /\ decStrong \in [Peers -> [Addresses -> Nat]]
  /\ handles \subseteq Addresses
  /\ local \subseteq Binders
  /\ dying \subseteq Addresses
  /\ used \subseteq Addresses
  /\ forfeited \in [Peers -> [Addresses -> [sent : Nat, recd : Nat]]]
  /\ renumbered \subseteq Addresses
  /\ orphaned \subseteq Addresses
  /\ terminating \subseteq Peers

Init ==
  /\ mNodeForAddress = [p \in Peers |-> [a \in Addresses |-> Unknown]]
  /\ mTerminated = [p \in Peers |-> FALSE]
  /\ fault = [p \in Peers |-> "none"]
  /\ transaction = [t \in Transactions |-> Idle]
  /\ decStrong = [p \in Peers |-> [a \in Addresses |-> 0]]
  /\ handles = {}
  /\ local = Binders
  /\ dying = {}
  /\ used = {}
  /\ forfeited = [p \in Peers |-> [a \in Addresses |-> [sent |-> 0, recd |-> 0]]]
  /\ renumbered = {}
  /\ orphaned = {}
  /\ terminating = {}

-----------------------------------------------------------------------------
(***************************************************************************)
(* References under way.                                                    *)
(***************************************************************************)

\* In tr: the references to a on their way to p that are at one of the places.
At(tr, p, a, places) ==
  {t \in Transactions : /\ tr[t].address = a
                        /\ tr[t].from = Other(p)
                        /\ tr[t].at \in places}

\* Counted by p as sent, and on their way.
InTransit(p, a) == At(transaction, Other(p), a, {"leaving", "wire"})

\* Counted by p as sent, and never sent: nothing takes them back.
GivenUp(p, a) == At(transaction, Other(p), a, {"unsent"})

\* Threads of p inside onBinderEntering that still have to call sendDecStrong.
Entered(p, a) == At(transaction, p, a, {"entered"})

\* Counted by p as received, and never returned: no connection was found.
Kept(p, a) == At(transaction, p, a, {"kept"})

\* The asyncTodo of p's node.
Todo(p, a) == At(transaction, p, a, {"queued"})

\* The proxy for a has a strong reference.
Alive(a) == a \in handles \/ mNodeForAddress[User(a)][a].sentRef

\* wp::promote() of the binder of p's node.
Promotable(p, a) ==
  IF p = User(a)
  THEN Alive(a)
  ELSE \/ mNodeForAddress[p][a].sentRef
       \/ BinderAt[a] \in local
       \/ At(transaction, p, a, {"entered", "accepted", "queued", "running"}) # {}

Running(p) == fault[p] = "none"

Fail(p, what) ==
  /\ fault' = [fault EXCEPT ![p] = what]
  /\ UNCHANGED <<mNodeForAddress, mTerminated, transaction, decStrong, handles,
                 local, dying, used, forfeited, renumbered, orphaned, terminating>>

SetNode(p, a, n) ==
  mNodeForAddress' = [mNodeForAddress EXCEPT ![p][a] = n]

\* The transactions once t has moved on.
Moved(t, place) ==
  [transaction EXCEPT ![t] = IF place = "idle" THEN Idle ELSE [@ EXCEPT !.at = place]]

Move(t, place) == transaction' = Moved(t, place)

\* Mutant: the received references do not keep the node.
tryEraseNodeSentOnly(n) ==
  IF n.timesSent # 0 THEN n ELSE Unknown

\* Mutant: a node whose counts are both zero stays in the map.
tryEraseNodeStays(n) ==
  IF n.timesSent # 0 THEN n ELSE [n EXCEPT !.sentRef = FALSE]

\* What is left of a node once a count of it went down.
tryEraseNode(n) ==
  IF n.timesSent # 0 THEN n
  ELSE IF n.timesRecd # 0 THEN [n EXCEPT !.sentRef = FALSE]
  ELSE Unknown

\* The node goes away although oneway calls wait in its asyncTodo.
PendingAsync(p, a, n) ==
  n.timesSent = 0 /\ n.timesRecd = 0 /\ Todo(p, a) # {}

(***************************************************************************)
(* The session ends on one side: shutdownAndWait(false), called by the      *)
(* application, after a failed send, or by a handler below once it has      *)
(* released mNodeMutex.  Sockets of the other side fail from then on, so it *)
(* may follow at any time.                                                  *)
(***************************************************************************)

clear(p) ==
  IF \E a \in Addresses : mNodeForAddress[p][a].known /\ ~Promotable(p, a)
  THEN Fail(p, "expected to be owned")
  ELSE /\ mTerminated' = [mTerminated EXCEPT ![p] = TRUE]
       /\ mNodeForAddress' = [mNodeForAddress EXCEPT ![p] =
                                [a \in Addresses |-> Unknown]]
       /\ forfeited' = [forfeited EXCEPT ![p] =
                          [a \in Addresses |->
                             [sent |-> mNodeForAddress[p][a].timesSent,
                              recd |-> mNodeForAddress[p][a].timesRecd]]]
       /\ transaction' = [t \in Transactions |->
                            IF t \in Todo(p, transaction[t].address) THEN Idle
                            ELSE transaction[t]]
       /\ terminating' = terminating \ {p}
       /\ UNCHANGED <<fault, decStrong, handles, local, dying, used, renumbered,
                      orphaned>>

Shutdown(p) ==
  /\ Running(p) /\ ~mTerminated[p]
  /\ clear(p)

-----------------------------------------------------------------------------
(***************************************************************************)
(* Sending a reference.                                                     *)
(***************************************************************************)

Leave(p, t, kind, a, n) ==
  /\ SetNode(p, a, n)
  /\ transaction' = [transaction EXCEPT ![t] =
                       [kind |-> kind, from |-> p, address |-> a, number |-> 0,
                        at |-> "leaving"]]
  /\ UNCHANGED <<mTerminated, fault, decStrong, handles, local, dying, forfeited,
                 renumbered, orphaned, terminating>>

\* A proxy is sent back to its process, or called; find gives a oneway call no other
\* connection than an outgoing one.
onProxyLeaving(p, t, kind, a) ==
  LET n == mNodeForAddress[p][a]
  IN  /\ Running(p) /\ ~mTerminated[p]
      /\ transaction[t].at = "idle"
      /\ p = User(a) /\ a \in handles
      /\ kind = "oneway" => p \in Connected
      /\ n.timesSent < MaxSent
      /\ IF n.known
         THEN /\ Leave(p, t, kind, a,
                       [n EXCEPT !.timesSent = @ + 1, !.sentRef = TRUE])
              /\ UNCHANGED used
         ELSE Fail(p, "must have known address")

\* A local binder is sent: under the address it has, or under a new one.
onLocalLeaving(p, t, a) ==
  LET n == mNodeForAddress[p][a]
      addressed == \E c \in Addresses : /\ BinderAt[c] = BinderAt[a]
                                        /\ mNodeForAddress[p][c].known
  IN  /\ Running(p) /\ ~mTerminated[p]
      /\ transaction[t].at = "idle"
      /\ p = Owner(a) /\ BinderAt[a] \in local
      /\ n.timesSent < MaxSent
      /\ \/ /\ n.known
            /\ Leave(p, t, "binder", a,
                     [n EXCEPT !.timesSent = @ + 1, !.sentRef = TRUE])
            /\ UNCHANGED used
         \/ /\ ~addressed
            /\ a \notin used /\ Cardinality(used) < MaxUsed
            /\ used' = used \cup {a}
            /\ Leave(p, t, "binder", a,
                     [Unknown EXCEPT !.known = TRUE, !.timesSent = 1,
                                     !.sentRef = TRUE])

\* Where a parcel ends up: on the wire, or given up after its references were
\* counted, because CommandData finds it too large or gets no memory for it.
Sent == {"wire", "unsent"}

\* The parcel goes out with the transaction or the reply it is part of.
sendParcel(t) ==
  /\ Running(transaction[t].from)
  /\ transaction[t].at = "leaving" /\ transaction[t].kind = "binder"
  /\ \E place \in Sent : Move(t, place)
  /\ UNCHANGED <<mNodeForAddress, mTerminated, fault, decStrong, handles, local,
                 dying, used, forfeited, renumbered, orphaned, terminating>>

transactAddress(t) ==
  LET p == transaction[t].from
      a == transaction[t].address
      n == mNodeForAddress[p][a]
      oneway == transaction[t].kind = "oneway"
  IN  /\ Running(p)
      /\ transaction[t].at = "leaving" /\ transaction[t].kind # "binder"
      /\ IF mTerminated[p]
         THEN /\ Move(t, "unsent")
              /\ UNCHANGED <<mNodeForAddress, mTerminated, fault, decStrong,
                             handles, local, dying, used, forfeited, renumbered,
                             orphaned, terminating>>
         ELSE IF ~n.known
         THEN Fail(p, "transact on unknown address")
         ELSE IF oneway /\ n.asyncNumber >= MaxAsyncNumber
         THEN /\ Move(t, "unsent")
              /\ terminating' = terminating \cup {p}
              /\ UNCHANGED <<mNodeForAddress, mTerminated, fault, decStrong,
                             handles, local, dying, used, forfeited, renumbered,
                             orphaned>>
         ELSE /\ SetNode(p, a, IF oneway THEN [n EXCEPT !.asyncNumber = @ + 1] ELSE n)
              /\ \E place \in Sent :
                   transaction' = [transaction EXCEPT ![t].at = place,
                                                      ![t].number = n.asyncNumber]
              /\ UNCHANGED <<mTerminated, fault, decStrong, handles, local, dying,
                             used, forfeited, renumbered, orphaned, terminating>>

-----------------------------------------------------------------------------
(***************************************************************************)
(* Receiving a reference.                                                   *)
(***************************************************************************)

\* The oneway calls of earlier proxies for a that the other side has seen.
CalledBefore(a) ==
  \/ mNodeForAddress[Owner(a)][a].asyncNumber > 0
  \/ \E t \in Transactions : /\ transaction[t].address = a
                              /\ transaction[t].kind = "oneway"
                              /\ transaction[t].at \notin {"idle", "leaving"}

onBinderEntering(t) ==
  LET p == Other(transaction[t].from)
      a == transaction[t].address
      n == mNodeForAddress[p][a]
      target == transaction[t].kind # "binder"
      kept == transaction[t].kind # "oneway"
  IN  /\ Running(p) /\ ~mTerminated[p]
      /\ transaction[t].at = "wire"
      /\ IF n.known /\ target /\ ~Promotable(p, a)
         THEN Fail(p, "transacting on deleted binder")
         ELSE IF n.known
         THEN /\ SetNode(p, a, [n EXCEPT !.timesRecd = @ + 1])
              /\ Move(t, "entered")
              /\ handles' = IF p = User(a) /\ Alive(a) THEN handles \cup {a} ELSE handles
              /\ local' = IF p = Owner(a) /\ kept THEN local \cup {BinderAt[a]} ELSE local
              /\ UNCHANGED <<mTerminated, fault, decStrong, dying, used, forfeited,
                             renumbered, orphaned, terminating>>
         ELSE IF p = Owner(a)
         THEN Fail(p, "unrecognized address")
         ELSE /\ SetNode(p, a, [Unknown EXCEPT !.known = TRUE, !.timesRecd = 1])
              /\ Move(t, "idle")
              /\ handles' = handles \cup {a}
              /\ renumbered' = IF CalledBefore(a) THEN renumbered \cup {a}
                               ELSE renumbered
              /\ UNCHANGED <<mTerminated, fault, decStrong, local, dying, used,
                             forfeited, orphaned, terminating>>

\* The check of sendDecStrong that aborts the process, if one does.
DecStrongFault(p, a) ==
  LET n == mNodeForAddress[p][a]
  IN  IF mTerminated[p] THEN "none"
      ELSE IF ~n.known THEN "dec strong on unknown address"
      ELSE IF n.timesRecd = 0 THEN "bad dec strong"
      ELSE IF PendingAsync(p, a, [n EXCEPT !.timesRecd = @ - 1]) THEN "pending async"
      ELSE IF n.timesSent = 0 /\ n.sentRef THEN "own received binder"
      ELSE "none"

\* The critical section of sendDecStrong and the command it sends.
sendDecStrong(p, a) ==
  LET n == [mNodeForAddress[p][a] EXCEPT !.timesRecd = @ - 1]
  IN  IF mTerminated[p] THEN UNCHANGED <<mNodeForAddress, decStrong>>
      ELSE /\ SetNode(p, a, tryEraseNode(n))
           /\ decStrong' = [decStrong EXCEPT ![Other(p)][a] = @ + 1]

\* ExclusiveConnection::find has nothing for a DEC_STRONG of p: a thread that
\* serves no connection needs one of mOutgoingConnections.
NoConnection(p) == p \notin Connected

\* onBinderEntering returns the reference it does not need.  The target of a call is
\* returned by the thread that serves it; a binder by the thread that reads the
\* parcel.
returnReference(t) ==
  LET p == Other(transaction[t].from)
      a == transaction[t].address
  IN  /\ Running(p)
      /\ transaction[t].at = "entered"
      /\ \/ /\ transaction[t].kind = "binder" /\ NoConnection(p)
            /\ Move(t, "kept")
            /\ UNCHANGED <<mNodeForAddress, mTerminated, fault, decStrong, handles,
                           local, dying, used, forfeited, renumbered, orphaned,
                           terminating>>
         \/ IF DecStrongFault(p, a) # "none"
            THEN Fail(p, DecStrongFault(p, a))
            ELSE /\ sendDecStrong(p, a)
                 /\ Move(t, IF transaction[t].kind = "oneway" THEN "accepted" ELSE "idle")
                 /\ UNCHANGED <<mTerminated, fault, handles, local, dying, used,
                                forfeited, renumbered, orphaned, terminating>>

\* BpBinder::onLastStrongRef, on whichever thread drops the last reference.
onLastStrongRef(a) ==
  LET p == User(a)
  IN  /\ Running(p)
      /\ a \in dying
      /\ \/ /\ NoConnection(p)
            /\ dying' = dying \ {a}
            /\ orphaned' = orphaned \cup {a}
            /\ UNCHANGED <<mNodeForAddress, mTerminated, fault, transaction,
                           decStrong, handles, local, used, forfeited, renumbered,
                           terminating>>
         \/ IF DecStrongFault(p, a) # "none"
            THEN Fail(p, DecStrongFault(p, a))
            ELSE /\ sendDecStrong(p, a)
                 /\ dying' = dying \ {a}
                 /\ UNCHANGED <<mTerminated, fault, transaction, handles, local,
                                used, forfeited, renumbered, orphaned, terminating>>

processDecStrong(p, a) ==
  LET n == mNodeForAddress[p][a]
      m == [n EXCEPT !.timesSent = @ - 1]
  IN  /\ Running(p) /\ ~mTerminated[p]
      /\ decStrong[p][a] > 0
      /\ IF ~n.known \/ ~Promotable(p, a) \/ n.timesSent = 0
         THEN Fail(p, "dec strong not accepted")
         ELSE IF ~n.sentRef THEN Fail(p, "lost ref")
         ELSE IF PendingAsync(p, a, m) THEN Fail(p, "pending async")
         ELSE /\ SetNode(p, a, tryEraseNode(m))
              /\ decStrong' = [decStrong EXCEPT ![p][a] = @ - 1]
              /\ dying' = IF p = User(a) /\ m.timesSent = 0 /\ a \notin handles
                          THEN dying \cup {a} ELSE dying
              /\ UNCHANGED <<mTerminated, fault, transaction, handles, local, used,
                             forfeited, renumbered, orphaned, terminating>>

-----------------------------------------------------------------------------
(***************************************************************************)
(* The application lets go of its references.  A thread inside              *)
(* onBinderEntering holds one.                                              *)
(***************************************************************************)

DropProxy(a) ==
  /\ Running(User(a))
  /\ a \in handles /\ Entered(User(a), a) = {}
  /\ handles' = handles \ {a}
  /\ dying' = IF mNodeForAddress[User(a)][a].sentRef THEN dying ELSE dying \cup {a}
  /\ UNCHANGED <<mNodeForAddress, mTerminated, fault, transaction, decStrong, local,
                 used, forfeited, renumbered, orphaned, terminating>>

DropLocal(b) ==
  /\ Running(Home[b])
  /\ b \in local
  /\ \A a \in Addresses : BinderAt[a] = b => Entered(Home[b], a) = {}
  /\ local' = local \ {b}
  /\ UNCHANGED <<mNodeForAddress, mTerminated, fault, transaction, decStrong,
                 handles, dying, used, forfeited, renumbered, orphaned,
                 terminating>>

-----------------------------------------------------------------------------
(***************************************************************************)
(* Oneway calls at the side of the binder (processTransactInternal).        *)
(***************************************************************************)

\* Mutant: a call with a later number than the expected one is not held back.
LateOnlyOld(t) ==
  transaction[t].number <
    mNodeForAddress[Other(transaction[t].from)][transaction[t].address].asyncNumber

\* Another oneway call has to run before this one.
Late(t) ==
  transaction[t].number #
    mNodeForAddress[Other(transaction[t].from)][transaction[t].address].asyncNumber

\* Execute the call, or leave it for later when another one has to run first.
acceptOneway(t) ==
  LET p == Other(transaction[t].from)
      a == transaction[t].address
      n == mNodeForAddress[p][a]
      late == Late(t)
      full == Cardinality(Todo(p, a)) + 1 >= MaxPending
  IN  /\ Running(p)
      /\ transaction[t].at = "accepted"
      /\ IF ~n.known THEN Fail(p, "end iterator")
         ELSE /\ Move(t, IF late THEN "queued" ELSE "running")
              /\ terminating' = IF late /\ full THEN terminating \cup {p}
                                ELSE terminating
              /\ UNCHANGED <<mNodeForAddress, mTerminated, fault, decStrong,
                             handles, local, dying, used, forfeited, renumbered,
                             orphaned>>

\* Mutant: the number the node expects is compared before it has gone up.
NextTodoSame(p, a) ==
  {c \in Todo(p, a) : transaction[c].number = mNodeForAddress[p][a].asyncNumber}

\* The call of asyncTodo whose turn it is once the number has gone up.
NextTodo(p, a) ==
  {c \in Todo(p, a) : transaction[c].number = mNodeForAddress[p][a].asyncNumber + 1}

\* The call has returned: take the next one from asyncTodo when it is its turn.
finishOneway(t) ==
  LET p == Other(transaction[t].from)
      a == transaction[t].address
      n == mNodeForAddress[p][a]
      done == Moved(t, "idle")
      next == NextTodo(p, a)
      first == \A c \in Todo(p, a) : transaction[c].number > n.asyncNumber
  IN  /\ Running(p)
      /\ transaction[t].at = "running"
      /\ IF n.known /\ n.asyncNumber >= MaxAsyncNumber
         THEN /\ transaction' = done
              /\ terminating' = terminating \cup {p}
              /\ UNCHANGED <<mNodeForAddress, mTerminated, fault, decStrong,
                             handles, local, dying, used, forfeited, renumbered,
                             orphaned>>
         ELSE /\ SetNode(p, a, IF n.known THEN [n EXCEPT !.asyncNumber = @ + 1] ELSE n)
              /\ IF n.known /\ first /\ next # {}
                 THEN \E c \in next : transaction' = [done EXCEPT ![c].at = "accepted"]
                 ELSE transaction' = done
              /\ UNCHANGED <<mTerminated, fault, decStrong, handles, local, dying,
                             used, forfeited, renumbered, orphaned, terminating>>

-----------------------------------------------------------------------------

Next ==
  \/ \E p \in Peers : Shutdown(p)
  \/ \E p \in Peers, t \in Transactions, kind \in Kinds, a \in Addresses :
       onProxyLeaving(p, t, kind, a)
  \/ \E p \in Peers, t \in Transactions, a \in Addresses : onLocalLeaving(p, t, a)
  \/ \E t \in Transactions : sendParcel(t)
  \/ \E t \in Transactions : transactAddress(t)
  \/ \E t \in Transactions : onBinderEntering(t)
  \/ \E t \in Transactions : returnReference(t)
  \/ \E a \in Addresses : onLastStrongRef(a)
  \/ \E p \in Peers, a \in Addresses : processDecStrong(p, a)
  \/ \E a \in Addresses : DropProxy(a)
  \/ \E b \in Binders : DropLocal(b)
  \/ \E t \in Transactions : acceptOneway(t)
  \/ \E t \in Transactions : finishOneway(t)

Spec == Init /\ [][Next]_vars

\* Every connection has a thread at its far end that reads it, and threads run:
\* the steps of the thread that serves a oneway call.
ServeOneway(t) ==
  /\ transaction[t].kind = "oneway"
  /\ \/ onBinderEntering(t)
     \/ returnReference(t)
     \/ acceptOneway(t)
     \/ finishOneway(t)

\* The thread that has to end the session does.
EndSession(p) == p \in terminating /\ Shutdown(p)

Fairness ==
  /\ \A t \in Transactions : WF_vars(ServeOneway(t))
  /\ \A p \in Peers : WF_vars(EndSession(p))

FairSpec == Spec /\ Fairness

-----------------------------------------------------------------------------

\* The checks that abort the process (LOG_ALWAYS_FATAL_IF) and the ones that blame
\* the other side (unknown address, deleted binder, DEC_STRONG not accepted) never
\* fail between two correct ends, whatever way leaving, entering, returning and
\* ending interleave, except for three: an erased node with oneway calls pending,
\* clear() while a proxy is between its last reference and sendDecStrong, and the
\* second look-up of a oneway call's node after the first released the mutex.
OnlyKnownFaults ==
  \A p \in Peers : fault[p] \in {"none", "pending async", "expected to be owned",
                                 "end iterator"}

\* Address a is at rest: both ends run the session, no reference and no DEC_STRONG is
\* on its way, and the user's code has let go of its proxy.
AtRest(a) ==
  /\ \A p \in Peers : /\ ~mTerminated[p] /\ decStrong[p][a] = 0
                      /\ InTransit(p, a) = {} /\ Entered(p, a) = {}
  /\ a \notin handles /\ a \notin dying

\* A reference that the user's side gave up, or that a side could not return.
Lost(a) ==
  \/ a \in orphaned \/ GivenUp(User(a), a) # {}
  \/ \E p \in Peers : Kept(p, a) # {}

\* A node outlives its proxy for two reasons and no other: a parcel was given up after
\* its references were counted (the TODO of transactAddress: nothing undoes
\* onBinderLeaving), or sendDecStrong found no connection and its caller went on.
\* Everything else that tryEraseNode should erase at rest is erased, on both sides;
\* what the owner gave up, the user has never heard of.
NothingElseLeaks ==
  \A a \in Addresses :
    AtRest(a) =>
      /\ mNodeForAddress[User(a)][a].known <=> Lost(a)
      /\ mNodeForAddress[Owner(a)][a].known <=> Lost(a) \/ GivenUp(Owner(a), a) # {}

\* Sent, and not executed yet.
Unfinished == {"wire", "entered", "accepted", "queued", "running"}

\* The oneway calls on a binder are executed one at a time and in the order in which
\* their numbers were taken, though they arrive on connections without an order: when
\* one starts, every other that is under way has a later number.  (Not for a proxy
\* that was rebuilt: its numbers start again while the binder's go on.)
OnewayInOrder ==
  [][\A t, c \in Transactions :
       LET a == transaction[t].address
       IN  /\ transaction[t].at # "running" /\ transaction'[t].at = "running"
           /\ a \notin renumbered
           /\ c # t /\ transaction[c].address = a /\ transaction[c].kind = "oneway"
           /\ transaction[c].at \in Unfinished
           => transaction[c].number > transaction[t].number]_vars

\* The session is over, or a process is.
Ended == \E p \in Peers : mTerminated[p] \/ ~Running(p)

\* A number was taken by a call that was not sent.
Gap(a) ==
  \E t \in Transactions : /\ transaction[t].address = a
                          /\ transaction[t].kind = "oneway"
                          /\ transaction[t].at = "unsent"

\* No oneway call stays in asyncTodo: one that was sent is executed, unless the session
\* ends, a number before it was taken by a call that could not be sent, or its proxy
\* was rebuilt.
OnewayRuns ==
  \A t \in Transactions, a \in Addresses :
    transaction[t].kind = "oneway" /\ transaction[t].at = "wire"
      /\ transaction[t].address = a
    ~> transaction[t].at \in {"running", "idle"} \/ Ended \/ Gap(a) \/ a \in renumbered

=============================================================================
