-------------------------------- MODULE Bank --------------------------------
(***************************************************************************)
(* What the wallets promise: operations happen one after the other, each   *)
(* at once and at most once, for verified users and funds they have.       *)
(* WalletMock implements this with transactions that lock row after row.   *)
(***************************************************************************)
EXTENDS Integers

CONSTANTS Users, Amounts, Refs

VARIABLES
  balance,   \* what belongs to each user
  posted,    \* the references of the operations so far
  verified   \* users whose identity has been verified

vars == <<balance, posted, verified>>

Init ==
  /\ balance = [u \in Users |-> 0]
  /\ posted = {}
  /\ verified = {}

\* An operation for user u under a reference of its own.
Post(u, ref) ==
  /\ u \in verified
  /\ ref \notin posted
  /\ posted' = posted \cup {ref}
  /\ UNCHANGED verified

Verify(u) ==
  /\ verified' = verified \cup {u}
  /\ UNCHANGED <<balance, posted>>

Deposit(u, a, ref) ==
  /\ Post(u, ref)
  /\ balance' = [balance EXCEPT ![u] = @ + a]

Withdraw(u, a, ref) ==
  /\ Post(u, ref)
  /\ balance[u] >= a
  /\ balance' = [balance EXCEPT ![u] = @ - a]

Transfer(u, to, a, ref) ==
  /\ Post(u, ref)
  /\ to # u
  /\ balance[u] >= a
  /\ balance' = [balance EXCEPT ![u] = @ - a, ![to] = @ + a]

Next ==
  \/ \E u \in Users : Verify(u)
  \/ \E u \in Users, a \in Amounts, ref \in Refs :
       Deposit(u, a, ref) \/ Withdraw(u, a, ref) \/ \E to \in Users : Transfer(u, to, a, ref)

Spec == Init /\ [][Next]_vars
=============================================================================
