---------------------------- MODULE EthereumNode ----------------------------
(***************************************************************************)
(* The node that submit-fact and lookup-fact talk to (external), with the  *)
(* FactRegistry contract deployed on it, as cli/internal/blockchain uses   *)
(* it: PendingNonceAt, SendTransaction, and calls of view functions.       *)
(*                                                                         *)
(* With AutoMine, as on the Hardhat node of docker-compose.yml, a          *)
(* transaction is executed while it is sent, and a revert is an error of   *)
(* SendTransaction.  Without, it waits in the pool: for its turn among its *)
(* account's, until it is mined, replaced by one of the same nonce that    *)
(* pays more, or evicted.  A transaction that runs out of its gas is mined *)
(* as reverted, as one that the contract refuses.                          *)
(***************************************************************************)
EXTENDS Integers, Sequences, FiniteSets

CONSTANTS
    Calls, Addresses, Zero, Verify(_, _), MaxTimestamp,   \* of FactRegistry
    GasOf(_),          \* the gas it takes to carry out a call
    AutoMine

VARIABLES
    facts, usedNullifiers, timestamp, accepted,           \* of FactRegistry
    pool,              \* transactions taken in and not yet mined
    accountNonce,      \* the nonce of each account's next transaction
    receipts,          \* the mined transactions, each with its status
    dropped            \* history: accounts of which the pool lost a transaction

registryVars == <<facts, usedNullifiers, timestamp, accepted>>
nodeVars == <<registryVars, pool, accountNonce, receipts, dropped>>

Registry == INSTANCE FactRegistry

-----------------------------------------------------------------------------

NodeInit ==
    /\ Registry!Init
    /\ pool = {}
    /\ accountNonce = [a \in Addresses |-> 0]
    /\ receipts = <<>>
    /\ dropped = {}

PooledNonces(a) == {tx.nonce : tx \in {t \in pool : t.from = a}}

\* The account's nonce after the transactions of the pool that follow on from
\* its last one without a gap.
PendingNonceAt(a) ==
    LET taken == PooledNonces(a)
        next == accountNonce[a]..(accountNonce[a] + Cardinality(taken))
    IN  CHOOSE n \in next : /\ n \notin taken
                            /\ \A m \in next : m < n => m \in taken

SameSlot(tx, other) == tx.from = other.from /\ tx.nonce = other.nonce

Succeeds(tx) == Registry!Accepts(tx.call) /\ GasOf(tx.call) <= tx.gas

\* The transaction is part of a block, reverted or not.
Execute(tx) ==
    /\ tx.nonce = accountNonce[tx.from]
    /\ accountNonce' = [accountNonce EXCEPT ![tx.from] = @ + 1]
    /\ receipts' = Append(receipts, [tx |-> tx, success |-> Succeeds(tx)])
    /\ \/ Succeeds(tx) /\ Registry!SubmitVerifiedFact(tx.from, tx.call)
       \/ ~Succeeds(tx) /\ UNCHANGED registryVars

\* The outcomes of SendTransaction: executed at once, taken in by the pool,
\* or rejected for its nonce.
ExecutedAtOnce(tx) == AutoMine /\ Execute(tx) /\ UNCHANGED <<pool, dropped>>

TakenIn(tx) ==
    /\ ~AutoMine
    /\ tx.nonce >= accountNonce[tx.from]
    /\ pool' = {other \in pool : ~SameSlot(tx, other)} \cup {tx}
    /\ dropped' = dropped \cup {lost.from : lost \in pool \ pool'}
    /\ UNCHANGED <<registryVars, accountNonce, receipts>>

Rejected(tx) ==
    /\ \/ tx.nonce < accountNonce[tx.from]
       \/ AutoMine /\ tx.nonce > accountNonce[tx.from]
       \/ \E other \in pool : SameSlot(tx, other)
    /\ UNCHANGED nodeVars

Mine ==
    /\ \E tx \in pool :
        /\ Execute(tx)
        /\ pool' = pool \ {tx}
    /\ UNCHANGED dropped

Evict ==
    /\ \E tx \in pool : /\ pool' = pool \ {tx}
                       /\ dropped' = dropped \cup {tx.from}
    /\ UNCHANGED <<registryVars, accountNonce, receipts>>

NextBlock ==
    /\ Registry!NextBlock
    /\ UNCHANGED <<pool, accountNonce, receipts, dropped>>

=============================================================================
