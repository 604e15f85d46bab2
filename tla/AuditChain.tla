------------------------------ MODULE AuditChain ------------------------------
(***************************************************************************)
(* The audit_event table: one chain for the whole system, in which every   *)
(* row names the hash of the row before it.  Servers append to it in       *)
(* transactions of their own (appendAtomically) or at the end of one that  *)
(* already holds a row lock (coordinateSupersession, decideAndApply,       *)
(* recomputeAfterSupersession).  Each server has one connection, so one    *)
(* transaction at a time.                                                  *)
(*                                                                         *)
(* The hash of a row covers its payload and the hash before it; no two     *)
(* rows share one, and the row's id stands for it.  Statements see what is *)
(* committed (read committed).  A rollback gives an id back to nobody.     *)
(***************************************************************************)
EXTENDS Integers

CONSTANTS
  Server,
  LockedRow,      \* installment and agreement rows that transactions lock
  EventAction,    \* the pairs of a provider event and an action
  MaxId           \* bound on the ids handed out

NoRow    == "no row"
NoKey    == "no provider event"
NoServer == "no server"

ASSUME ChainAssumption ==
  /\ NoRow \notin LockedRow /\ NoKey \notin EventAction /\ NoServer \notin Server
  /\ MaxId \in Nat

VARIABLES
  chainRows,   \* committed rows of audit_event
  appending,   \* the transaction of each server
  chainLock,   \* who holds the advisory lock
  rowLock,     \* who holds each row lock
  nextId       \* the next value of the id sequence

chainVars == <<chainRows, appending, chainLock, rowLock, nextId>>

NoAppend == [pc |-> "idle", row |-> NoRow, key |-> NoKey, tail |-> 0, id |-> 0]

ChainInit ==
  /\ chainRows = {}
  /\ appending = [s \in Server |-> NoAppend]
  /\ chainLock = NoServer
  /\ rowLock = [r \in LockedRow |-> NoServer]
  /\ nextId = 1

------------------------------------------------------------------------------
AppendAt(s, pc) == appending[s].pc = pc

\* The transaction of s goes on to pc, knowing the tail and the id it inserts.
GoesOn(s, pc, tail, id) ==
  appending' = [appending EXCEPT ![s] =
    [pc |-> pc, row |-> appending[s].row, key |-> appending[s].key, tail |-> tail, id |-> id]]

\* A transaction begins, with a row lock to take or without.
beginAppend(s) ==
  /\ AppendAt(s, "idle")
  /\ \E row \in LockedRow \cup {NoRow}, key \in EventAction \cup {NoKey} :
       appending' = [appending EXCEPT ![s] =
         [pc |-> IF row = NoRow THEN "lock" ELSE "row", row |-> row, key |-> key,
          tail |-> 0, id |-> 0]]
  /\ UNCHANGED <<chainRows, chainLock, rowLock, nextId>>

lockRow(s) ==
  /\ AppendAt(s, "row")
  /\ rowLock[appending[s].row] = NoServer
  /\ rowLock' = [rowLock EXCEPT ![appending[s].row] = s]
  /\ GoesOn(s, "lock", 0, 0)
  /\ UNCHANGED <<chainRows, chainLock, nextId>>

\* Mutant: a release that takes the lock under a key of its own.
UnderAnotherKey == TRUE

ChainIsFree == chainLock = NoServer

\* appendAuditEventTxBound: pg_advisory_xact_lock.
lockChain(s) ==
  /\ AppendAt(s, "lock")
  /\ ChainIsFree
  /\ chainLock' = s
  /\ GoesOn(s, "dedupe", 0, 0)
  /\ UNCHANGED <<chainRows, rowLock, nextId>>

IsRecorded(key) == key # NoKey /\ \E r \in chainRows : r.key = key

findExisting(s) ==
  /\ AppendAt(s, "dedupe")
  /\ GoesOn(s, IF IsRecorded(appending[s].key) THEN "commit" ELSE "tail", 0, 0)
  /\ UNCHANGED <<chainRows, chainLock, rowLock, nextId>>

\* id is that of the last row.
IsTail(id) ==
  /\ \A r \in chainRows : r.id <= id
  /\ IF chainRows = {} THEN id = 0 ELSE \E r \in chainRows : r.id = id

readTail(s) ==
  /\ AppendAt(s, "tail")
  /\ \E id \in {r.id : r \in chainRows} \cup {0} : IsTail(id) /\ GoesOn(s, "insert", id, 0)
  /\ UNCHANGED <<chainRows, chainLock, rowLock, nextId>>

insertEvent(s) ==
  /\ AppendAt(s, "insert")
  /\ nextId <= MaxId
  /\ GoesOn(s, "commit", appending[s].tail, nextId)
  /\ nextId' = nextId + 1
  /\ UNCHANGED <<chainRows, chainLock, rowLock>>

\* The end of a transaction lets go of all its locks.
EndAppend(s) ==
  /\ appending' = [appending EXCEPT ![s] = NoAppend]
  /\ chainLock' = IF chainLock = s THEN NoServer ELSE chainLock
  /\ rowLock' = [r \in LockedRow |-> IF rowLock[r] = s THEN NoServer ELSE rowLock[r]]
  /\ UNCHANGED nextId

\* An insert against the unique index on provider event and action fails.
commitAppend(s) ==
  /\ AppendAt(s, "commit")
  /\ appending[s].id # 0 => ~IsRecorded(appending[s].key)
  /\ chainRows' = IF appending[s].id = 0 THEN chainRows
                  ELSE chainRows \cup {[id |-> appending[s].id, prev |-> appending[s].tail,
                                        key |-> appending[s].key]}
  /\ EndAppend(s)

\* A statement fails or the server dies.
rollbackAppend(s) ==
  /\ ~AppendAt(s, "idle")
  /\ EndAppend(s)
  /\ UNCHANGED chainRows

AppendStep(s) ==
  \/ beginAppend(s) \/ lockRow(s) \/ lockChain(s) \/ findExisting(s) \/ readTail(s)
  \/ insertEvent(s) \/ commitAppend(s) \/ rollbackAppend(s)

ChainNext == \E s \in Server : AppendStep(s)

ChainSpec == ChainInit /\ [][ChainNext]_chainVars

------------------------------------------------------------------------------
\* Properties.

\* The audit trail is one chain: every row names the row right before it in
\* the order of ids, so no two rows follow the same one and no row is left
\* out, whichever servers append at the same time, from inside which
\* transactions, and wherever one of them rolls back.
ChainIsLinear ==
  \A r \in chainRows :
    /\ r.prev < r.id
    /\ r.prev # 0 => \E q \in chainRows : q.id = r.prev
    /\ \A q \in chainRows : q.id <= r.prev \/ q.id >= r.id

\* With it, for the proof: what each step of a transaction has been told is
\* still true while it holds the lock.
HoldsChain(s) == appending[s].pc \in {"dedupe", "tail", "insert", "commit"}

AppendIsFresh ==
  /\ \A s \in Server : HoldsChain(s) => chainLock = s
  /\ \A r \in chainRows : r.id \in Nat /\ 0 < r.id /\ r.id < nextId
  /\ \A s \in Server :
       /\ AppendAt(s, "insert") => IsTail(appending[s].tail)
       /\ appending[s].id # 0 => /\ AppendAt(s, "commit")
                                 /\ IsTail(appending[s].tail)
                                 /\ appending[s].tail < appending[s].id
                                 /\ appending[s].id < nextId
==============================================================================
