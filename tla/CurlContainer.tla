--------------------------- MODULE CurlContainer ---------------------------
(***************************************************************************)
(* CurlContainer, the pool of easy handles both curl transports draw from: *)
(* it grows on demand up to maxPoolSize_, then makes its users wait.  The  *)
(* handles are interchangeable, so the pool is the number of its free      *)
(* ones.  A user is a thread inside Acquire; the modules that extend this  *)
(* one say what users do with a handle and when they release it.           *)
(***************************************************************************)
EXTENDS Integers, FiniteSets

CONSTANTS
    Users,             (* the threads that ask for handles                 *)
    MaxPoolSize,       (* maxPoolSize_                                     *)
    MaxInitFailures    (* bound: how often curl_easy_init fails            *)

ASSUME ContainerAssumption ==
    /\ IsFiniteSet(Users)
    /\ MaxPoolSize \in Nat \ {0}
    /\ MaxInitFailures \in Nat

VARIABLES
    free,              (* the size of ResourceManager::m_resources         *)
    poolSize,          (* poolSize_                                        *)
    growing,           (* {u} while user u holds containerLock_            *)
    toAdd,             (* growPool: the handles left to make ...           *)
    added,             (* ... and actuallyAdded                            *)
    acquiring,         (* acquiring[u]: where user u is inside Acquire     *)
    initFailures

poolVars == <<free, poolSize, growing, toAdd, added, acquiring, initFailures>>

Smaller(m, n) == IF m < n THEN m ELSE n

PoolInit ==
    /\ free = 0
    /\ poolSize = 0
    /\ growing = {}
    /\ toAdd = 0
    /\ added = 0
    /\ acquiring = [u \in Users |-> "no"]
    /\ initFailures = 0

At(u, from, to) ==
    /\ acquiring[u] = from
    /\ acquiring' = [acquiring EXCEPT ![u] = to]

\* HasResourcesAvailable
Look(u) ==
    /\ At(u, "no", IF free > 0 THEN "take" ELSE "lock")
    /\ UNCHANGED <<free, poolSize, growing, toAdd, added, initFailures>>

\* Mutant of GrowBegin: the room that is left is not looked at.
GrowBeginUnbounded(u) ==
    /\ growing = {}
    /\ At(u, "lock", "grow")
    /\ growing' = {u}
    /\ toAdd' = 2 * (IF poolSize > 0 THEN poolSize ELSE 1)
    /\ added' = 0
    /\ UNCHANGED <<free, poolSize, initFailures>>

\* growPool: doubling, and all of it under containerLock_.
GrowBegin(u) ==
    /\ growing = {}
    /\ IF poolSize < MaxPoolSize
       THEN /\ At(u, "lock", "grow")
            /\ growing' = {u}
            /\ toAdd' = Smaller(2 * (IF poolSize > 0 THEN poolSize ELSE 1),
                                MaxPoolSize - poolSize)
            /\ added' = 0
       ELSE At(u, "lock", "take") /\ UNCHANGED <<growing, toAdd, added>>
    /\ UNCHANGED <<free, poolSize, initFailures>>

\* A new handle is free for anybody before poolSize_ counts it.
GrowOne(u) ==
    /\ toAdd > 0
    /\ acquiring[u] = "grow"
    /\ free' = free + 1
    /\ toAdd' = toAdd - 1
    /\ added' = added + 1
    /\ UNCHANGED <<poolSize, growing, acquiring, initFailures>>

GrowFails(u) ==
    /\ toAdd > 0
    /\ acquiring[u] = "grow"
    /\ initFailures < MaxInitFailures
    /\ initFailures' = initFailures + 1
    /\ toAdd' = 0
    /\ UNCHANGED <<free, poolSize, growing, added, acquiring>>

GrowEnd(u) ==
    /\ toAdd = 0
    /\ At(u, "grow", "take")
    /\ poolSize' = poolSize + added
    /\ growing' = {}
    /\ added' = 0
    /\ UNCHANGED <<free, toAdd, initFailures>>

\* ResourceManager::Acquire waits for a handle; whoever comes first takes it.
Take(u) ==
    /\ free > 0
    /\ At(u, "take", "no")
    /\ free' = free - 1
    /\ UNCHANGED <<poolSize, growing, toAdd, added, initFailures>>

\* ResourceManager::Release
ReleaseHandle ==
    /\ free' = free + 1
    /\ UNCHANGED <<poolSize, growing, toAdd, added, acquiring, initFailures>>

Growth(u) == GrowBegin(u) \/ GrowOne(u) \/ GrowFails(u) \/ GrowEnd(u)

\* ShutdownAndWait(poolSize_) returns.
AllReturned == free = poolSize

PoolTypeOK ==
    /\ free \in 0..MaxPoolSize
    /\ poolSize \in 0..MaxPoolSize
    /\ growing \in {{}} \union {{u} : u \in Users}
    /\ toAdd \in 0..MaxPoolSize
    /\ added \in 0..MaxPoolSize
    /\ acquiring \in [Users -> {"no", "lock", "grow", "take"}]
    /\ initFailures \in 0..MaxInitFailures
=============================================================================
