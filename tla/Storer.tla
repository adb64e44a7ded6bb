-------------------------------- MODULE Storer --------------------------------
(***************************************************************************)
(* storer.InMemoryStore: the values the SDK subtracts rates from.  A       *)
(* goroutine of its own deletes, at every tick of a ticker, the entries    *)
(* set longer ago than the TTL; the lock makes Get, Set and vacuum atomic. *)
(***************************************************************************)
EXTENDS Naturals

CONSTANTS StoreKeys, Values,
          TTL, Interval,   \* in units of the clock
          NoEntry

ASSUME StorerAssumption ==
    /\ TTL \in Nat /\ Interval \in Nat \ {0}
    /\ NoEntry \notin [value : Values, age : Nat]

VARIABLES cachedData,  \* entries, with the time since their timestamp
          ticker,      \* time to the next tick
          due,         \* the ticker's channel holds a tick
          sinceSet     \* history: time since a key was last set, up to Ancient

storeVars == <<cachedData, ticker, due, sinceSet>>

Ancient == TTL + Interval + 1

StoreInit ==
    /\ cachedData = [key \in StoreKeys |-> NoEntry]
    /\ ticker = Interval /\ due = FALSE
    /\ sinceSet = [key \in StoreKeys |-> Ancient]

Get(key) == cachedData[key]

\* Mutant of Set: the timestamp of an entry that is there already stays.
SetKeepsTimestamp(key, v) ==
    /\ cachedData' = [cachedData EXCEPT ![key] =
                        [value |-> v, age |-> IF @ = NoEntry THEN 0 ELSE @.age]]
    /\ sinceSet' = [sinceSet EXCEPT ![key] = 0]
    /\ UNCHANGED <<ticker, due>>

Set(key, v) ==
    /\ cachedData' = [cachedData EXCEPT ![key] = [value |-> v, age |-> 0]]
    /\ sinceSet' = [sinceSet EXCEPT ![key] = 0]
    /\ UNCHANGED <<ticker, due>>

\* Mutant of Expired: the TTL is counted from the vacuum before.
ExpiredLate(entry) == entry # NoEntry /\ entry.age > TTL + Interval

Expired(entry) == entry # NoEntry /\ entry.age > TTL

\* The goroutine takes the tick and runs vacuum.
StoreVacuum ==
    /\ due /\ due' = FALSE
    /\ cachedData' = [key \in StoreKeys |-> IF Expired(cachedData[key]) THEN NoEntry ELSE cachedData[key]]
    /\ UNCHANGED <<ticker, sinceSet>>

\* Time passes.  The goroutine is not late by as much as a unit of time.
Tick ==
    /\ ~due
    /\ ticker' = IF ticker = 1 THEN Interval ELSE ticker - 1
    /\ due' = (ticker = 1)
    /\ cachedData' = [key \in StoreKeys |->
                        IF cachedData[key] = NoEntry THEN NoEntry
                        ELSE [cachedData[key] EXCEPT !.age = @ + 1]]
    /\ sinceSet' = [key \in StoreKeys |-> IF sinceSet[key] = Ancient THEN Ancient ELSE sinceSet[key] + 1]
=============================================================================
