------------------------------- MODULE Storage -------------------------------
(***************************************************************************)
(* pkg/database and pkg/cache as a service uses them together.  Readers    *)
(* call GetOrLoad with a loader that queries the pool, writers change two  *)
(* rows in WithTransaction and then Delete the key, health checks query    *)
(* the same pool.  A connection is held by at most one of them at a time.  *)
(*                                                                         *)
(* PostgreSQL shows committed rows only, and a row lock makes the second   *)
(* of two writers wait.  Any command of Redis or PostgreSQL may fail.      *)
(***************************************************************************)
EXTENDS Naturals, FiniteSets

CONSTANTS
  Readers, Writers, Checks,  \* calls of GetOrLoad, WithTransaction and HealthCheck, one each
  MaxConns,                  \* poolConfig.MaxConns
  None

ASSUME PoolIsNotEmpty == MaxConns \in Nat \ {0}

ASSUME CallsAreDistinct ==
  /\ IsFiniteSet(Writers) /\ None \notin Writers
  /\ Writers \cap (Readers \cup Checks) = {}

Actors == Readers \cup Writers \cup Checks

VARIABLES
  rows,     \* the committed number of transactions that changed each row
  rowLock,  \* the writer whose transaction has changed rows
  written,  \* the rows it has changed
  inUse,    \* who holds a connection of the pool
  cache,    \* the cached value: the state of the first row at some time
  expires,  \* whether the key has a TTL
  pc, value, \* of each actor
  outcome   \* what WithTransaction or HealthCheck returned

redis == <<cache, expires>>
pg    == <<rows, rowLock, written>>
vars  == <<pg, inUse, redis, pc, value, outcome>>

Rows == {"user", "order"}
Value == 0 .. Cardinality(Writers)

TypeOK ==
  /\ rows \in [Rows -> Value]
  /\ rowLock \in Writers \cup {None}
  /\ written \subseteq Rows
  /\ inUse \subseteq Actors /\ Cardinality(inUse) <= MaxConns
  /\ cache \in Value \cup {None} /\ expires \in BOOLEAN
  /\ pc \in [Actors -> {"idle", "acquire", "query", "set", "exec", "rollback", "panic",
                        "commit", "delete", "stats", "done"}]
  /\ value \in [Readers -> Value \cup {None}]
  /\ outcome \in [Writers \cup Checks -> {"none", "nil", "error", "panic", "unknown"}]

Init ==
  /\ rows = [r \in Rows |-> 0] /\ rowLock = None /\ written = {}
  /\ inUse = {}
  /\ cache = None /\ expires = FALSE
  /\ pc = [a \in Actors |-> "idle"]
  /\ value = [r \in Readers |-> None]
  /\ outcome = [a \in Writers \cup Checks |-> "none"]

Goes(a, from, to) == pc[a] = from /\ pc' = [pc EXCEPT ![a] = to]

-----------------------------------------------------------------------------
(* The pool: every query and every Begin waits for a connection *)

Acquires(a) == Cardinality(inUse) < MaxConns /\ inUse' = inUse \cup {a}
Releases(a) == inUse' = inUse \ {a}

Acquire(a) ==
  /\ Goes(a, "acquire", IF a \in Writers THEN "exec" ELSE "query")
  /\ Acquires(a)
  /\ UNCHANGED <<pg, redis, value, outcome>>

\* The context of the caller ends first, or no connection can be made.
AcquireFails(a) ==
  /\ Goes(a, "acquire", "done")
  /\ outcome' = [x \in DOMAIN outcome |-> IF x = a THEN "error" ELSE outcome[x]]
  /\ UNCHANGED <<pg, inUse, redis, value>>

-----------------------------------------------------------------------------
(* GetOrLoad *)

\* redis.Nil is the only error that calls the loader.
Get(r) ==
  /\ \/ cache # None /\ Goes(r, "idle", "done") /\ value' = [value EXCEPT ![r] = cache]
     \/ cache = None /\ Goes(r, "idle", "acquire") /\ UNCHANGED value
     \/ Goes(r, "idle", "done") /\ UNCHANGED value
  /\ UNCHANGED <<pg, inUse, redis, outcome>>

Load(r) ==
  /\ r \in Readers /\ Releases(r)
  /\ \/ Goes(r, "query", "set") /\ value' = [value EXCEPT ![r] = rows["user"]]
     \/ Goes(r, "query", "done") /\ UNCHANGED value
  /\ UNCHANGED <<pg, redis, outcome>>

\* Redis SET with the TTL that the caller chose; 0 means that the key never
\* expires (cache.go:51).
Stored(v) == cache' = v /\ expires' \in BOOLEAN

\* An error of Set is dropped: the caller has its value.
SetLoaded(r) ==
  /\ Goes(r, "set", "done")
  /\ Stored(value[r]) \/ UNCHANGED redis
  /\ UNCHANGED <<pg, inUse, value, outcome>>

\* Redis drops a key when its TTL, if it has one, is over.
Expire ==
  /\ cache # None /\ expires
  /\ cache' = None /\ expires' = FALSE
  /\ UNCHANGED <<pg, inUse, pc, value, outcome>>

-----------------------------------------------------------------------------
(* WithTransaction, and the Delete that its caller adds *)

Begin(w) ==
  /\ Goes(w, "idle", "acquire")
  /\ UNCHANGED <<pg, inUse, redis, value, outcome>>

Exec(w, row) ==
  /\ pc[w] = "exec" /\ rowLock \in {None, w} /\ row \notin written
  /\ row = "order" => "user" \in written
  /\ rowLock' = w
  /\ written' = written \cup {row}
  /\ UNCHANGED <<rows, inUse, redis, pc, value, outcome>>

\* fn returns nil after both rows, an error or a panic at any time.
FnReturns(w) ==
  /\ \/ written = Rows /\ rowLock = w /\ Goes(w, "exec", "commit")
     \/ Goes(w, "exec", "rollback")
     \/ Goes(w, "exec", "panic")
  /\ UNCHANGED <<pg, inUse, redis, value, outcome>>

\* The transaction is over, its locks and its connection are free.
Ends(w, how) ==
  /\ outcome' = [outcome EXCEPT ![w] = how]
  /\ rowLock' = IF rowLock = w THEN None ELSE rowLock
  /\ written' = IF rowLock = w THEN {} ELSE written
  /\ Releases(w)

Committed == [r \in Rows |-> IF r \in written THEN rows[r] + 1 ELSE rows[r]]

\* pgx gives the connection back whatever comes of the ROLLBACK; without one
\* PostgreSQL rolls back when the connection closes.
CommitsAnyway(w) ==   \* mutant: a deferred Commit, whatever fn returned
  /\ Goes(w, "rollback", "done")
  /\ rows' = IF rowLock = w THEN Committed ELSE rows
  /\ Ends(w, "error")
  /\ UNCHANGED <<redis, value>>

Rollback(w) ==
  /\ Goes(w, "rollback", "done") /\ Ends(w, "error")
  /\ UNCHANGED <<rows, redis, value>>

OnlyPanics(w) ==   \* mutant: no rollback in the deferred function
  /\ Goes(w, "panic", "done")
  /\ outcome' = [outcome EXCEPT ![w] = "panic"]
  /\ UNCHANGED <<pg, inUse, redis, value>>

RollbackOnPanic(w) ==
  /\ Goes(w, "panic", "done") /\ Ends(w, "panic")
  /\ UNCHANGED <<rows, redis, value>>

Commit(w) ==
  /\ Goes(w, "commit", "delete")
  /\ rows' = Committed
  /\ Ends(w, "nil")
  /\ UNCHANGED <<redis, value>>

\* An error says nothing of what the server did, and the caller sees a failure.
CommitFails(w) ==
  /\ Goes(w, "commit", "done")
  /\ rows' \in {rows, Committed}
  /\ Ends(w, "unknown")
  /\ UNCHANGED <<redis, value>>

Delete(w) ==
  /\ Goes(w, "delete", "done")
  /\ \/ cache' = None /\ expires' = FALSE
     \/ UNCHANGED redis
  /\ UNCHANGED <<pg, inUse, value, outcome>>

-----------------------------------------------------------------------------
(* HealthCheck *)

CheckHealth(h) ==
  /\ Goes(h, "idle", "acquire")
  /\ UNCHANGED <<pg, inUse, redis, value, outcome>>

CheckScan(h) ==
  /\ h \in Checks /\ Releases(h)
  /\ \/ Goes(h, "query", "stats") /\ UNCHANGED outcome
     \/ Goes(h, "query", "done") /\ outcome' = [outcome EXCEPT ![h] = "error"]
  /\ UNCHANGED <<pg, redis, value>>

\* The statistics are read after its own connection was given back.
Exhausted == Cardinality(inUse) = MaxConns

CheckStats(h) ==
  /\ Goes(h, "stats", "done")
  /\ outcome' = [outcome EXCEPT ![h] = IF Exhausted THEN "error" ELSE "nil"]
  /\ UNCHANGED <<pg, inUse, redis, value>>

-----------------------------------------------------------------------------

WriterEnds(w) == FnReturns(w) \/ Rollback(w) \/ RollbackOnPanic(w) \/ Commit(w) \/ CommitFails(w)

Step(a) ==
  \/ a \in Readers /\ (Load(a) \/ SetLoaded(a))
  \/ a \in Writers /\ (WriterEnds(a) \/ Delete(a))
  \/ a \in Checks /\ (CheckScan(a) \/ CheckStats(a))

Next ==
  \/ \E r \in Readers : Get(r)
  \/ \E w \in Writers : Begin(w) \/ \E row \in Rows : Exec(w, row)
  \/ \E h \in Checks : CheckHealth(h)
  \/ \E a \in Actors : Acquire(a) \/ AcquireFails(a) \/ Step(a)
  \/ Expire

\* Commands are answered or fail, transaction functions return and the pool
\* hands out connections; no context needs to end.
Fairness == \A a \in Actors : WF_vars(Step(a)) /\ WF_vars(Acquire(a))

Spec == Init /\ [][Next]_vars /\ Fairness

-----------------------------------------------------------------------------
(* Properties *)

Said(how) == Cardinality({w \in Writers : outcome[w] = how})

\* What becomes visible is a whole transaction: one whose function failed or
\* panicked between its two statements leaves nothing, and none that returned
\* nil is missing (pool.go:138-168).
AllOrNothing ==
  /\ rows["user"] = rows["order"]
  /\ rows["user"] \in Said("nil") .. Said("nil") + Said("unknown")

\* Every call that waits for a connection ends, although the pool is smaller
\* than the number of callers: a transaction gives its connection back on
\* every way out (pool.go:144-167).
CallsEnd == \A a \in Actors : pc[a] = "acquire" ~> pc[a] = "done"

\* A reader that starts after WithTransaction and Delete have succeeded sees
\* what was written.  Not promised, and not true: a loader may read before the
\* transaction and Set after the Delete, and with a TTL of 0 what it stored
\* stays (redis.go:102-127).
WrittenIsRead ==
  (\A w \in Writers : pc[w] = "done" /\ outcome[w] = "nil") =>
    cache \in {None, rows["user"]}
=============================================================================
