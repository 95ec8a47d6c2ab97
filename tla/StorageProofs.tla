---------------------------- MODULE StorageProofs ----------------------------
(***************************************************************************)
(* AllOrNothing for any number of readers, writers and health checks and   *)
(* any size of the pool.  The committed rows are counted against the       *)
(* outcomes, so the invariant has to know that a transaction that is not   *)
(* over has said nothing yet, and that one about to commit holds the row   *)
(* locks and has changed both rows.                                        *)
(***************************************************************************)
EXTENDS Storage, FiniteSetTheorems, TLAPS

Outcomes == {"none", "nil", "error", "panic", "unknown"}
Under    == {"idle", "acquire", "exec", "rollback", "panic", "commit"}
Places   == Under \cup {"query", "set", "delete", "stats", "done"}

Shape ==
  /\ rows \in [Rows -> Nat]
  /\ written \subseteq Rows
  /\ rowLock \in Writers \cup {None}
  /\ pc \in [Actors -> Places]
  /\ outcome \in [Writers \cup Checks -> Outcomes]

WriterInv(w) ==
  /\ pc[w] \in Under => outcome[w] = "none"
  /\ pc[w] \in Under \cup {"delete", "done"}
  /\ pc[w] = "commit" => written = Rows /\ rowLock = w

WritersInv == \A w \in Writers : WriterInv(w)

IInv == Shape /\ WritersInv /\ AllOrNothing

\* How many writers were told something is a number.
LEMMA SaidIsNat ==
  ASSUME NEW how
  PROVE  Said(how) \in Nat
<1> DEFINE S == {w \in Writers : outcome[w] = how}
<1>1. IsFiniteSet(S)
  BY CallsAreDistinct, FS_Subset
<1> QED
  BY <1>1, FS_CardinalityType DEF Said

\* A writer that ends is counted under what it was told.
LEMMA SaidGrows ==
  ASSUME Shape, NEW w \in Writers, outcome[w] = "none", NEW how \in Outcomes \ {"none"},
         outcome' = [outcome EXCEPT ![w] = how]
  PROVE  \A h \in Outcomes \ {"none"} : Said(h)' = IF h = how THEN Said(h) + 1 ELSE Said(h)
<1> TAKE h \in Outcomes \ {"none"}
<1> DEFINE S == {x \in Writers : outcome[x] = h}
           T == {x \in Writers : outcome'[x] = h}
<1>1. IsFiniteSet(S) /\ w \notin S
  BY CallsAreDistinct, FS_Subset
<1>2. \A x \in Writers : outcome'[x] = IF x = w THEN how ELSE outcome[x]
  BY DEF Shape
<1>3. CASE h = how
  <2>1. T = S \cup {w}
    BY <1>2, <1>3
  <2>2. Cardinality(T) = Cardinality(S) + 1
    BY <1>1, <2>1, FS_AddElement
  <2> QED
    BY <1>3, <2>2 DEF Said
<1>4. CASE h # how
  <2>1. T = S
    BY <1>2, <1>4
  <2> QED
    BY <1>4, <2>1 DEF Said
<1> QED
  BY <1>3, <1>4

LEMMA InitIInv == Init => IInv
<1> SUFFICES ASSUME Init PROVE IInv
  OBVIOUS
<1>1. Shape
  BY DEF Init, Shape, Outcomes, Rows, Actors, Places, Under
<1>2. WritersInv
  BY DEF Init, WritersInv, WriterInv, Under, Actors
<1>3. \A how \in {"nil", "unknown"} : Said(how) = 0
  <2> TAKE how \in {"nil", "unknown"}
  <2>1. {w \in Writers : outcome[w] = how} = {}
    BY DEF Init
  <2> QED
    BY <2>1, FS_EmptySet DEF Said
<1>4. AllOrNothing
  BY <1>3 DEF Init, AllOrNothing, Rows
<1> QED
  BY <1>1, <1>2, <1>4 DEF IInv

\* Steps that leave the database and the writers' outcomes alone.
LEMMA NothingCommitted ==
  ASSUME AllOrNothing, rows' = rows,
         \A w \in Writers : \A h \in {"nil", "unknown"} : outcome'[w] = h <=> outcome[w] = h
  PROVE  AllOrNothing'
<1>1. Said("nil")' = Said("nil") /\ Said("unknown")' = Said("unknown")
  BY DEF Said
<1> QED
  BY <1>1 DEF AllOrNothing

\* Readers and health checks touch no transaction.
LEMMA OthersKeep ==
  ASSUME IInv, NEW a \in Actors \ Writers, NEW to \in Places, pc' = [pc EXCEPT ![a] = to],
         UNCHANGED pg,
         outcome' \in [Writers \cup Checks -> Outcomes], \A w \in Writers : outcome'[w] = outcome[w]
  PROVE  IInv'
<1>1. Shape'
  BY DEF IInv, Shape, pg
<1>2. \A w \in Writers : pc'[w] = pc[w]
  BY DEF IInv, Shape, Actors
<1>3. WritersInv'
  BY <1>2 DEF IInv, WritersInv, WriterInv, pg
<1>4. AllOrNothing'
  BY NothingCommitted DEF IInv, pg
<1> QED
  BY <1>1, <1>3, <1>4 DEF IInv

LEMMA ReaderKeeps ==
  ASSUME IInv, NEW r \in Readers, Get(r) \/ Load(r) \/ SetLoaded(r)
  PROVE  IInv'
<1>1. r \in Actors \ Writers
  BY CallsAreDistinct DEF Actors
<1>2. UNCHANGED <<pg, outcome>>
  BY DEF Get, Load, SetLoaded
<1>3. PICK to \in Places : pc' = [pc EXCEPT ![r] = to]
  BY DEF Get, Load, SetLoaded, Goes, Places, Under
<1> QED
  BY <1>1, <1>2, <1>3, OthersKeep DEF IInv, Shape

LEMMA CheckKeeps ==
  ASSUME IInv, NEW h \in Checks, CheckHealth(h) \/ CheckScan(h) \/ CheckStats(h)
  PROVE  IInv'
<1>1. h \in Actors \ Writers
  BY CallsAreDistinct DEF Actors
<1>2. UNCHANGED pg
  BY DEF CheckHealth, CheckScan, CheckStats
<1>3. PICK to \in Places : pc' = [pc EXCEPT ![h] = to]
  BY DEF CheckHealth, CheckScan, CheckStats, Goes, Places, Under
<1>4. outcome' = outcome \/ \E how \in Outcomes : outcome' = [outcome EXCEPT ![h] = how]
  BY DEF CheckHealth, CheckScan, CheckStats, Outcomes
<1>5. outcome' \in [Writers \cup Checks -> Outcomes] /\ \A w \in Writers : outcome'[w] = outcome[w]
  BY <1>1, <1>4 DEF IInv, Shape
<1> QED
  BY <1>1, <1>2, <1>3, <1>5, OthersKeep

\* A writer's step that goes on inside its transaction, or after it.
LEMMA WriterGoesOn ==
  ASSUME IInv, NEW w \in Writers, NEW from \in Places, NEW to \in Places, Goes(w, from, to),
         UNCHANGED <<pg, outcome>>,
         to \in Under \cup {"delete", "done"},
         to \in Under => from \in Under,
         to = "commit" => written = Rows /\ rowLock = w
  PROVE  IInv'
<1>1. pc[w] = from /\ pc' = [pc EXCEPT ![w] = to] /\ w \in Actors
  BY DEF Goes, Actors
<1>2. Shape'
  BY <1>1 DEF IInv, Shape, pg
<1>3. ASSUME NEW x \in Writers PROVE WriterInv(x)'
  <2>1. WriterInv(x)
    BY DEF IInv, WritersInv
  <2>2. CASE x = w
    BY <1>1, <2>1, <2>2 DEF IInv, Shape, WriterInv, pg
  <2>3. CASE x # w
    BY <1>1, <2>1, <2>3 DEF IInv, Shape, WriterInv, pg, Actors
  <2> QED
    BY <2>2, <2>3
<1>4. AllOrNothing'
  BY NothingCommitted DEF IInv, pg
<1> QED
  BY <1>2, <1>3, <1>4 DEF IInv, WritersInv

\* Pool and context: an outcome that AcquireFails gives is an error.
LEMMA AcquireKeeps ==
  ASSUME IInv, NEW a \in Actors, Acquire(a) \/ AcquireFails(a)
  PROVE  IInv'
<1>1. CASE a \in Writers /\ Acquire(a)
  <2>1. Goes(a, "acquire", "exec") /\ UNCHANGED <<pg, outcome>>
    BY <1>1 DEF Acquire
  <2> QED
    BY <1>1, <2>1, WriterGoesOn DEF Under, Places
<1>2. CASE a \notin Writers /\ Acquire(a)
  <2>1. pc' = [pc EXCEPT ![a] = "query"] /\ UNCHANGED <<pg, outcome>>
    BY <1>2 DEF Acquire, Goes
  <2> QED
    BY <1>2, <2>1, OthersKeep DEF IInv, Shape, Places, Under
<1>3. CASE a \notin Writers /\ AcquireFails(a)
  <2>1. outcome' \in [Writers \cup Checks -> Outcomes] /\ \A w \in Writers : outcome'[w] = outcome[w]
    BY <1>3 DEF AcquireFails, IInv, Shape, Outcomes
  <2> QED
    BY <1>3, <2>1, OthersKeep DEF AcquireFails, Goes, Places, Under
<1>4. CASE a \in Writers /\ AcquireFails(a)
  <2>1. pc[a] = "acquire" /\ outcome[a] = "none"
    BY <1>4 DEF AcquireFails, Goes, IInv, WritersInv, WriterInv, Under
  <2>2. /\ pc' = [pc EXCEPT ![a] = "done"] /\ UNCHANGED pg
        /\ outcome' = [outcome EXCEPT ![a] = "error"]
    BY <1>4 DEF AcquireFails, Goes, IInv, Shape
  <2>3. Shape'
    BY <2>2 DEF IInv, Shape, pg, Outcomes, Places, Under
  <2>4. WritersInv'
    BY <2>2 DEF IInv, Shape, WritersInv, WriterInv, pg, Under, Actors
  <2>5. AllOrNothing'
    BY <1>4, <2>1, <2>2, NothingCommitted DEF IInv, Shape, pg
  <2> QED
    BY <2>3, <2>4, <2>5 DEF IInv
<1> QED
  BY <1>1, <1>2, <1>3, <1>4

LEMMA ExecKeeps ==
  ASSUME IInv, NEW w \in Writers, NEW row \in Rows, Exec(w, row)
  PROVE  IInv'
<1>1. Shape'
  BY DEF IInv, Shape, Exec
<1>2. ASSUME NEW x \in Writers PROVE WriterInv(x)'
  <2>1. pc'[x] = pc[x] /\ outcome'[x] = outcome[x] /\ WriterInv(x)
    BY DEF Exec, IInv, WritersInv
  <2>2. pc[x] # "commit"
    BY <2>1, CallsAreDistinct DEF Exec, WriterInv
  <2> QED
    BY <2>1, <2>2 DEF WriterInv
<1>3. AllOrNothing'
  BY NothingCommitted DEF IInv, Exec
<1> QED
  BY <1>1, <1>2, <1>3 DEF IInv, WritersInv

\* The end of a transaction, whatever it said: the lock it gives up is its own.
LEMMA EndsKeeps ==
  ASSUME IInv, NEW w \in Writers, NEW to \in {"delete", "done"}, NEW how \in Outcomes,
         pc[w] \in Under, pc' = [pc EXCEPT ![w] = to], Ends(w, how),
         rows' \in [Rows -> Nat], AllOrNothing'
  PROVE  IInv'
<1>1. Shape'
  BY CallsAreDistinct DEF IInv, Shape, Ends, Places, Under
<1>2. ASSUME NEW x \in Writers PROVE WriterInv(x)'
  <2>1. WriterInv(x)
    BY DEF IInv, WritersInv
  <2>2. CASE x = w
    BY <2>2 DEF IInv, Shape, WriterInv, Under, Actors
  <2>3. CASE x # w
    BY <2>1, <2>3 DEF IInv, Shape, WriterInv, Ends, Actors
  <2> QED
    BY <2>2, <2>3
<1> QED
  BY <1>1, <1>2 DEF IInv, WritersInv

LEMMA RollbackKeeps ==
  ASSUME IInv, NEW w \in Writers, Rollback(w) \/ RollbackOnPanic(w)
  PROVE  IInv'
<1>1. PICK how \in {"error", "panic"} : Ends(w, how)
  BY DEF Rollback, RollbackOnPanic
<1>2. pc[w] \in Under /\ pc' = [pc EXCEPT ![w] = "done"] /\ rows' = rows
  BY DEF Rollback, RollbackOnPanic, Goes, Under
<1>3. outcome[w] = "none"
  BY <1>2 DEF IInv, WritersInv, WriterInv
<1>4. AllOrNothing'
  BY <1>1, <1>2, <1>3, NothingCommitted DEF IInv, Shape, Ends
<1> QED
  BY <1>1, <1>2, <1>4, EndsKeeps DEF IInv, Shape, Outcomes

\* A COMMIT of both rows counts for both, and so does what its caller is told.
LEMMA CommitKeeps ==
  ASSUME IInv, NEW w \in Writers, Commit(w) \/ CommitFails(w)
  PROVE  IInv'
<1>1. pc[w] = "commit" /\ written = Rows /\ outcome[w] = "none"
  BY DEF Commit, CommitFails, Goes, IInv, WritersInv, WriterInv, Under
<1>2. Committed \in [Rows -> Nat] /\ \A r \in Rows : Committed[r] = rows[r] + 1
  BY <1>1 DEF Committed, IInv, Shape
<1>3. Said("nil") \in Nat /\ Said("unknown") \in Nat
  BY SaidIsNat
<1>4. CASE Commit(w)
  <2>1. Ends(w, "nil") /\ rows' = Committed /\ pc' = [pc EXCEPT ![w] = "delete"]
    BY <1>4 DEF Commit, Goes
  <2>2. Said("nil")' = Said("nil") + 1 /\ Said("unknown")' = Said("unknown")
    BY <1>1, <2>1, SaidGrows DEF Ends, IInv, Outcomes
  <2>3. AllOrNothing'
    BY <1>2, <1>3, <2>1, <2>2 DEF AllOrNothing, IInv, Shape, Rows
  <2> QED
    BY <1>1, <1>2, <2>1, <2>3, EndsKeeps DEF Outcomes, Under
<1>5. CASE CommitFails(w)
  <2>1. Ends(w, "unknown") /\ rows' \in {rows, Committed} /\ pc' = [pc EXCEPT ![w] = "done"]
    BY <1>5 DEF CommitFails, Goes
  <2>2. Said("nil")' = Said("nil") /\ Said("unknown")' = Said("unknown") + 1
    BY <1>1, <2>1, SaidGrows DEF Ends, IInv, Outcomes
  <2>3. AllOrNothing'
    BY <1>2, <1>3, <2>1, <2>2 DEF AllOrNothing, IInv, Shape, Rows
  <2> QED
    BY <1>1, <1>2, <2>1, <2>3, EndsKeeps DEF Outcomes, Under, IInv, Shape
<1> QED
  BY <1>4, <1>5

LEMMA WriterKeeps ==
  ASSUME IInv, NEW w \in Writers, Begin(w) \/ FnReturns(w) \/ Delete(w)
  PROVE  IInv'
<1>1. CASE Begin(w)
  BY <1>1, WriterGoesOn DEF Begin, Under, Places
<1>2. CASE FnReturns(w)
  <2>1. UNCHANGED <<pg, outcome>>
    BY <1>2 DEF FnReturns
  <2>2. CASE written = Rows /\ rowLock = w /\ Goes(w, "exec", "commit")
    BY <2>1, <2>2, WriterGoesOn DEF Under, Places
  <2>3. CASE Goes(w, "exec", "rollback") \/ Goes(w, "exec", "panic")
    BY <2>1, <2>3, WriterGoesOn DEF Under, Places
  <2> QED
    BY <1>2, <2>2, <2>3 DEF FnReturns
<1>3. CASE Delete(w)
  BY <1>3, WriterGoesOn DEF Delete, Under, Places
<1> QED
  BY <1>1, <1>2, <1>3

LEMMA NextIInv == IInv /\ [Next]_vars => IInv'
<1> SUFFICES ASSUME IInv, [Next]_vars PROVE IInv'
  OBVIOUS
<1>1. CASE UNCHANGED <<pg, pc, outcome>>
  BY <1>1 DEF IInv, Shape, WritersInv, WriterInv, AllOrNothing, Said, pg
<1>2. ASSUME NEW r \in Readers, Get(r) PROVE IInv'
  BY <1>2, ReaderKeeps
<1>3. ASSUME NEW w \in Writers, Begin(w) PROVE IInv'
  BY <1>3, WriterKeeps
<1>4. ASSUME NEW w \in Writers, NEW row \in Rows, Exec(w, row) PROVE IInv'
  BY <1>4, ExecKeeps
<1>5. ASSUME NEW h \in Checks, CheckHealth(h) PROVE IInv'
  BY <1>5, CheckKeeps
<1>6. ASSUME NEW a \in Actors, Acquire(a) \/ AcquireFails(a) PROVE IInv'
  BY <1>6, AcquireKeeps
<1>7. ASSUME NEW a \in Actors, Step(a) PROVE IInv'
  BY <1>7, ReaderKeeps, WriterKeeps, RollbackKeeps, CommitKeeps, CheckKeeps DEF Step, WriterEnds
<1>8. CASE Expire
  BY <1>1, <1>8 DEF Expire
<1>9. CASE UNCHANGED vars
  BY <1>1, <1>9 DEF vars
<1> QED
  BY <1>2, <1>3, <1>4, <1>5, <1>6, <1>7, <1>8, <1>9 DEF Next

\* Whatever transactions, readers and health checks share the pool and
\* whichever statement, function or COMMIT fails, what is visible is whole
\* transactions, at least those that returned nil (pool.go:138-168).
THEOREM TransactionsAreWhole == Spec => []AllOrNothing
<1>1. IInv => AllOrNothing
  BY DEF IInv
<1> QED
  BY InitIInv, NextIInv, <1>1, PTL DEF Spec
=============================================================================
