---------------------------- MODULE RateLimiter ----------------------------
(***************************************************************************)
(* NewRateLimiter (middleware/rate_limit.go): a sliding-window counter for *)
(* each key, in memory or in an external storage, read and written under   *)
(* the mutex of the key's slot, and given back by requests that fail.      *)
(***************************************************************************)
EXTENDS Integers, FiniteSets

CONSTANTS
  Requests,    \* the requests that go through the middleware
  Keys,        \* what KeyGenerator returns
  Slots,       \* the mutexes
  SlotOf,      \* crc32(key) & (rateLimiterMutexCount - 1)
  Limit,       \* opts.Max
  Expiration,  \* uint64(opts.Expiration.Seconds()): 0 below one second
  SkipFailed,  \* opts.SkipFailedRequests
  External,    \* an external storage instead of the cache
  Outcomes,    \* how the rest of the chain may end, see NextReturns
  MaxTime,     \* bound of the clock
  Prompt,      \* the storage answers before the clock moves on
  None         \* no request, no key

ASSUME LimiterAssumption ==
  /\ SlotOf \in [Keys -> Slots]
  /\ Limit \in Nat \ {0}
  /\ Expiration \in Nat /\ MaxTime \in Nat
  /\ SkipFailed \in BOOLEAN /\ External \in BOOLEAN /\ Prompt \in BOOLEAN
  /\ Outcomes \subseteq {"ok", "failed", "error", "panic"}
  /\ None \notin Requests \cup Keys

VARIABLES
  now,       \* the clock, in seconds
  store,     \* the entry stored for each key, and the second it is dropped in
  lock,      \* the holder of each mutex
  pc,        \* where each request is
  key,       \* its key
  entry,     \* its rateLimiterItem
  header,    \* its ts, resetTime and remaining
  counted,   \* history: the window (its exp) that counts the request, or 0
  refunded   \* history: the window that has given a hit back to it, or 0

local == <<pc, key, entry, header>>
vars  == <<now, store, lock, local, counted, refunded>>

Blank == [currHits |-> 0, prevHits |-> 0, exp |-> 0]

Init == /\ now = 1
        /\ store = [k \in Keys |-> [item |-> Blank, gone |-> 0]]
        /\ lock = [s \in Slots |-> None]
        /\ pc = [r \in Requests |-> "new"]
        /\ key = [r \in Requests |-> None]
        /\ entry = [r \in Requests |-> Blank]
        /\ header = [r \in Requests |-> [ts |-> 0, resetTime |-> 0, remaining |-> 0]]
        /\ counted = [r \in Requests |-> 0]
        /\ refunded = [r \in Requests |-> 0]

Slot(r)  == SlotOf[key[r]]
Goto(r, label) == pc' = [pc EXCEPT ![r] = label]

-----------------------------------------------------------------------------
\* load: the cache keeps an entry, an external storage drops it in the course of
\* the second "gone".  Which loads of that second still find it is left open.
Loaded(k) == (IF External => now <= store[k].gone THEN {store[k].item} ELSE {})
        \cup (IF External /\ now >= store[k].gone THEN {Blank} ELSE {})

\* Mutant: the storage is told to keep an entry from the end of its window on.
SavedLonger(k, item, ttl) ==
  store' = [store EXCEPT ![k] =
              [item |-> item, gone |-> IF External THEN item.exp + ttl ELSE 0]]

\* save: the storage counts the seconds it keeps the entry for from the moment of
\* the call, which is somewhere within the second "now".
Saved(k, item, ttl) ==
  store' = [store EXCEPT ![k] =
              [item |-> item, gone |-> IF External THEN now + ttl ELSE 0]]

\* Mutant: an expired entry starts a window that is longer than the others.
SetExpirationAdds(item, ts) ==
  IF item.exp = 0 THEN [item EXCEPT !.exp = ts + Expiration]
  ELSE IF ts < item.exp THEN item
  ELSE [currHits |-> 0, prevHits |-> item.currHits,
        exp |-> IF ts - item.exp >= Expiration THEN ts + Expiration
                ELSE ts + Expiration + (ts - item.exp)]

\* Mutant: the hits of the window that ends are not cleared.
SetExpirationKeeps(item, ts) ==
  IF item.exp = 0 THEN [item EXCEPT !.exp = ts + Expiration]
  ELSE IF ts < item.exp THEN item
  ELSE [currHits |-> item.currHits, prevHits |-> item.currHits,
        exp |-> IF ts - item.exp >= Expiration THEN ts + Expiration
                ELSE item.exp + Expiration]

\* setExpiration: windows follow each other without a gap, unless a whole
\* window has passed.
SetExpiration(item, ts) ==
  IF item.exp = 0 THEN [item EXCEPT !.exp = ts + Expiration]
  ELSE IF ts < item.exp THEN item
  ELSE [currHits |-> 0, prevHits |-> item.currHits,
        exp |-> IF ts - item.exp >= Expiration THEN ts + Expiration
                ELSE item.exp + Expiration]

-----------------------------------------------------------------------------
\* The middleware is called, and waits for its mutex.
Arrive(r, k) ==
  /\ pc[r] = "new"
  /\ key' = [key EXCEPT ![r] = k]
  /\ Goto(r, "locking")
  /\ UNCHANGED <<now, store, lock, entry, header, counted, refunded>>

\* Mutant: the mutexes are never locked.
LockNothing(r) ==
  /\ pc[r] \in {"locking", "relocking"}
  /\ Goto(r, IF pc[r] = "locking" THEN "loading" ELSE "reloading")
  /\ UNCHANGED <<now, store, lock, key, entry, header, counted, refunded>>

\* mtx.Lock(), before the request and before the refund.
Lock(r) ==
  /\ pc[r] \in {"locking", "relocking"}
  /\ lock[Slot(r)] = None
  /\ lock' = [lock EXCEPT ![Slot(r)] = r]
  /\ Goto(r, IF pc[r] = "locking" THEN "loading" ELSE "reloading")
  /\ UNCHANGED <<now, store, key, entry, header, counted, refunded>>

Unlock(r) == lock' = [lock EXCEPT ![Slot(r)] = None]

\* Mutant: the error path of load forgets the mutex.
StorageFailsLocked(r) ==
  /\ External
  /\ pc[r] \in {"loading", "saving", "reloading", "refunding"}
  /\ IF pc[r] = "loading" THEN UNCHANGED lock ELSE Unlock(r)
  /\ Goto(r, "answered")
  /\ UNCHANGED <<now, store, key, entry, header, counted, refunded>>

\* load or save returns an error, which the middleware returns.
StorageFails(r) ==
  /\ External
  /\ pc[r] \in {"loading", "saving", "reloading", "refunding"}
  /\ Unlock(r)
  /\ Goto(r, "answered")
  /\ UNCHANGED <<now, store, key, entry, header, counted, refunded>>

Load(r) ==
  /\ pc[r] = "loading"
  /\ \E item \in Loaded(key[r]) : entry' = [entry EXCEPT ![r] = item]
  /\ Goto(r, "counting")
  /\ UNCHANGED <<now, store, lock, key, header, counted, refunded>>

\* Mutant: the hit is counted after the rate is known.
CountLate(r) ==
  LET item  == SetExpiration(entry[r], now)
      reset == IF now < item.exp THEN item.exp - now ELSE 0
      rate  == (item.prevHits * reset) \div Expiration + item.currHits
  IN  /\ pc[r] = "counting"
      /\ entry' = [entry EXCEPT ![r] = [item EXCEPT !.currHits = @ + 1]]
      /\ header' = [header EXCEPT ![r] =
                      [ts |-> now, resetTime |-> reset, remaining |-> Limit - rate]]
      /\ Goto(r, "saving")
      /\ UNCHANGED <<now, store, lock, key, counted, refunded>>

\* The clock is read, the window advanced, the hit counted, and what is left
\* of the limit computed.  Dividing by an Expiration of zero panics: the
\* request ends with its mutex locked.
Count(r) ==
  LET moved == SetExpiration(entry[r], now)
      item  == [moved EXCEPT !.currHits = @ + 1]
      reset == IF now < item.exp THEN item.exp - now ELSE 0
      rate  == (item.prevHits * reset) \div Expiration + item.currHits
  IN  /\ pc[r] = "counting"
      /\ entry' = [entry EXCEPT ![r] = item]
      /\ IF Expiration = 0
           THEN Goto(r, "answered") /\ UNCHANGED header
           ELSE /\ Goto(r, "saving")
                /\ header' = [header EXCEPT ![r] =
                     [ts |-> now, resetTime |-> reset, remaining |-> Limit - rate]]
      /\ UNCHANGED <<now, store, lock, key, counted, refunded>>

\* The request is counted; then it is limited, or goes on, unless the storage
\* has done what it was told and fails to say so.
Save(r, acked) ==
  /\ pc[r] = "saving"
  /\ acked \/ External
  /\ Saved(key[r], entry[r], header[r].resetTime + Expiration)
  /\ counted' = [counted EXCEPT ![r] = entry[r].exp]
  /\ Unlock(r)
  /\ Goto(r, IF ~acked THEN "answered"
             ELSE IF header[r].remaining < 0 THEN "limited" ELSE "running")
  /\ UNCHANGED <<now, key, entry, header, refunded>>

\* The rest of the chain ends: "ok" and "failed" are a status below 400 or
\* not, "error" an error returned with the status not yet set, "panic" one
\* that NewPanic recovers further out.
NextReturns(r, outcome) ==
  /\ pc[r] = "running"
  /\ Goto(r, IF outcome = "failed"
               THEN IF SkipFailed THEN "relocking" ELSE "failed"
             ELSE IF outcome = "ok" THEN "succeeded"
             ELSE "failed")
  /\ UNCHANGED <<now, store, lock, key, entry, header, counted, refunded>>

Reload(r) ==
  /\ pc[r] = "reloading"
  /\ \E item \in Loaded(key[r]) : entry' = [entry EXCEPT ![r] = item]
  /\ Goto(r, "refunding")
  /\ UNCHANGED <<now, store, lock, key, header, counted, refunded>>

\* Mutant: a hit is taken even when there is none.
RefundAnyway(r, acked) ==
  /\ pc[r] = "refunding"
  /\ acked \/ External
  /\ entry' = [entry EXCEPT ![r].currHits = @ - 1]
  /\ header' = [header EXCEPT ![r].remaining = @ + 1]
  /\ Saved(key[r], entry'[r], Expiration)
  /\ refunded' = [refunded EXCEPT ![r] = entry[r].exp]
  /\ Unlock(r)
  /\ Goto(r, IF acked THEN "failed" ELSE "answered")
  /\ UNCHANGED <<now, key, counted>>

\* Mutant: the hit that is given back is taken from the entry that was read
\* before the chain ran.
RefundStale(r, acked) ==
  /\ pc[r] = "refunding"
  /\ acked \/ External
  /\ header' = [header EXCEPT ![r].remaining = @ + 1]
  /\ Saved(key[r], [currHits |-> Limit - header[r].remaining - 1, prevHits |-> 0,
                    exp |-> counted[r]], Expiration)
  /\ refunded' = [refunded EXCEPT ![r] = counted[r]]
  /\ Unlock(r)
  /\ Goto(r, IF acked THEN "failed" ELSE "answered")
  /\ UNCHANGED <<now, key, entry, counted>>

\* The hit is taken from the window that is stored now, if it has any.
Refund(r, acked) ==
  /\ pc[r] = "refunding"
  /\ acked \/ External
  /\ IF entry[r].currHits > 0
       THEN /\ entry' = [entry EXCEPT ![r].currHits = @ - 1]
            /\ header' = [header EXCEPT ![r].remaining = @ + 1]
            /\ Saved(key[r], entry'[r], Expiration)
            /\ refunded' = [refunded EXCEPT ![r] = entry[r].exp]
       ELSE UNCHANGED <<entry, header, store, refunded>>
  /\ Unlock(r)
  /\ Goto(r, IF acked THEN "failed" ELSE "answered")
  /\ UNCHANGED <<now, key, counted>>

-----------------------------------------------------------------------------
\* Time passes, also between two steps of a request that holds a mutex,
\* unless the storage is prompt.
Tick ==
  /\ now < MaxTime
  /\ Prompt => \A s \in Slots : lock[s] = None
  /\ now' = now + 1
  /\ UNCHANGED <<store, lock, local, counted, refunded>>

Ended(r) == pc[r] \in {"limited", "succeeded", "failed", "answered"}

\* Every request has its answer.
AllEnded == (\A r \in Requests : Ended(r)) /\ UNCHANGED vars

Step(r) ==
  \/ Lock(r) \/ Load(r) \/ Count(r) \/ Reload(r)
  \/ \E acked \in BOOLEAN : Save(r, acked) \/ Refund(r, acked)
  \/ \E outcome \in Outcomes : NextReturns(r, outcome)

Next ==
  \/ \E r \in Requests :
       \/ \E k \in Keys : Arrive(r, k)
       \/ Step(r) \/ StorageFails(r)
  \/ Tick
  \/ AllEnded

Spec == Init /\ [][Next]_vars

\* The rest of the chain returns, storage calls return, and a goroutine that
\* waits for a mutex gets it in the end (sync.Mutex hands it over to one that
\* has waited for a millisecond).
Fairness == \A r \in Requests : WF_vars(Step(r)) /\ SF_vars(Lock(r))

FairSpec == Spec /\ Fairness

-----------------------------------------------------------------------------
Items == [currHits : Nat, prevHits : Nat, exp : Nat]

TypeOK ==
  /\ now \in Nat
  /\ store \in [Keys -> [item : Items, gone : Nat]]
  /\ lock \in [Slots -> Requests \cup {None}]
  /\ pc \in [Requests -> {"new", "locking", "loading", "counting", "saving", "limited",
                          "running", "relocking", "reloading", "refunding",
                          "succeeded", "failed", "answered"}]
  /\ key \in [Requests -> Keys \cup {None}]
  /\ entry \in [Requests -> Items]
  /\ header \in [Requests -> [ts : Nat, resetTime : Nat, remaining : Int]]
  /\ counted \in [Requests -> Nat]
  /\ refunded \in [Requests -> Nat]

Counted(k, window)  == {r \in Requests : key[r] = k /\ counted[r] = window}
Refunded(k, window) == {r \in Requests : key[r] = k /\ refunded[r] = window}

\* No update is lost: the stored hits of a window are the requests it has
\* counted, less those that have got theirs back.
NoLostHit ==
  \A k \in Keys :
    LET window == store[k].item.exp
    IN  window # 0 => store[k].item.currHits
          = Cardinality(Counted(k, window)) - Cardinality(Refunded(k, window))

\* "Max number of connections during `Expiration` seconds before sending a
\* 429 response": of the requests a window counts, those that got their hit
\* back left aside, no more than the limit go on to the next handler.
WindowLimit ==
  \A k \in Keys, r \in Requests :
    counted[r] # 0 =>
      Cardinality({q \in Counted(k, counted[r]) :
                    pc[q] \notin {"limited", "answered"} /\ refunded[q] = 0})
        <= Limit

\* The requests of r's key that were counted less than n windows before r.
Recent(r, n) ==
  {q \in Requests : /\ key[q] = key[r]
                    /\ counted[q] # 0
                    /\ header[q].ts > header[r].ts - n * Expiration
                    /\ header[q].ts <= header[r].ts}

\* A request is limited only if its key has sent more than the limit during
\* the window it belongs to and the one before.  The storage does not see to it:
\* it may still have an entry whose window ended a whole window ago.
LimitedMeansBusy ==
  \A r \in Requests : pc[r] = "limited" => Cardinality(Recent(r, 2)) > Limit

\* What a storage that answers at once does see to: hits older than three
\* windows never limit a request.
LimitedMeansRecent ==
  \A r \in Requests : pc[r] = "limited" => Cardinality(Recent(r, 3)) > Limit

\* The X-RateLimit headers and Retry-After make sense: the window ends within
\* its size, and no more is left than the limit, even after a refund.
HeadersInRange ==
  \A r \in Requests :
    /\ pc[r] \in {"limited", "succeeded", "failed"} => header[r].resetTime \in 1..Expiration
    /\ pc[r] \in {"succeeded", "failed"} => header[r].remaining \in 0..Limit

\* "If true, requests with StatusCode >= 400 won't be counted": once a key is
\* quiet, its window counts nothing but requests that did not fail.
FailedNotCounted ==
  SkipFailed =>
    \A k \in Keys :
      LET window == store[k].item.exp
      IN  (\A r \in Requests : key[r] = k => pc[r] \in {"limited", "succeeded", "failed"})
          => store[k].item.currHits
               <= Cardinality({r \in Counted(k, window) : pc[r] # "failed"})

\* The window of a key never goes back, whatever order the requests that
\* share it, and the refunds, get the mutex in.
WindowForward ==
  [][\A k \in Keys : store'[k].item.exp >= store[k].item.exp]_vars

\* Every request that arrives is answered: no mutex is kept.
EveryRequestAnswered ==
  \A r \in Requests : (pc[r] = "locking") ~> Ended(r)

-----------------------------------------------------------------------------
\* What the steps amount to: the windows are the stored ones, and a request is
\* counted when its entry is saved, and judged by where it goes then.
Window  == [k \in Keys |-> [end    |-> store[k].item.exp,
                            hits   |-> store[k].item.currHits,
                            before |-> store[k].item.prevHits]]
Charged == [r \in Requests |-> IF counted[r] = 0 THEN None ELSE key[r]]
Verdict == [r \in Requests |->
  CASE pc[r] \in {"new", "locking", "loading", "counting", "saving"} -> "waiting"
    [] pc[r] \in {"running", "relocking", "reloading", "refunding"}  -> "admitted"
    [] pc[r] = "limited"                                             -> "limited"
    [] OTHER                                                         -> "over"]

Atomic == INSTANCE AtomicLimiter WITH
            window <- Window, charged <- Charged, verdict <- Verdict

\* The reads and writes of the storage, the copies that requests hold, the
\* mutexes, the clock that moves meanwhile, entries the storage drops and
\* calls it fails never show: each request is counted and judged as if it were
\* alone, at one moment before it goes on, and gives back a hit of its own key.
ImplementsAtomic == Atomic!Spec

=============================================================================
