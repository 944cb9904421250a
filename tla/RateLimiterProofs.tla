------------------------- MODULE RateLimiterProofs -------------------------
(***************************************************************************)
(* Proofs of the safety properties of RateLimiter, for any number of       *)
(* requests, keys and mutexes, any limit and window, and either storage.   *)
(*                                                                         *)
(* The inductive invariant says what a request that holds the mutex of its *)
(* key knows of the stored entry, and ties the history variables to it:    *)
(* whoever is about to save has counted on the entry that is stored, or    *)
(* starts a window that is later than it.                                  *)
(*                                                                         *)
(* The limit itself holds where no hit is given back: then the requests    *)
(* that a window let through are among those it has counted, and the last  *)
(* of them saw how many they are.                                          *)
(***************************************************************************)
EXTENDS RateLimiter, FiniteSetTheorems, TLAPS

Holding(r) == pc[r] \in {"loading", "counting", "saving", "reloading", "refunding"}

LockOK ==
  \A r \in Requests :
    /\ pc[r] # "new" => key[r] \in Keys
    /\ Holding(r) => lock[Slot(r)] = r

StoreOK ==
  \A k \in Keys :
    /\ store[k].item.exp = 0 => store[k].item.currHits = 0
    /\ store[k].item.exp <= now + Expiration
    /\ External => store[k].item.exp <= store[k].gone

\* What a request has loaded is what is stored, or nothing when the storage
\* has dropped the entry of a window that is over.
LoadedOK ==
  \A r \in Requests : pc[r] \in {"counting", "refunding"} =>
    \/ entry[r] = store[key[r]].item
    \/ entry[r] = Blank /\ store[key[r]].item.exp <= now

\* A request that is about to save adds one hit to the stored window, or is
\* the first of a later one.
SavingOK ==
  \A r \in Requests : pc[r] = "saving" =>
    /\ \/ /\ entry[r].exp = store[key[r]].item.exp
          /\ entry[r].currHits = store[key[r]].item.currHits + 1
       \/ /\ entry[r].exp > store[key[r]].item.exp
          /\ entry[r].currHits = 1
    /\ entry[r].exp > 0
    /\ entry[r].exp <= now + header[r].resetTime
    /\ entry[r].currHits <= Limit - header[r].remaining

HeaderOK ==
  \A r \in Requests :
    /\ pc[r] \in {"saving", "limited", "running", "relocking", "reloading", "refunding",
                  "succeeded", "failed"}
         => header[r].resetTime \in 1..Expiration
    /\ pc[r] = "saving" => header[r].remaining < Limit
    /\ pc[r] \in {"running", "relocking", "reloading", "refunding"}
         => header[r].remaining \in 0..(Limit - 1)
    /\ pc[r] \in {"succeeded", "failed"} => header[r].remaining \in 0..Limit

HistoryOK ==
  \A r \in Requests :
    /\ counted[r] # 0 => key[r] \in Keys /\ counted[r] <= store[key[r]].item.exp
    /\ refunded[r] # 0 => key[r] \in Keys /\ refunded[r] <= store[key[r]].item.exp
    /\ pc[r] \in {"new", "locking", "loading", "counting", "saving"}
         => counted[r] = 0 /\ refunded[r] = 0
    /\ pc[r] \in {"running", "relocking", "reloading", "refunding"} => refunded[r] = 0

\* However many requests there are, finitely many have been counted so far.
FiniteOK == /\ IsFiniteSet({r \in Requests : counted[r] # 0})
            /\ IsFiniteSet({r \in Requests : refunded[r] # 0})

IInv == /\ TypeOK /\ LockOK /\ StoreOK /\ LoadedOK /\ SavingOK
        /\ HeaderOK /\ HistoryOK /\ FiniteOK /\ NoLostHit

Forward == \A k \in Keys : store'[k].item.exp >= store[k].item.exp

-----------------------------------------------------------------------------
(* The arithmetic of setExpiration and of the rate.                        *)

LEMMA DivNat ==
  ASSUME NEW a \in Nat, NEW b \in Nat, b > 0
  PROVE  a \div b \in Nat
OBVIOUS

LEMMA TimesNat ==
  ASSUME NEW a \in Nat, NEW b \in Nat
  PROVE  a * b \in Nat
OBVIOUS

\* setExpiration keeps the window of an entry, with its hits, or opens a
\* later one without any; the window does not end before ts, nor later than
\* its size allows.
LEMMA WindowMoves ==
  ASSUME NEW item \in Items, NEW ts \in Nat, item.exp <= ts + Expiration,
         item.exp = 0 => item.currHits = 0,
         NEW new, new = SetExpiration(item, ts)
  PROVE  /\ new \in Items
         /\ new.exp = item.exp \/ new.exp > item.exp
         /\ new.exp = item.exp /\ Expiration > 0 => new.currHits = item.currHits
         /\ new.exp > item.exp => new.currHits = 0
         /\ new.exp <= ts + Expiration
         /\ Expiration > 0 => new.exp > ts
         /\ item = Blank => new.exp = ts + Expiration
<1>0. /\ Expiration \in Nat
      /\ item.exp \in Nat /\ item.currHits \in Nat /\ item.prevHits \in Nat
    BY LimiterAssumption DEF Items
<1>1. CASE item.exp = 0
  <2>1. new = [item EXCEPT !.exp = ts + Expiration]
      BY <1>1 DEF SetExpiration
  <2>2. new \in Items /\ new.exp = ts + Expiration /\ new.currHits = 0
      BY <1>0, <1>1, <2>1 DEF Items
  <2> QED BY <1>0, <1>1, <2>2
<1>2. CASE item.exp # 0 /\ ts < item.exp
  <2>1. new = item
      BY <1>2 DEF SetExpiration
  <2> QED BY <1>0, <1>2, <2>1 DEF Blank
<1>3. CASE item.exp # 0 /\ ~(ts < item.exp)
  <2>1. new = [currHits |-> 0, prevHits |-> item.currHits,
               exp |-> IF ts - item.exp >= Expiration THEN ts + Expiration
                       ELSE item.exp + Expiration]
      BY <1>3 DEF SetExpiration
  <2>2. new \in Items /\ new.currHits = 0
      BY <1>0, <2>1 DEF Items
  <2>3. new.exp <= ts + Expiration /\ new.exp >= item.exp /\ (Expiration > 0 => new.exp > ts)
      BY <1>0, <1>3, <2>1
  <2>4. new.exp \in Nat /\ item # Blank
      BY <1>3, <2>2 DEF Items, Blank
  <2> QED BY <1>0, <1>3, <2>2, <2>3, <2>4
<1> QED BY <1>1, <1>2, <1>3

-----------------------------------------------------------------------------
(* The steps of the middleware, one lemma for each action.                 *)

\* The types of the fields, for the provers.
LEMMA Fields ==
  ASSUME TypeOK
  PROVE  /\ Expiration \in Nat /\ Limit \in Nat /\ now \in Nat
         /\ \A k \in Keys : /\ store[k].item \in Items /\ store[k].gone \in Nat
                            /\ store[k].item.exp \in Nat /\ store[k].item.currHits \in Nat
         /\ \A r \in Requests :
              /\ entry[r] \in Items /\ entry[r].exp \in Nat /\ entry[r].currHits \in Nat
              /\ entry[r].prevHits \in Nat
              /\ header[r].resetTime \in Nat /\ header[r].remaining \in Int
BY LimiterAssumption DEF TypeOK, Items

\* A step that leaves the entries and the history alone keeps what ties them.
LEMMA Quiet ==
  ASSUME IInv, UNCHANGED <<store, key, counted, refunded>>
  PROVE  FiniteOK' /\ NoLostHit' /\ Forward
<1>1. FiniteOK'
    BY DEF IInv, FiniteOK
<1>2. NoLostHit'
    BY DEF IInv, NoLostHit, Counted, Refunded
<1>3. Forward
    BY Fields DEF IInv, Forward
<1> QED BY <1>1, <1>2, <1>3

LEMMA ArriveStep ==
  ASSUME IInv, NEW r \in Requests, NEW k \in Keys, Arrive(r, k)
  PROVE  IInv' /\ Forward
<1> USE DEF Arrive, Goto
<1>1. TypeOK'
    BY DEF IInv, TypeOK
<1>2. LockOK'
    BY DEF IInv, TypeOK, LockOK, Holding, Slot
<1>3. StoreOK'
    BY DEF IInv, StoreOK
<1>4. LoadedOK' /\ SavingOK'
    BY DEF IInv, TypeOK, LoadedOK, SavingOK
<1>5. HeaderOK' /\ HistoryOK'
    BY DEF IInv, TypeOK, HeaderOK, HistoryOK
<1>6. FiniteOK' /\ Forward
    BY Fields DEF IInv, FiniteOK, Forward
<1>7. NoLostHit'
  <2>1. counted[r] = 0 /\ refunded[r] = 0
      BY DEF IInv, HistoryOK
  <2>2. \A j \in Keys, w \in Nat : w # 0 => /\ Counted(j, w)' = Counted(j, w)
                                            /\ Refunded(j, w)' = Refunded(j, w)
      BY <2>1 DEF IInv, TypeOK, Counted, Refunded
  <2> QED BY <2>2, Fields DEF IInv, NoLostHit
<1> QED BY <1>1, <1>2, <1>3, <1>4, <1>5, <1>6, <1>7 DEF IInv

LEMMA LockStep ==
  ASSUME IInv, NEW r \in Requests, Lock(r)
  PROVE  IInv' /\ Forward
<1> USE DEF Lock, Goto
<1>0. key[r] \in Keys /\ Slot(r) \in Slots
    BY LimiterAssumption DEF IInv, LockOK, Slot
<1>1. TypeOK'
    BY <1>0 DEF IInv, TypeOK
<1>2. LockOK'
    BY <1>0, LimiterAssumption DEF IInv, TypeOK, LockOK, Holding, Slot
<1>3. StoreOK'
    BY DEF IInv, StoreOK
<1>4. LoadedOK' /\ SavingOK'
    BY DEF IInv, TypeOK, LoadedOK, SavingOK
<1>5. HeaderOK' /\ HistoryOK'
    BY DEF IInv, TypeOK, HeaderOK, HistoryOK
<1> QED BY <1>1, <1>2, <1>3, <1>4, <1>5, Quiet DEF IInv

\* A request that gives its mutex up holds it, and the others hold others.
LEMMA UnlockKeeps ==
  ASSUME IInv, NEW r \in Requests, Holding(r), Unlock(r), key' = key,
         \A q \in Requests : q # r => pc'[q] = pc[q],
         pc'[r] \notin {"new", "loading", "counting", "saving", "reloading", "refunding"}
  PROVE  LockOK' /\ lock' \in [Slots -> Requests \cup {None}]
<1>1. key[r] \in Keys /\ Slot(r) \in Slots /\ lock[Slot(r)] = r
    BY LimiterAssumption DEF IInv, LockOK, Slot, Holding
<1>2. LockOK'
  <2> SUFFICES ASSUME NEW q \in Requests
               PROVE  /\ pc'[q] # "new" => key'[q] \in Keys
                      /\ Holding(q)' => lock'[Slot(q)'] = q
      BY DEF LockOK
  <2>1. CASE q = r
      BY <1>1, <2>1 DEF Holding
  <2>2. CASE q # r
      BY <1>1, <2>2 DEF IInv, TypeOK, LockOK, Holding, Slot, Unlock
  <2> QED BY <2>1, <2>2
<1>3. lock' \in [Slots -> Requests \cup {None}]
    BY DEF IInv, TypeOK, Unlock
<1> QED BY <1>2, <1>3

LEMMA StorageFailsStep ==
  ASSUME IInv, NEW r \in Requests, StorageFails(r)
  PROVE  IInv' /\ Forward
<1> USE DEF StorageFails, Goto
<1>1. TypeOK' /\ LockOK'
  <2>1. LockOK' /\ lock' \in [Slots -> Requests \cup {None}]
    <3>1. Holding(r)
        BY DEF Holding
    <3>2. /\ \A q \in Requests : q # r => pc'[q] = pc[q]
          /\ pc'[r] = "answered" /\ key' = key /\ Unlock(r)
        BY DEF IInv, TypeOK
    <3> HIDE DEF StorageFails, Goto
    <3> QED BY <3>1, <3>2, UnlockKeeps
  <2> QED BY <2>1 DEF IInv, TypeOK
<1>3. StoreOK'
    BY DEF IInv, StoreOK
<1>4. LoadedOK' /\ SavingOK'
    BY DEF IInv, TypeOK, LoadedOK, SavingOK
<1>5. HeaderOK' /\ HistoryOK'
    BY DEF IInv, TypeOK, HeaderOK, HistoryOK
<1> QED BY <1>1, <1>3, <1>4, <1>5, Quiet DEF IInv


\* What load returns: the stored entry, or nothing when its window is over.
LEMMA LoadedFacts ==
  ASSUME IInv, NEW k \in Keys, NEW item \in Loaded(k)
  PROVE  /\ item \in Items
         /\ \/ item = store[k].item
            \/ item = Blank /\ store[k].item.exp <= now
<1>1. CASE item = store[k].item
    BY <1>1, Fields DEF IInv
<1>2. CASE item # store[k].item
  <2>1. item = Blank /\ External /\ now >= store[k].gone
      BY <1>2 DEF Loaded
  <2>2. store[k].item.exp <= now
      BY <2>1, Fields DEF IInv, StoreOK
  <2>3. Blank \in Items
      BY DEF Blank, Items
  <2> QED BY <2>1, <2>2, <2>3
<1> QED BY <1>1, <1>2

LEMMA LoadStep ==
  ASSUME IInv, NEW r \in Requests, Load(r) \/ Reload(r)
  PROVE  IInv' /\ Forward
<1>0. /\ pc[r] \in {"loading", "reloading"}
      /\ pc' = [pc EXCEPT ![r] = IF pc[r] = "loading" THEN "counting" ELSE "refunding"]
      /\ UNCHANGED <<now, store, lock, key, header, counted, refunded>>
    BY DEF Load, Reload, Goto
<1>1. PICK item \in Items :
         /\ entry' = [entry EXCEPT ![r] = item]
         /\ key[r] \in Keys
         /\ \/ item = store[key[r]].item
            \/ item = Blank /\ store[key[r]].item.exp <= now
  <2>1. PICK item \in Loaded(key[r]) : entry' = [entry EXCEPT ![r] = item]
      BY DEF Load, Reload
  <2>2. key[r] \in Keys
      BY <1>0 DEF IInv, LockOK
  <2> QED BY <2>1, <2>2, LoadedFacts
<1>2. TypeOK'
    BY <1>0, <1>1 DEF IInv, TypeOK
<1>3. LockOK'
    BY <1>0 DEF IInv, TypeOK, LockOK, Holding, Slot
<1>4. StoreOK'
    BY <1>0 DEF IInv, StoreOK
<1>5. LoadedOK' /\ SavingOK'
    BY <1>0, <1>1 DEF IInv, TypeOK, LoadedOK, SavingOK
<1>6. HeaderOK' /\ HistoryOK'
    BY <1>0 DEF IInv, TypeOK, HeaderOK, HistoryOK
<1> QED BY <1>0, <1>2, <1>3, <1>4, <1>5, <1>6, Quiet DEF IInv

\* The entry and the headers a request computes before it saves.
LEMMA CountFacts ==
  ASSUME IInv, NEW r \in Requests, Count(r), Expiration > 0
  PROVE  /\ entry'[r] \in Items
         /\ header'[r] \in [ts : Nat, resetTime : Nat, remaining : Int]
         /\ \/ /\ entry'[r].exp = store[key[r]].item.exp
               /\ entry'[r].currHits = store[key[r]].item.currHits + 1
            \/ /\ entry'[r].exp > store[key[r]].item.exp
               /\ entry'[r].currHits = 1
         /\ entry'[r].exp > 0
         /\ entry'[r].exp <= now + header'[r].resetTime
         /\ entry'[r].currHits <= Limit - header'[r].remaining
         /\ header'[r].resetTime \in 1..Expiration
         /\ header'[r].remaining < Limit
<1> DEFINE moved == SetExpiration(entry[r], now)
           item  == [moved EXCEPT !.currHits = @ + 1]
           reset == IF now < item.exp THEN item.exp - now ELSE 0
           rate  == (item.prevHits * reset) \div Expiration + item.currHits
<1>1. /\ entry' = [entry EXCEPT ![r] = item]
      /\ header' = [header EXCEPT ![r] = [ts |-> now, resetTime |-> reset,
                                          remaining |-> Limit - rate]]
    BY DEF Count
<1>2. entry'[r] = item /\ header'[r] = [ts |-> now, resetTime |-> reset,
                                        remaining |-> Limit - rate]
    BY <1>1 DEF IInv, TypeOK
<1>3. /\ key[r] \in Keys
      /\ \/ entry[r] = store[key[r]].item
         \/ entry[r] = Blank /\ store[key[r]].item.exp <= now
    BY DEF Count, IInv, LockOK, LoadedOK
<1>4. /\ entry[r] \in Items /\ now \in Nat
      /\ entry[r].exp <= now + Expiration
      /\ entry[r].exp = 0 => entry[r].currHits = 0
  <2>1. CASE entry[r] = store[key[r]].item
      BY <1>3, <2>1, Fields DEF IInv, StoreOK
  <2>2. CASE entry[r] = Blank
      BY <2>2, Fields DEF IInv, Blank
  <2> QED BY <1>3, <2>1, <2>2
<1>5. /\ moved \in Items
      /\ moved.exp = entry[r].exp \/ moved.exp > entry[r].exp
      /\ moved.exp = entry[r].exp => moved.currHits = entry[r].currHits
      /\ moved.exp > entry[r].exp => moved.currHits = 0
      /\ moved.exp <= now + Expiration
      /\ moved.exp > now
      /\ entry[r] = Blank => moved.exp = now + Expiration
    BY <1>4, WindowMoves
<1> HIDE DEF moved
<1>6. /\ item \in Items
      /\ item.exp = moved.exp /\ item.currHits = moved.currHits + 1
      /\ moved.exp \in Nat /\ moved.currHits \in Nat /\ item.prevHits \in Nat
      /\ item.exp \in Nat /\ item.currHits \in Nat
    BY <1>5 DEF Items
<1> HIDE DEF item
<1>7. reset \in 1..Expiration /\ reset \in Nat /\ item.exp = now + reset
    BY <1>5, <1>6, Fields DEF IInv
<1> HIDE DEF reset
<1>8. rate \in Nat /\ rate >= item.currHits
  <2>1. (item.prevHits * reset) \div Expiration \in Nat
      BY <1>6, <1>7, TimesNat, DivNat, Fields DEF IInv
  <2> HIDE DEF item
  <2> DEFINE quot == (item.prevHits * reset) \div Expiration
  <2>2. rate = quot + item.currHits /\ quot \in Nat
      BY <2>1
  <2> HIDE DEF quot
  <2> QED BY <1>6, <2>2
<1> HIDE DEF rate
<1>9. header'[r] \in [ts : Nat, resetTime : Nat, remaining : Int]
    BY <1>2, <1>4, <1>7, <1>8, LimiterAssumption
<1>10. header'[r].resetTime = reset /\ header'[r].remaining = Limit - rate
    BY <1>2
<1>11. /\ header'[r].remaining < Limit
       /\ item.currHits <= Limit - header'[r].remaining
       /\ item.exp <= now + header'[r].resetTime /\ item.exp > 0
  <2>1. item.currHits >= 1
      BY <1>6
  <2> QED BY <1>4, <1>6, <1>7, <1>8, <1>10, <2>1, LimiterAssumption
<1>12. \/ /\ item.exp = store[key[r]].item.exp
          /\ item.currHits = store[key[r]].item.currHits + 1
       \/ /\ item.exp > store[key[r]].item.exp
          /\ item.currHits = 1
  <2>1. CASE entry[r] = store[key[r]].item
      BY <1>3, <1>5, <1>6, <2>1, Fields DEF IInv
  <2>2. CASE entry[r] = Blank /\ store[key[r]].item.exp <= now
    <3>1. entry[r].exp = 0
        BY <2>2 DEF Blank
    <3> QED BY <1>3, <1>4, <1>5, <1>6, <2>2, <3>1, Fields DEF IInv
  <2> QED BY <1>3, <2>1, <2>2
<1> QED BY <1>2, <1>6, <1>7, <1>9, <1>10, <1>11, <1>12


LEMMA CountStep ==
  ASSUME IInv, NEW r \in Requests, Count(r)
  PROVE  IInv' /\ Forward
<1>0. /\ pc[r] = "counting"
      /\ UNCHANGED <<now, store, lock, key, counted, refunded>>
      /\ \A q \in Requests : q # r => /\ pc'[q] = pc[q] /\ entry'[q] = entry[q]
                                      /\ header'[q] = header[q]
    BY DEF Count, Goto, IInv, TypeOK
<1>1. CASE Expiration = 0
  <2>1. pc' = [pc EXCEPT ![r] = "answered"] /\ header' = header
      BY <1>1 DEF Count, Goto
  <2>2. PICK item \in Items : entry' = [entry EXCEPT ![r] = item]
    <3> DEFINE moved == SetExpiration(entry[r], now)
    <3>1. /\ entry[r] \in Items /\ now \in Nat
          /\ entry[r].exp \in Nat /\ entry[r].currHits \in Nat /\ entry[r].prevHits \in Nat
        BY Fields DEF IInv
    <3>2. moved \in Items
        BY <3>1, LimiterAssumption DEF SetExpiration, Items
    <3> HIDE DEF moved
    <3>3. [moved EXCEPT !.currHits = @ + 1] \in Items
        BY <3>2 DEF Items
    <3>4. entry' = [entry EXCEPT ![r] = [moved EXCEPT !.currHits = @ + 1]]
        BY DEF Count, moved
    <3> QED BY <3>3, <3>4
  <2>3. TypeOK'
      BY <1>0, <2>1, <2>2 DEF IInv, TypeOK
  <2>4. LockOK'
      BY <1>0, <2>1 DEF IInv, TypeOK, LockOK, Holding, Slot
  <2>5. StoreOK'
      BY <1>0 DEF IInv, StoreOK
  <2>6. LoadedOK' /\ SavingOK'
      BY <1>0, <2>1, <2>2 DEF IInv, TypeOK, LoadedOK, SavingOK
  <2>7. HeaderOK' /\ HistoryOK'
      BY <1>0, <2>1 DEF IInv, TypeOK, HeaderOK, HistoryOK
  <2> QED BY <1>0, <2>3, <2>4, <2>5, <2>6, <2>7, Quiet DEF IInv
<1>2. CASE Expiration # 0
  <2>0. Expiration > 0
      BY <1>2, LimiterAssumption
  <2>1. pc' = [pc EXCEPT ![r] = "saving"]
      BY <1>2 DEF Count, Goto
  <2>2. /\ entry' = [entry EXCEPT ![r] = entry'[r]]
        /\ header' = [header EXCEPT ![r] = header'[r]]
      BY <1>2 DEF Count, IInv, TypeOK
  <2>3. TypeOK'
      BY <1>0, <2>0, <2>1, <2>2, CountFacts DEF IInv, TypeOK
  <2>4. LockOK'
      BY <1>0, <2>1 DEF IInv, TypeOK, LockOK, Holding, Slot
  <2>5. StoreOK'
      BY <1>0 DEF IInv, StoreOK
  <2>6. LoadedOK'
      BY <1>0, <2>1 DEF IInv, TypeOK, LoadedOK
  <2>7. SavingOK'
    <3> SUFFICES ASSUME NEW q \in Requests, pc'[q] = "saving"
                 PROVE  /\ \/ /\ entry'[q].exp = store[key[q]].item.exp
                              /\ entry'[q].currHits = store[key[q]].item.currHits + 1
                           \/ /\ entry'[q].exp > store[key[q]].item.exp
                              /\ entry'[q].currHits = 1
                        /\ entry'[q].exp > 0
                        /\ entry'[q].exp <= now + header'[q].resetTime
                        /\ entry'[q].currHits <= Limit - header'[q].remaining
        BY <1>0 DEF SavingOK
    <3>1. CASE q = r
        BY <2>0, <3>1, CountFacts
    <3>2. CASE q # r
        BY <1>0, <3>2 DEF IInv, SavingOK
    <3> QED BY <3>1, <3>2
  <2>8. HeaderOK' /\ HistoryOK'
      BY <1>0, <2>0, <2>1, CountFacts DEF IInv, TypeOK, HeaderOK, HistoryOK
  <2> QED BY <1>0, <2>3, <2>4, <2>5, <2>6, <2>7, <2>8, Quiet DEF IInv
<1> QED BY <1>1, <1>2


\* While a request holds its mutex, no other request is about to use an entry
\* of the same key.
LEMMA Exclusion ==
  ASSUME IInv, NEW r \in Requests, Holding(r), NEW q \in Requests, q # r, Holding(q)
  PROVE  key[q] # key[r]
BY DEF IInv, LockOK, Slot

\* The entries of the other keys, and those who count on them.
LEMMA OthersKept ==
  ASSUME IInv, NEW r \in Requests, Holding(r), UNCHANGED <<now, key>>,
         \A k \in Keys : k # key[r] => store'[k] = store[k],
         \A q \in Requests : q # r => /\ pc'[q] = pc[q] /\ entry'[q] = entry[q]
                                      /\ header'[q] = header[q],
         pc'[r] \notin {"counting", "saving", "refunding"}
  PROVE  LoadedOK' /\ SavingOK'
<1>1. \A q \in Requests : pc'[q] \in {"counting", "saving", "refunding"} =>
        q # r /\ key[q] # key[r] /\ key[q] \in Keys
    BY Exclusion DEF Holding, IInv, LockOK
<1>2. \A q \in Requests : pc'[q] \in {"counting", "saving", "refunding"} =>
        /\ store'[key'[q]] = store[key[q]] /\ pc'[q] = pc[q] /\ entry'[q] = entry[q]
        /\ header'[q] = header[q]
    BY <1>1
<1>3. LoadedOK'
    BY <1>2 DEF IInv, LoadedOK
<1>4. SavingOK'
    BY <1>2 DEF IInv, SavingOK
<1> QED BY <1>3, <1>4

\* What a window has counted is finite, and nothing has been counted in, nor
\* given back to, a window that is later than the stored one.
LEMMA Windows ==
  ASSUME IInv, NEW k \in Keys, NEW w \in Nat, w # 0
  PROVE  /\ IsFiniteSet(Counted(k, w)) /\ IsFiniteSet(Refunded(k, w))
         /\ w > store[k].item.exp => Counted(k, w) = {} /\ Refunded(k, w) = {}
<1>1. Counted(k, w) \in SUBSET {r \in Requests : counted[r] # 0}
    BY DEF Counted
<1>2. Refunded(k, w) \in SUBSET {r \in Requests : refunded[r] # 0}
    BY DEF Refunded
<1>3. IsFiniteSet(Counted(k, w)) /\ IsFiniteSet(Refunded(k, w))
    BY <1>1, <1>2, FS_Subset DEF IInv, FiniteOK
<1>4. ASSUME w > store[k].item.exp, NEW r \in Requests, key[r] = k
      PROVE  counted[r] # w /\ refunded[r] # w
  <2>1. /\ counted[r] # 0 => counted[r] <= store[k].item.exp
        /\ refunded[r] # 0 => refunded[r] <= store[k].item.exp
      BY <1>4 DEF IInv, HistoryOK
  <2> QED BY <1>4, <2>1, Fields DEF IInv
<1>5. w > store[k].item.exp => Counted(k, w) = {} /\ Refunded(k, w) = {}
    BY <1>4 DEF Counted, Refunded
<1> QED BY <1>3, <1>5

\* The counters after a save: one hit more in the window of the request.
LEMMA SaveCounts ==
  ASSUME IInv, NEW r \in Requests, NEW acked \in BOOLEAN, Save(r, acked),
         NEW k, k = key[r], NEW w, w = entry[r].exp
  PROVE  NoLostHit' /\ FiniteOK'
<1>1. /\ k \in Keys /\ w \in Nat /\ w # 0 /\ counted[r] = 0
      /\ pc[r] = "saving"
      /\ \/ w = store[k].item.exp /\ entry[r].currHits = store[k].item.currHits + 1
         \/ w > store[k].item.exp /\ entry[r].currHits = 1
    BY Fields DEF Save, IInv, LockOK, SavingOK, HistoryOK
<1>2. /\ store'[k].item = entry[r]
      /\ \A j \in Keys : j # k => store'[j] = store[j]
      /\ \A q \in Requests : counted'[q] = IF q = r THEN w ELSE counted[q]
      /\ UNCHANGED <<key, refunded>>
    BY <1>1 DEF Save, Saved, IInv, TypeOK
<1>3. FiniteOK'
  <2>1. {q \in Requests : counted'[q] # 0} = {q \in Requests : counted[q] # 0} \cup {r}
      BY <1>1, <1>2 DEF IInv, TypeOK
  <2>2. IsFiniteSet({q \in Requests : counted[q] # 0} \cup {r})
      BY FS_AddElement DEF IInv, FiniteOK
  <2> QED BY <1>2, <2>1, <2>2 DEF IInv, FiniteOK
<1>4. \A j \in Keys, v \in Nat : Refunded(j, v)' = Refunded(j, v)
    BY <1>2 DEF Refunded
<1>5. \A j \in Keys, v \in Nat : j # k /\ v # 0 => Counted(j, v)' = Counted(j, v)
  <2> SUFFICES ASSUME NEW j \in Keys, NEW v \in Nat, j # k, v # 0
               PROVE  Counted(j, v)' = Counted(j, v)
      OBVIOUS
  <2>1. \A q \in Requests : key'[q] = j /\ counted'[q] = v <=> key[q] = j /\ counted[q] = v
      BY <1>2
  <2> QED BY <2>1 DEF Counted
<1>6. Counted(k, w)' = Counted(k, w) \cup {r} /\ r \notin Counted(k, w)
  <2>1. \A q \in Requests : key'[q] = k /\ counted'[q] = w
                              <=> (key[q] = k /\ counted[q] = w) \/ q = r
      BY <1>2
  <2>2. Counted(k, w)' = {q \in Requests : key'[q] = k /\ counted'[q] = w}
      BY <1>2 DEF Counted
  <2>3. counted[r] # w
      BY <1>1
  <2> QED BY <2>1, <2>2, <2>3 DEF Counted
<1>7. /\ IsFiniteSet(Counted(k, w)) /\ IsFiniteSet(Refunded(k, w))
      /\ w > store[k].item.exp => Counted(k, w) = {} /\ Refunded(k, w) = {}
    BY <1>1, Windows
<1>8. /\ Cardinality(Counted(k, w)') = Cardinality(Counted(k, w)) + 1
      /\ Cardinality(Counted(k, w)) \in Nat /\ Cardinality(Refunded(k, w)) \in Nat
  <2>1. Cardinality(Counted(k, w) \cup {r}) = Cardinality(Counted(k, w)) + 1
      BY <1>6, <1>7, FS_AddElement, Zenon
  <2>2. Cardinality(Counted(k, w)) \in Nat /\ Cardinality(Refunded(k, w)) \in Nat
      BY <1>7, FS_CardinalityType
  <2> QED BY <1>6, <2>1, <2>2
<1>9. entry[r].currHits = Cardinality(Counted(k, w)) + 1 - Cardinality(Refunded(k, w))
  <2>1. CASE w = store[k].item.exp /\ entry[r].currHits = store[k].item.currHits + 1
    <3>1. store[k].item.currHits = Cardinality(Counted(k, w)) - Cardinality(Refunded(k, w))
        BY <1>1, <2>1 DEF IInv, NoLostHit
    <3> QED BY <1>8, <2>1, <3>1
  <2>2. CASE w > store[k].item.exp /\ entry[r].currHits = 1
      BY <1>7, <2>2, FS_EmptySet
  <2> QED BY <1>1, <2>1, <2>2
<1>10. ASSUME NEW j \in Keys, NEW v \in Nat, v # 0, v = store'[j].item.exp
       PROVE  store'[j].item.currHits = Cardinality(Counted(j, v)') - Cardinality(Refunded(j, v)')
  <2>1. CASE j = k
    <3>1. v = w /\ store'[j].item.currHits = entry[r].currHits
        BY <1>2, <1>10, <2>1
    <3>2. Counted(j, v)' = Counted(k, w)' /\ Refunded(j, v)' = Refunded(k, w)
        BY <1>2, <2>1, <3>1 DEF Counted, Refunded
    <3> QED BY <1>8, <1>9, <3>1, <3>2
  <2>2. CASE j # k
    <3>1. store'[j] = store[j] /\ v = store[j].item.exp
        BY <1>2, <1>10, <2>2
    <3>2. store[j].item.currHits = Cardinality(Counted(j, v)) - Cardinality(Refunded(j, v))
        BY <1>10, <3>1 DEF IInv, NoLostHit
    <3> QED BY <1>4, <1>5, <1>10, <2>2, <3>1, <3>2
  <2> QED BY <2>1, <2>2
<1>11. NoLostHit'
  <2>1. \A j \in Keys : store'[j].item.exp \in Nat
      BY <1>1, <1>2, Fields DEF IInv
  <2> QED BY <1>10, <2>1 DEF NoLostHit
<1> QED BY <1>3, <1>11

LEMMA SaveStep ==
  ASSUME IInv, NEW r \in Requests, NEW acked \in BOOLEAN, Save(r, acked)
  PROVE  IInv' /\ Forward
<1> DEFINE gone == IF External THEN now + (header[r].resetTime + Expiration) ELSE 0
<1>1. /\ pc[r] = "saving" /\ Holding(r) /\ Unlock(r)
      /\ \A q \in Requests : q # r => pc'[q] = pc[q]
      /\ pc'[r] \in {"limited", "running", "answered"}
      /\ pc' \in [Requests -> {"new", "locking", "loading", "counting", "saving", "limited",
                               "running", "relocking", "reloading", "refunding",
                               "succeeded", "failed", "answered"}]
      /\ pc'[r] = "running" => header[r].remaining >= 0
      /\ UNCHANGED <<now, key, entry, header, refunded>>
    BY Fields DEF Save, Goto, Holding, IInv, TypeOK
<1>2. /\ key[r] \in Keys
      /\ \/ entry[r].exp = store[key[r]].item.exp
         \/ entry[r].exp > store[key[r]].item.exp
      /\ entry[r].exp > 0
      /\ entry[r].exp <= now + header[r].resetTime
      /\ header[r].resetTime \in 1..Expiration
      /\ header[r].remaining < Limit
    BY <1>1 DEF IInv, LockOK, SavingOK, HeaderOK
<1>3. /\ store' = [store EXCEPT ![key[r]] = [item |-> entry[r], gone |-> gone]]
      /\ counted' = [counted EXCEPT ![r] = entry[r].exp]
      /\ gone \in Nat
  <2>1. gone \in Nat
      BY Fields DEF IInv
  <2>2. store' = [store EXCEPT ![key[r]] = [item |-> entry[r], gone |-> gone]]
      BY DEF Save, Saved
  <2>3. counted' = [counted EXCEPT ![r] = entry[r].exp]
      BY DEF Save
  <2> QED BY <2>1, <2>2, <2>3
<1>4. /\ store'[key[r]] = [item |-> entry[r], gone |-> gone]
      /\ \A k \in Keys : k # key[r] => store'[k] = store[k]
    BY <1>2, <1>3 DEF IInv, TypeOK
<1>5. LockOK' /\ lock' \in [Slots -> Requests \cup {None}]
    BY <1>1, UnlockKeeps
<1>6. TypeOK'
    BY <1>1, <1>2, <1>3, <1>5, Fields DEF IInv, TypeOK
<1>7. StoreOK'
  <2>1. /\ entry[r].exp <= now + Expiration
        /\ External => entry[r].exp <= gone
      BY <1>2, <1>3, Fields DEF IInv
  <2> QED BY <1>1, <1>2, <1>4, <2>1, Fields DEF IInv, StoreOK
<1>8. LoadedOK' /\ SavingOK'
    BY <1>1, <1>4, OthersKept DEF IInv, TypeOK
<1>9. HeaderOK'
    BY <1>1, <1>2, Fields DEF IInv, TypeOK, HeaderOK
<1>10. Forward
    BY <1>2, <1>4, Fields DEF IInv, Forward
<1>11. HistoryOK'
  <2>0. \A q \in Requests : counted'[q] = IF q = r THEN entry[r].exp ELSE counted[q]
      BY <1>3 DEF IInv, TypeOK
  <2>1. ASSUME NEW q \in Requests, NEW v \in Nat, v # 0, v = counted[q] \/ v = refunded[q]
        PROVE  key[q] \in Keys /\ v <= store'[key[q]].item.exp
    <3>1. key[q] \in Keys /\ v <= store[key[q]].item.exp
        BY <2>1 DEF IInv, HistoryOK
    <3>2. store'[key[q]].item.exp \in Nat /\ store'[key[q]].item.exp >= store[key[q]].item.exp
        BY <1>6, <1>10, <3>1 DEF Forward, TypeOK, Items
    <3> QED BY <3>1, <3>2, Fields DEF IInv
  <2>2. \A q \in Requests :
          /\ counted'[q] # 0 => key'[q] \in Keys /\ counted'[q] <= store'[key'[q]].item.exp
          /\ refunded'[q] # 0 => key'[q] \in Keys /\ refunded'[q] <= store'[key'[q]].item.exp
    <3>1. store'[key[r]].item.exp = entry[r].exp
        BY <1>4
    <3>2. \A q \in Requests : counted[q] \in Nat /\ refunded[q] \in Nat
        BY DEF IInv, TypeOK
    <3> QED BY <1>1, <1>2, <2>0, <2>1, <3>1, <3>2, Fields DEF IInv
  <2>3. \A q \in Requests :
          /\ pc'[q] \in {"new", "locking", "loading", "counting", "saving"}
               => counted'[q] = 0 /\ refunded'[q] = 0
          /\ pc'[q] \in {"running", "relocking", "reloading", "refunding"} => refunded'[q] = 0
      BY <1>1, <2>0 DEF IInv, TypeOK, HistoryOK
  <2> QED BY <2>2, <2>3 DEF HistoryOK
<1> QED BY <1>5, <1>6, <1>7, <1>8, <1>9, <1>10, <1>11, SaveCounts DEF IInv


LEMMA NextReturnsStep ==
  ASSUME IInv, NEW r \in Requests, NEW outcome, NextReturns(r, outcome)
  PROVE  IInv' /\ Forward
<1>0. /\ pc[r] = "running"
      /\ pc' = [pc EXCEPT ![r] = pc'[r]]
      /\ pc'[r] \in {"relocking", "succeeded", "failed"}
      /\ UNCHANGED <<now, store, lock, key, entry, header, counted, refunded>>
    BY DEF NextReturns, Goto, IInv, TypeOK
<1>1. pc'[r] = "relocking" => refunded[r] = 0
    BY <1>0 DEF IInv, HistoryOK
<1>2. TypeOK'
    BY <1>0 DEF IInv, TypeOK
<1>3. LockOK'
    BY <1>0 DEF IInv, TypeOK, LockOK, Holding, Slot
<1>4. StoreOK'
    BY <1>0 DEF IInv, StoreOK
<1>5. LoadedOK' /\ SavingOK'
    BY <1>0 DEF IInv, TypeOK, LoadedOK, SavingOK
<1>6. HeaderOK'
    BY <1>0, LimiterAssumption DEF IInv, TypeOK, HeaderOK
<1>7. HistoryOK'
    BY <1>0, <1>1 DEF IInv, TypeOK, HistoryOK
<1> QED BY <1>0, <1>2, <1>3, <1>4, <1>5, <1>6, <1>7, Quiet DEF IInv

\* The counters after a refund: one hit less in the window it is taken from.
LEMMA RefundCounts ==
  ASSUME IInv, NEW r \in Requests, NEW acked \in BOOLEAN, Refund(r, acked),
         entry[r].currHits > 0, NEW k, k = key[r], NEW w, w = entry[r].exp
  PROVE  NoLostHit' /\ FiniteOK'
<1>1. k \in Keys /\ w \in Nat /\ pc[r] = "refunding" /\ refunded[r] = 0
    BY Fields DEF Refund, IInv, LockOK, HistoryOK
<1>2. entry[r] = store[k].item /\ w = store[k].item.exp /\ w # 0
  <2>1. entry[r] # Blank
      BY DEF Blank
  <2>2. entry[r] = store[k].item
      BY <1>1, <2>1 DEF IInv, LoadedOK
  <2> QED BY <1>1, <2>2, Fields DEF IInv, StoreOK
<1>3. /\ store'[k].item.exp = w
      /\ store'[k].item.currHits = store[k].item.currHits - 1
      /\ \A j \in Keys : j # k => store'[j] = store[j]
      /\ \A q \in Requests : refunded'[q] = IF q = r THEN w ELSE refunded[q]
      /\ UNCHANGED <<key, counted>>
  <2>1. /\ entry' = [entry EXCEPT ![r].currHits = @ - 1]
        /\ Saved(k, entry'[r], Expiration)
        /\ refunded' = [refunded EXCEPT ![r] = w]
        /\ UNCHANGED <<key, counted>>
      BY DEF Refund
  <2>2. entry'[r].exp = w /\ entry'[r].currHits = entry[r].currHits - 1
      BY <2>1, Fields DEF IInv, TypeOK, Items
  <2>3. store'[k].item = entry'[r] /\ \A j \in Keys : j # k => store'[j] = store[j]
      BY <1>1, <2>1 DEF Saved, IInv, TypeOK
  <2>4. \A q \in Requests : refunded'[q] = IF q = r THEN w ELSE refunded[q]
      BY <2>1 DEF IInv, TypeOK
  <2> QED BY <1>2, <2>1, <2>2, <2>3, <2>4
<1>4. FiniteOK'
  <2>1. {q \in Requests : refunded'[q] # 0} = {q \in Requests : refunded[q] # 0} \cup {r}
      BY <1>1, <1>2, <1>3
  <2>2. IsFiniteSet({q \in Requests : refunded[q] # 0} \cup {r})
      BY FS_AddElement DEF IInv, FiniteOK
  <2> QED BY <1>3, <2>1, <2>2 DEF IInv, FiniteOK
<1>5. \A j \in Keys, v \in Nat : Counted(j, v)' = Counted(j, v)
    BY <1>3 DEF Counted
<1>6. \A j \in Keys, v \in Nat : j # k /\ v # 0 => Refunded(j, v)' = Refunded(j, v)
  <2> SUFFICES ASSUME NEW j \in Keys, NEW v \in Nat, j # k, v # 0
               PROVE  Refunded(j, v)' = Refunded(j, v)
      OBVIOUS
  <2>1. \A q \in Requests : key'[q] = j /\ refunded'[q] = v <=> key[q] = j /\ refunded[q] = v
      BY <1>3
  <2> QED BY <2>1 DEF Refunded
<1>7. Refunded(k, w)' = Refunded(k, w) \cup {r} /\ r \notin Refunded(k, w)
  <2>1. \A q \in Requests : key'[q] = k /\ refunded'[q] = w
                              <=> (key[q] = k /\ refunded[q] = w) \/ q = r
      BY <1>3
  <2>2. Refunded(k, w)' = {q \in Requests : key'[q] = k /\ refunded'[q] = w}
      BY <1>3 DEF Refunded
  <2>3. refunded[r] # w
      BY <1>1, <1>2
  <2> QED BY <2>1, <2>2, <2>3 DEF Refunded
<1>8. IsFiniteSet(Counted(k, w)) /\ IsFiniteSet(Refunded(k, w))
    BY <1>1, <1>2, Windows
<1>9. /\ Cardinality(Refunded(k, w)') = Cardinality(Refunded(k, w)) + 1
      /\ Cardinality(Counted(k, w)) \in Nat /\ Cardinality(Refunded(k, w)) \in Nat
  <2>1. Cardinality(Refunded(k, w) \cup {r}) = Cardinality(Refunded(k, w)) + 1
      BY <1>7, <1>8, FS_AddElement, Zenon
  <2>2. Cardinality(Counted(k, w)) \in Nat /\ Cardinality(Refunded(k, w)) \in Nat
      BY <1>8, FS_CardinalityType
  <2> QED BY <1>7, <2>1, <2>2
<1>10. store[k].item.currHits = Cardinality(Counted(k, w)) - Cardinality(Refunded(k, w))
    BY <1>1, <1>2 DEF IInv, NoLostHit
<1>11. ASSUME NEW j \in Keys, NEW v \in Nat, v # 0, v = store'[j].item.exp
       PROVE  store'[j].item.currHits = Cardinality(Counted(j, v)') - Cardinality(Refunded(j, v)')
  <2>1. CASE j = k
    <3>1. v = w
        BY <1>3, <1>11, <2>1
    <3>2. Counted(j, v)' = Counted(k, w) /\ Refunded(j, v)' = Refunded(k, w)'
        BY <1>1, <1>5, <2>1, <3>1
    <3> QED BY <1>3, <1>9, <1>10, <2>1, <3>1, <3>2
  <2>2. CASE j # k
    <3>1. store'[j] = store[j] /\ v = store[j].item.exp
        BY <1>3, <1>11, <2>2
    <3>2. store[j].item.currHits = Cardinality(Counted(j, v)) - Cardinality(Refunded(j, v))
        BY <1>11, <3>1 DEF IInv, NoLostHit
    <3> QED BY <1>5, <1>6, <1>11, <2>2, <3>1, <3>2
  <2> QED BY <2>1, <2>2
<1>12. NoLostHit'
  <2>1. \A j \in Keys : store'[j].item.exp \in Nat
      BY <1>1, <1>3, Fields DEF IInv
  <2> QED BY <1>11, <2>1 DEF NoLostHit
<1> QED BY <1>4, <1>12

LEMMA RefundStep ==
  ASSUME IInv, NEW r \in Requests, NEW acked \in BOOLEAN, Refund(r, acked)
  PROVE  IInv' /\ Forward
<1>1. /\ pc[r] = "refunding" /\ Holding(r) /\ Unlock(r)
      /\ \A q \in Requests : q # r => pc'[q] = pc[q]
      /\ pc'[r] \in {"failed", "answered"}
      /\ pc' \in [Requests -> {"new", "locking", "loading", "counting", "saving", "limited",
                               "running", "relocking", "reloading", "refunding",
                               "succeeded", "failed", "answered"}]
      /\ UNCHANGED <<now, key, counted>>
    BY DEF Refund, Goto, Holding, IInv, TypeOK
<1>2. /\ key[r] \in Keys
      /\ header[r].resetTime \in 1..Expiration
      /\ header[r].remaining \in 0..(Limit - 1)
    BY <1>1 DEF IInv, LockOK, HeaderOK
<1>3. LockOK' /\ lock' \in [Slots -> Requests \cup {None}]
    BY <1>1, UnlockKeeps
<1>4. CASE entry[r].currHits = 0
  <2>1. UNCHANGED <<entry, header, store, refunded>>
      BY <1>4 DEF Refund
  <2>2. TypeOK'
      BY <1>1, <1>3, <2>1 DEF IInv, TypeOK
  <2>3. StoreOK'
      BY <1>1, <2>1 DEF IInv, StoreOK
  <2>4. LoadedOK' /\ SavingOK'
      BY <1>1, <2>1 DEF IInv, LoadedOK, SavingOK
  <2>5. HeaderOK'
      BY <1>1, <1>2, <2>1, LimiterAssumption DEF IInv, HeaderOK
  <2>6. HistoryOK'
      BY <1>1, <2>1 DEF IInv, HistoryOK
  <2> QED BY <1>1, <1>3, <2>1, <2>2, <2>3, <2>4, <2>5, <2>6, Quiet DEF IInv
<1>5. CASE entry[r].currHits > 0
  <2> DEFINE item == entry'[r]
             gone == IF External THEN now + Expiration ELSE 0
  <2>1. /\ entry' = [entry EXCEPT ![r].currHits = @ - 1]
        /\ header' = [header EXCEPT ![r].remaining = @ + 1]
        /\ store' = [store EXCEPT ![key[r]] = [item |-> item, gone |-> gone]]
        /\ refunded' = [refunded EXCEPT ![r] = entry[r].exp]
      BY <1>5 DEF Refund, Saved
  <2>2. /\ entry' \in [Requests -> Items]
        /\ item \in Items /\ item.exp = entry[r].exp
        /\ \A q \in Requests : q # r => entry'[q] = entry[q]
    <3>1. entry[r].currHits - 1 \in Nat
        BY <1>5, Fields DEF IInv
    <3> QED BY <2>1, <3>1 DEF IInv, TypeOK, Items
  <2>3. /\ header' \in [Requests -> [ts : Nat, resetTime : Nat, remaining : Int]]
        /\ header'[r].resetTime = header[r].resetTime
        /\ header'[r].remaining = header[r].remaining + 1
        /\ \A q \in Requests : q # r => header'[q] = header[q]
    <3>1. header[r] \in [ts : Nat, resetTime : Nat, remaining : Int]
        BY DEF IInv, TypeOK
    <3>2. [header[r] EXCEPT !.remaining = @ + 1] \in [ts : Nat, resetTime : Nat, remaining : Int]
        BY <3>1
    <3>3. header' = [header EXCEPT ![r] = [header[r] EXCEPT !.remaining = @ + 1]]
        BY <2>1
    <3>4. header \in [Requests -> [ts : Nat, resetTime : Nat, remaining : Int]]
        BY DEF IInv, TypeOK
    <3> QED BY <3>1, <3>2, <3>3, <3>4
  <2>4. entry[r].exp = store[key[r]].item.exp
    <3>1. entry[r] # Blank
        BY <1>5 DEF Blank
    <3> QED BY <1>1, <3>1 DEF IInv, LoadedOK
  <2>5. gone \in Nat /\ (External => entry[r].exp <= gone) /\ entry[r].exp <= now + Expiration
    <3>1. entry[r].exp <= now + Expiration
        BY <1>2, <2>4 DEF IInv, StoreOK
    <3> QED BY <3>1, Fields DEF IInv
  <2>6. /\ store'[key[r]] = [item |-> item, gone |-> gone]
        /\ \A k \in Keys : k # key[r] => store'[k] = store[k]
        /\ \A k \in Keys : store'[k].item.exp = store[k].item.exp
      BY <1>2, <2>1, <2>2, <2>4 DEF IInv, TypeOK
  <2>7. \A q \in Requests : refunded'[q] = IF q = r THEN entry[r].exp ELSE refunded[q]
      BY <2>1 DEF IInv, TypeOK
  <2>8. TypeOK'
    <3>1. store' \in [Keys -> [item : Items, gone : Nat]]
        BY <2>1, <2>2, <2>5 DEF IInv, TypeOK
    <3>2. refunded' \in [Requests -> Nat]
        BY <2>1, Fields DEF IInv, TypeOK
    <3> QED BY <1>1, <1>3, <2>2, <2>3, <3>1, <3>2 DEF IInv, TypeOK
  <2>9. StoreOK'
    <3>1. entry[r].exp # 0
        BY <1>2, <1>5, <2>4, Fields DEF IInv, StoreOK, LoadedOK, Refund, Blank
    <3> QED BY <1>1, <2>2, <2>5, <2>6, <3>1 DEF IInv, StoreOK
  <2>10. LoadedOK' /\ SavingOK'
      BY <1>1, <2>2, <2>3, <2>6, OthersKept
  <2>11. HeaderOK'
    <3>1. header'[r].resetTime \in 1..Expiration /\ header'[r].remaining \in 0..Limit
        BY <1>2, <2>3, LimiterAssumption
    <3> QED BY <1>1, <2>3, <3>1 DEF IInv, HeaderOK
  <2>12. HistoryOK'
    <3>1. entry[r].exp <= store'[key[r]].item.exp
        BY <1>2, <2>4, <2>6, Fields DEF IInv
    <3> QED BY <1>1, <1>2, <2>6, <2>7, <3>1 DEF IInv, HistoryOK
  <2>13. Forward
      BY <2>6, Fields DEF IInv, Forward
  <2> QED BY <1>3, <1>5, <2>8, <2>9, <2>10, <2>11, <2>12, <2>13, RefundCounts DEF IInv
<1> QED BY <1>4, <1>5, Fields DEF IInv

LEMMA TickStep ==
  ASSUME IInv, Tick
  PROVE  IInv' /\ Forward
<1> USE DEF Tick, local
<1>1. now' = now + 1 /\ now \in Nat
    BY DEF IInv, TypeOK
<1>2. TypeOK'
    BY <1>1 DEF IInv, TypeOK
<1>3. LockOK'
    BY DEF IInv, LockOK, Holding, Slot
<1>4. StoreOK'
    BY <1>1, Fields DEF IInv, StoreOK
<1>5. LoadedOK'
  <2>1. \A r \in Requests : pc[r] \in {"counting", "refunding"} => key[r] \in Keys
      BY DEF IInv, LockOK
  <2> QED BY <1>1, <2>1, Fields DEF IInv, LoadedOK
<1>6. SavingOK'
    BY <1>1, Fields DEF IInv, SavingOK
<1>7. HeaderOK' /\ HistoryOK'
    BY DEF IInv, HeaderOK, HistoryOK
<1> QED BY <1>2, <1>3, <1>4, <1>5, <1>6, <1>7, Quiet DEF IInv

-----------------------------------------------------------------------------
LEMMA InitOK == Init => IInv
<1> SUFFICES ASSUME Init PROVE IInv
    OBVIOUS
<1>1. Blank \in Items /\ Blank.exp = 0 /\ Blank.currHits = 0
    BY DEF Blank, Items
<1>2. TypeOK
    BY <1>1 DEF Init, TypeOK
<1>3. LockOK /\ LoadedOK /\ SavingOK /\ HeaderOK /\ HistoryOK
    BY DEF Init, LockOK, Holding, LoadedOK, SavingOK, HeaderOK, HistoryOK
<1>4. StoreOK
    BY <1>1, LimiterAssumption DEF Init, StoreOK
<1>5. FiniteOK
  <2>1. /\ {r \in Requests : counted[r] # 0} = {}
        /\ {r \in Requests : refunded[r] # 0} = {}
      BY DEF Init
  <2> QED BY <2>1, FS_EmptySet DEF FiniteOK
<1>6. NoLostHit
    BY <1>1 DEF Init, NoLostHit
<1> QED BY <1>2, <1>3, <1>4, <1>5, <1>6 DEF IInv

\* Every step of the requests, of the storage and of the clock keeps the
\* invariant, and moves no window back.
LEMMA StepOK ==
  ASSUME IInv, [Next]_vars
  PROVE  IInv' /\ Forward
<1>1. CASE UNCHANGED vars
  <2> USE <1>1 DEF vars, local
  <2>1. TypeOK' /\ LockOK' /\ StoreOK'
      BY DEF IInv, TypeOK, LockOK, Holding, Slot, StoreOK
  <2>2. LoadedOK' /\ SavingOK' /\ HeaderOK' /\ HistoryOK'
      BY DEF IInv, LoadedOK, SavingOK, HeaderOK, HistoryOK
  <2> QED BY <2>1, <2>2, Quiet DEF IInv
<1>2. CASE Tick
    BY <1>2, TickStep
<1>3. ASSUME NEW r \in Requests, NEW k \in Keys, Arrive(r, k)
      PROVE  IInv' /\ Forward
    BY <1>3, ArriveStep
<1>4. ASSUME NEW r \in Requests, StorageFails(r)
      PROVE  IInv' /\ Forward
    BY <1>4, StorageFailsStep
<1>5. ASSUME NEW r \in Requests, Step(r)
      PROVE  IInv' /\ Forward
    BY <1>5, LockStep, LoadStep, CountStep, SaveStep, RefundStep, NextReturnsStep DEF Step
<1> QED BY <1>1, <1>2, <1>3, <1>4, <1>5 DEF Next, AllEnded

LEMMA Invariance == Spec => []IInv
<1>1. Init => IInv
    BY InitOK
<1>2. IInv /\ [Next]_vars => IInv'
    BY StepOK
<1> QED BY <1>1, <1>2, PTL DEF Spec

-----------------------------------------------------------------------------
\* Every variable keeps its type, for any number of requests, keys and
\* mutexes: no refund takes the hits of a window below zero (rate_limit.go
\* keeps them unsigned).
THEOREM TypeCorrect == Spec => []TypeOK
<1>1. IInv => TypeOK
    BY DEF IInv
<1> QED BY <1>1, Invariance, PTL

\* The stored hits of a window are the requests it has counted less those
\* that got their hit back, whatever the storage forgets or fails to say and
\* however the requests of a key overlap.
THEOREM HitsTheorem == Spec => []NoLostHit
<1>1. IInv => NoLostHit
    BY DEF IInv
<1> QED BY <1>1, Invariance, PTL

\* The headers a client sees lie within the window and the limit.
THEOREM HeadersTheorem == Spec => []HeadersInRange
<1>1. IInv => HeadersInRange
    BY DEF IInv, HeaderOK, HeadersInRange
<1> QED BY <1>1, Invariance, PTL

\* The window of a key never goes back.
THEOREM ForwardTheorem == Spec => WindowForward
<1>1. IInv /\ [Next]_vars => Forward
    BY StepOK
<1>2. IInv /\ [Next]_vars => [Forward]_vars
    BY <1>1
<1> QED BY <1>2, Invariance, PTL DEF Spec, WindowForward, Forward

-----------------------------------------------------------------------------
(* The limit, for a middleware that does not skip failed requests.         *)

NoRefunds ==
  \A r \in Requests : refunded[r] = 0 /\ pc[r] \notin {"relocking", "reloading", "refunding"}

Through(k, w) ==
  {q \in Counted(k, w) : pc[q] \notin {"limited", "answered"} /\ refunded[q] = 0}

ThroughOK ==
  \A k \in Keys, w \in Nat : w # 0 => Cardinality(Through(k, w)) <= Limit

LEMMA NoRefundsStep ==
  ASSUME SkipFailed = FALSE, IInv, NoRefunds, [Next]_vars
  PROVE  NoRefunds'
<1> USE DEF NoRefunds, Goto
<1>1. CASE UNCHANGED vars \/ Tick
    BY <1>1 DEF vars, local, Tick
<1>2. ASSUME NEW r \in Requests, NEW k \in Keys, Arrive(r, k)
      PROVE  NoRefunds'
    BY <1>2 DEF Arrive, IInv, TypeOK
<1>3. ASSUME NEW r \in Requests, Lock(r) \/ StorageFails(r) \/ Load(r) \/ Reload(r)
      PROVE  NoRefunds'
    BY <1>3 DEF Lock, StorageFails, Load, Reload, IInv, TypeOK
<1>4. ASSUME NEW r \in Requests, Count(r)
      PROVE  NoRefunds'
    BY <1>4 DEF Count, IInv, TypeOK
<1>5. ASSUME NEW r \in Requests, NEW acked \in BOOLEAN, Save(r, acked)
      PROVE  NoRefunds'
    BY <1>5 DEF Save, IInv, TypeOK
<1>6. ASSUME NEW r \in Requests, NEW outcome \in Outcomes, NextReturns(r, outcome)
      PROVE  NoRefunds'
    BY <1>6 DEF NextReturns, IInv, TypeOK
<1>7. \A r \in Requests, acked \in BOOLEAN : ~Refund(r, acked)
    BY DEF Refund
<1> QED BY <1>1, <1>2, <1>3, <1>4, <1>5, <1>6, <1>7 DEF Next, Step, AllEnded

\* A step that counts no request lets none through that was not.
LEMMA QuietThrough ==
  ASSUME IInv, ThroughOK, UNCHANGED counted,
         \A q \in Requests : counted[q] # 0 =>
           /\ key'[q] = key[q]
           /\ pc[q] \in {"limited", "answered"} => pc'[q] = pc[q],
         NoRefunds
  PROVE  ThroughOK'
<1> SUFFICES ASSUME NEW k \in Keys, NEW w \in Nat, w # 0
             PROVE  Cardinality(Through(k, w)') <= Limit
    BY DEF ThroughOK
<1>1. Through(k, w)' \in SUBSET Through(k, w)
    BY DEF Through, Counted, NoRefunds
<1>2. IsFiniteSet(Through(k, w))
  <2>1. Through(k, w) \in SUBSET Counted(k, w)
      BY DEF Through
  <2> QED BY <2>1, Windows, FS_Subset
<1>3. Cardinality(Through(k, w)') <= Cardinality(Through(k, w))
    BY <1>1, <1>2, FS_Subset
<1>4. /\ Cardinality(Through(k, w)) <= Limit
      /\ Cardinality(Through(k, w)) \in Nat /\ Limit \in Nat
    BY <1>2, FS_CardinalityType, LimiterAssumption DEF ThroughOK
<1>5. Cardinality(Through(k, w)') \in Nat
    BY <1>1, <1>2, FS_Subset, FS_CardinalityType
<1> QED BY <1>3, <1>4, <1>5

\* A request that goes on after it was counted is within the limit.
LEMMA SaveThrough ==
  ASSUME IInv, IInv', ThroughOK, NoRefunds, NoRefunds',
         NEW r \in Requests, NEW acked \in BOOLEAN, Save(r, acked)
  PROVE  ThroughOK'
<1>1. /\ key[r] \in Keys /\ UNCHANGED <<key, refunded>>
      /\ \A q \in Requests : q # r => counted'[q] = counted[q] /\ pc'[q] = pc[q]
      /\ counted'[r] = entry[r].exp /\ counted[r] = 0
      /\ pc'[r] \in {"limited", "running", "answered"}
      /\ pc'[r] = "running" => header[r].remaining >= 0
      /\ store'[key[r]].item = entry[r]
  <2>1. pc[r] = "saving" /\ key[r] \in Keys /\ counted[r] = 0
      BY DEF Save, IInv, LockOK, HistoryOK
  <2>2. store'[key[r]].item = entry[r]
      BY <2>1 DEF Save, Saved, IInv, TypeOK
  <2>3. /\ UNCHANGED <<key, refunded>>
        /\ \A q \in Requests : q # r => counted'[q] = counted[q] /\ pc'[q] = pc[q]
        /\ counted'[r] = entry[r].exp
      BY DEF Save, Goto, IInv, TypeOK
  <2>4. /\ pc'[r] \in {"limited", "running", "answered"}
        /\ pc'[r] = "running" => header[r].remaining >= 0
      BY Fields DEF Save, Goto, IInv, TypeOK
  <2> QED BY <2>1, <2>2, <2>3, <2>4
<1>2. /\ entry[r].exp \in Nat /\ entry[r].exp # 0
      /\ entry[r].currHits <= Limit - header[r].remaining
    BY Fields DEF Save, IInv, SavingOK
<1> SUFFICES ASSUME NEW k \in Keys, NEW w \in Nat, w # 0
             PROVE  Cardinality(Through(k, w)') <= Limit
    BY DEF ThroughOK
<1>3. IsFiniteSet(Through(k, w)) /\ Cardinality(Through(k, w)) <= Limit
  <2>1. Through(k, w) \in SUBSET Counted(k, w)
      BY DEF Through
  <2> QED BY <2>1, Windows, FS_Subset DEF ThroughOK
<1>4. CASE k = key[r] /\ w = entry[r].exp /\ pc'[r] = "running"
  <2>1. store'[k].item.currHits = Cardinality(Counted(k, w)') - Cardinality(Refunded(k, w)')
      BY <1>1, <1>4 DEF IInv, NoLostHit
  <2>2. Refunded(k, w)' = {}
      BY DEF NoRefunds, Refunded
  <2>3. IsFiniteSet(Counted(k, w)')
    <3>1. Counted(k, w)' \in SUBSET {q \in Requests : counted'[q] # 0}
        BY DEF Counted
    <3> QED BY <3>1, FS_Subset DEF IInv, FiniteOK
  <2>4. Cardinality(Counted(k, w)') \in Nat
      BY <2>3, FS_CardinalityType
  <2>5. Cardinality(Counted(k, w)') <= Limit
      BY <1>1, <1>2, <1>4, <2>1, <2>2, <2>4, FS_EmptySet, Fields DEF IInv
  <2>6. Through(k, w)' \in SUBSET Counted(k, w)'
      BY DEF Through
  <2>7. Cardinality(Through(k, w)') <= Cardinality(Counted(k, w)')
      BY <2>3, <2>6, FS_Subset
  <2>8. Cardinality(Through(k, w)') \in Nat
      BY <2>3, <2>6, FS_Subset, FS_CardinalityType
  <2> QED BY <2>4, <2>5, <2>7, <2>8, LimiterAssumption
<1>5. CASE ~(k = key[r] /\ w = entry[r].exp /\ pc'[r] = "running")
  <2>1. \A q \in Requests : q \in Through(k, w)' => q \in Through(k, w)
      BY <1>1, <1>5 DEF Through, Counted
  <2>2. Through(k, w)' \in SUBSET Through(k, w)
      BY <2>1 DEF Through, Counted
  <2>3. /\ Cardinality(Through(k, w)') <= Cardinality(Through(k, w))
        /\ Cardinality(Through(k, w)') \in Nat /\ Cardinality(Through(k, w)) \in Nat
      BY <1>3, <2>2, FS_Subset, FS_CardinalityType
  <2> QED BY <1>3, <2>3, LimiterAssumption
<1> QED BY <1>4, <1>5

LEMMA ThroughStep ==
  ASSUME SkipFailed = FALSE, IInv, NoRefunds, ThroughOK, [Next]_vars
  PROVE  NoRefunds' /\ ThroughOK'
<1>1. NoRefunds' /\ IInv'
    BY NoRefundsStep, StepOK
<1>2. CASE UNCHANGED vars \/ Tick
  <2>1. UNCHANGED <<pc, key, counted>>
      BY <1>2 DEF vars, local, Tick
  <2> QED BY <1>1, <2>1, QuietThrough
<1>3. ASSUME NEW r \in Requests, NEW k \in Keys, Arrive(r, k)
      PROVE  ThroughOK'
  <2>1. counted[r] = 0
      BY <1>3 DEF Arrive, IInv, HistoryOK
  <2> QED BY <1>3, <2>1, QuietThrough DEF Arrive, Goto, IInv, TypeOK
<1>4. ASSUME NEW r \in Requests,
             \/ Lock(r) \/ StorageFails(r) \/ Load(r) \/ Count(r) \/ Reload(r)
             \/ \E outcome \in Outcomes : NextReturns(r, outcome)
      PROVE  ThroughOK'
  <2>1. /\ UNCHANGED <<key, counted>>
        /\ \A q \in Requests : q # r => pc'[q] = pc[q]
        /\ pc[r] \notin {"limited", "answered"}
      BY <1>4 DEF Lock, StorageFails, Load, Count, Reload, NextReturns, Goto, IInv, TypeOK
  <2> QED BY <2>1, QuietThrough
<1>5. ASSUME NEW r \in Requests, NEW acked \in BOOLEAN, Save(r, acked)
      PROVE  ThroughOK'
    BY <1>1, <1>5, SaveThrough
<1>6. \A r \in Requests, acked \in BOOLEAN : ~Refund(r, acked)
    BY DEF Refund, NoRefunds
<1> QED BY <1>1, <1>2, <1>3, <1>4, <1>5, <1>6 DEF Next, Step, AllEnded

LEMMA NoRefundsInvariance ==
  ASSUME SkipFailed = FALSE PROVE Spec => []NoRefunds
<1>1. Init => NoRefunds
    BY DEF Init, NoRefunds
<1>2. IInv /\ NoRefunds /\ [Next]_vars => NoRefunds'
    BY NoRefundsStep
<1> QED BY <1>1, <1>2, Invariance, PTL DEF Spec

\* "Max number of connections during `Expiration` seconds": of the requests
\* that a window counts no more than the limit go on to the next handler,
\* for any number of requests at once, and however late and unreliable the
\* storage is, provided that failed requests are not given their hit back.
THEOREM LimitTheorem ==
  ASSUME SkipFailed = FALSE PROVE Spec => []WindowLimit
<1>1. Init => NoRefunds /\ ThroughOK
  <2> SUFFICES ASSUME Init PROVE NoRefunds /\ ThroughOK
      OBVIOUS
  <2>1. NoRefunds
      BY DEF Init, NoRefunds
  <2>2. \A k \in Keys, w \in Nat : w # 0 => Through(k, w) = {}
      BY DEF Init, Through, Counted
  <2> QED BY <2>1, <2>2, FS_EmptySet, LimiterAssumption DEF ThroughOK
<1>2. IInv /\ (NoRefunds /\ ThroughOK) /\ [Next]_vars => (NoRefunds /\ ThroughOK)'
    BY ThroughStep
<1>3. IInv /\ (NoRefunds /\ ThroughOK) => WindowLimit
  <2> SUFFICES ASSUME IInv, ThroughOK, NEW k \in Keys, NEW r \in Requests, counted[r] # 0
               PROVE  Cardinality(Through(k, counted[r])) <= Limit
      BY DEF WindowLimit, Through
  <2>1. counted[r] \in Nat
      BY DEF IInv, TypeOK
  <2> QED BY <2>1 DEF ThroughOK
<1> QED BY <1>1, <1>2, <1>3, Invariance, PTL DEF Spec


-----------------------------------------------------------------------------
(* RateLimiter implements AtomicLimiter.                                   *)
(*                                                                         *)
(* On top of the invariant above: what a request is about to save is the   *)
(* stored entry with one hit more, as of the time that it has read; and    *)
(* the rate it has computed is between the hits of its window and those of *)
(* both.  The save is then the step that counts.                           *)

\* The entry of a window that has not ended at time ts, with one hit more, or
\* the first of a window that begins then.
HitOn(item, old, ts) ==
  \/ /\ ts < old.exp /\ item.exp = old.exp
     /\ item.currHits = old.currHits + 1 /\ item.prevHits = old.prevHits
  \/ /\ ts >= old.exp /\ item.exp \in (ts + 1) .. (ts + Expiration)
     /\ item.currHits = 1 /\ item.prevHits \in {0, old.currHits}

JudgedOK ==
  \A r \in Requests : pc[r] = "saving" =>
    /\ header[r].ts \in 1..now
    /\ HitOn(entry[r], store[key[r]].item, header[r].ts)
    /\ Limit - header[r].remaining \in entry[r].currHits .. (entry[r].currHits + entry[r].prevHits)

BlankOK == \A k \in Keys : store[k].item.exp = 0 => store[k].item = Blank

CountedOK ==
  \A r \in Requests :
    pc[r] \in {"limited", "running", "relocking", "reloading", "refunding"} => counted[r] # 0

RInv == now >= 1 /\ JudgedOK /\ BlankOK /\ CountedOK

-----------------------------------------------------------------------------
(* The arithmetic.                                                         *)

\* A part of a number, rounded down, is not more than the number.
LEMMA PartOf ==
  ASSUME NEW whole \in Nat, NEW size \in Nat, NEW part \in 1..size
  PROVE  (whole * part) \div size \in 0..whole
<1>1. whole * part \in Nat /\ whole * size \in Nat /\ size > 0
    BY TimesNat
<1>2. whole * part <= whole * size
    BY TimesNat
<1> DEFINE product == whole * part
           quot == product \div size
<1>3. quot \in Nat
    BY <1>1, DivNat
<1>4. quot * size <= product
    BY <1>1
<1> HIDE DEF quot, product
<1>5. quot <= whole
  <2> SUFFICES ASSUME quot >= whole + 1 PROVE FALSE
      BY <1>3
  <2>1. quot * size >= (whole + 1) * size
      BY <1>3
  <2>2. (whole + 1) * size = whole * size + size
      OBVIOUS
  <2> QED BY <1>1, <1>2, <1>3, <1>4, <2>1, <2>2 DEF product
<1> QED BY <1>3, <1>5 DEF quot, product

\* setExpiration, and a hit more.
LEMMA HitMoves ==
  ASSUME NEW old \in Items, NEW ts \in Nat, old.exp <= ts + Expiration, Expiration > 0,
         old.exp = 0 => old = Blank,
         NEW new, new = SetExpiration(old, ts)
  PROVE  HitOn([new EXCEPT !.currHits = @ + 1], old, ts)
<1>0. /\ Expiration \in Nat
      /\ old.exp \in Nat /\ old.currHits \in Nat /\ old.prevHits \in Nat
    BY LimiterAssumption DEF Items
<1> DEFINE item == [new EXCEPT !.currHits = @ + 1]
<1>1. CASE old.exp = 0
  <2>1. new = [old EXCEPT !.exp = ts + Expiration]
      BY <1>1 DEF SetExpiration
  <2>2. item.exp = ts + Expiration /\ item.currHits = 1 /\ item.prevHits = 0
      BY <1>1, <2>1 DEF Items, Blank
  <2> HIDE DEF item
  <2> QED BY <1>0, <1>1, <2>2 DEF HitOn, item
<1>2. CASE old.exp # 0 /\ ts < old.exp
  <2>1. new = old
      BY <1>2 DEF SetExpiration
  <2>2. item.exp = old.exp /\ item.currHits = old.currHits + 1 /\ item.prevHits = old.prevHits
      BY <2>1 DEF Items
  <2> QED BY <1>2, <2>2 DEF HitOn
<1>3. CASE old.exp # 0 /\ ~(ts < old.exp)
  <2>1. new = [currHits |-> 0, prevHits |-> old.currHits,
               exp |-> IF ts - old.exp >= Expiration THEN ts + Expiration
                       ELSE old.exp + Expiration]
      BY <1>3 DEF SetExpiration
  <2>2. item.currHits = 1 /\ item.prevHits = old.currHits /\ item.exp = new.exp
      BY <2>1
  <2>3. new.exp \in (ts + 1) .. (ts + Expiration)
      BY <1>0, <1>3, <2>1
  <2> HIDE DEF item
  <2> QED BY <1>0, <1>3, <2>2, <2>3 DEF HitOn, item
<1> QED BY <1>0, <1>1, <1>2, <1>3


-----------------------------------------------------------------------------
(* The invariant.                                                          *)

\* What Count leaves for the save: a hit on the stored window as of now, and
\* a rate that the weight of the window before cannot take out of bounds.
LEMMA CountJudged ==
  ASSUME IInv, RInv, NEW r \in Requests, Count(r), Expiration > 0
  PROVE  /\ header'[r].ts = now
         /\ HitOn(entry'[r], store[key[r]].item, now)
         /\ Limit - header'[r].remaining
              \in entry'[r].currHits .. (entry'[r].currHits + entry'[r].prevHits)
<1> DEFINE moved == SetExpiration(entry[r], now)
           item  == [moved EXCEPT !.currHits = @ + 1]
           reset == IF now < item.exp THEN item.exp - now ELSE 0
           quot  == (item.prevHits * reset) \div Expiration
<1>1. /\ entry' = [entry EXCEPT ![r] = item]
      /\ header' = [header EXCEPT ![r] = [ts |-> now, resetTime |-> reset,
                                          remaining |-> Limit - (quot + item.currHits)]]
    BY DEF Count
<1>2. entry'[r] = item /\ header'[r] = [ts |-> now, resetTime |-> reset,
                                        remaining |-> Limit - (quot + item.currHits)]
    BY <1>1 DEF IInv, TypeOK
<1>3. /\ key[r] \in Keys
      /\ \/ entry[r] = store[key[r]].item
         \/ entry[r] = Blank /\ store[key[r]].item.exp <= now
    BY DEF Count, IInv, LockOK, LoadedOK
<1>4. /\ entry[r] \in Items /\ now \in Nat
      /\ entry[r].exp <= now + Expiration
      /\ entry[r].exp = 0 => entry[r] = Blank
      /\ entry[r].exp = 0 => entry[r].currHits = 0
  <2>1. CASE entry[r] = store[key[r]].item
      BY <1>3, <2>1, Fields DEF IInv, StoreOK, RInv, BlankOK
  <2>2. CASE entry[r] = Blank
      BY <2>2, Fields DEF IInv, Blank
  <2> QED BY <1>3, <2>1, <2>2
<1>5. moved \in Items /\ moved.exp <= now + Expiration /\ moved.exp > now
    BY <1>4, WindowMoves
<1>6. HitOn(item, entry[r], now)
    BY <1>4, HitMoves
<1> HIDE DEF moved
<1>7. /\ item.exp = moved.exp /\ item.exp \in Nat
      /\ item.currHits \in Nat /\ item.prevHits \in Nat
    BY <1>5 DEF Items
<1> HIDE DEF item
<1>8. HitOn(item, store[key[r]].item, now)
  <2>1. CASE entry[r] = store[key[r]].item
      BY <1>6, <2>1
  <2>2. CASE entry[r] = Blank /\ store[key[r]].item.exp <= now
    <3>1. entry[r].exp = 0 /\ entry[r].currHits = 0
        BY <2>2 DEF Blank
    <3>2. item.exp \in (now + 1) .. (now + Expiration) /\ item.currHits = 1 /\ item.prevHits = 0
        BY <1>4, <1>6, <3>1 DEF HitOn
    <3> QED BY <1>3, <1>4, <2>2, <3>2, Fields DEF IInv, HitOn
  <2> QED BY <1>3, <2>1, <2>2
<1>9. reset \in 1..Expiration
    BY <1>4, <1>5, <1>7, Fields DEF IInv
<1> HIDE DEF reset
<1>10. quot \in 0..item.prevHits
    BY <1>7, <1>9, PartOf, Fields DEF IInv
<1> HIDE DEF quot
<1>11. header'[r].ts = now /\ header'[r].remaining = Limit - (quot + item.currHits)
    BY <1>2
<1>12. Limit - header'[r].remaining \in item.currHits .. (item.currHits + item.prevHits)
  <2>1. Limit - (Limit - (quot + item.currHits)) = quot + item.currHits
      BY <1>7, <1>10, LimiterAssumption
  <2> QED BY <1>7, <1>10, <1>11, <2>1
<1> QED BY <1>2, <1>8, <1>11, <1>12

\* The others that are about to save have other keys, so that a step of a
\* request that holds its mutex leaves what they count on alone.
LEMMA JudgedKept ==
  ASSUME IInv, JudgedOK, NEW r \in Requests, Holding(r), UNCHANGED <<now, key>>,
         \A k \in Keys : k # key[r] => store'[k] = store[k],
         \A q \in Requests : q # r => /\ pc'[q] = pc[q] /\ entry'[q] = entry[q]
                                      /\ header'[q] = header[q],
         pc'[r] # "saving"
  PROVE  JudgedOK'
<1>1. \A q \in Requests : pc'[q] = "saving" => q # r /\ key[q] # key[r] /\ key[q] \in Keys
    BY Exclusion DEF Holding, IInv, LockOK
<1>2. \A q \in Requests : pc'[q] = "saving" =>
        /\ store'[key'[q]] = store[key[q]] /\ pc'[q] = pc[q] /\ entry'[q] = entry[q]
        /\ header'[q] = header[q]
    BY <1>1
<1> QED BY <1>2 DEF JudgedOK

\* A step that leaves the stored entries and the history alone.
LEMMA QuietR ==
  ASSUME RInv, UNCHANGED <<now, store, key, counted>>,
         \A q \in Requests :
           /\ pc'[q] = "saving" => /\ pc[q] = "saving"
                                   /\ entry'[q] = entry[q] /\ header'[q] = header[q]
           /\ pc'[q] \in {"limited", "running", "relocking", "reloading", "refunding"}
                => pc[q] \in {"limited", "running", "relocking", "reloading", "refunding"}
  PROVE  RInv'
<1>1. JudgedOK'
    BY DEF RInv, JudgedOK
<1>2. BlankOK' /\ CountedOK'
    BY DEF RInv, BlankOK, CountedOK
<1> QED BY <1>1, <1>2 DEF RInv

LEMMA CountR ==
  ASSUME IInv, RInv, NEW r \in Requests, Count(r)
  PROVE  RInv'
<1>0. /\ pc[r] = "counting"
      /\ UNCHANGED <<now, store, lock, key, counted, refunded>>
      /\ \A q \in Requests : q # r => /\ pc'[q] = pc[q] /\ entry'[q] = entry[q]
                                      /\ header'[q] = header[q]
    BY DEF Count, Goto, IInv, TypeOK
<1>1. CASE Expiration = 0
  <2>1. pc'[r] = "answered"
      BY <1>1 DEF Count, Goto, IInv, TypeOK
  <2> QED BY <1>0, <2>1, QuietR
<1>2. CASE Expiration # 0
  <2>1. Expiration > 0
      BY <1>2, LimiterAssumption
  <2>2. pc'[r] = "saving"
      BY <1>2 DEF Count, Goto, IInv, TypeOK
  <2>3. now \in 1..now
      BY Fields DEF IInv, RInv
  <2>4. JudgedOK'
    <3> SUFFICES ASSUME NEW q \in Requests, pc'[q] = "saving"
                 PROVE  /\ header'[q].ts \in 1..now
                        /\ HitOn(entry'[q], store[key[q]].item, header'[q].ts)
                        /\ Limit - header'[q].remaining
                             \in entry'[q].currHits .. (entry'[q].currHits + entry'[q].prevHits)
        BY <1>0 DEF JudgedOK, HitOn
    <3>1. CASE q = r
        BY <2>1, <2>3, <3>1, CountJudged
    <3>2. CASE q # r
        BY <1>0, <3>2 DEF RInv, JudgedOK
    <3> QED BY <3>1, <3>2
  <2>5. BlankOK' /\ CountedOK'
      BY <1>0, <2>2 DEF RInv, BlankOK, CountedOK
  <2> QED BY <1>0, <2>4, <2>5 DEF RInv
<1> QED BY <1>1, <1>2

LEMMA SaveR ==
  ASSUME IInv, RInv, NEW r \in Requests, NEW acked \in BOOLEAN, Save(r, acked)
  PROVE  RInv'
<1>1. /\ pc[r] = "saving" /\ Holding(r) /\ key[r] \in Keys /\ entry[r].exp # 0
      /\ \A q \in Requests : q # r => pc'[q] = pc[q] /\ counted'[q] = counted[q]
      /\ pc'[r] # "saving" /\ counted'[r] = entry[r].exp
      /\ UNCHANGED <<now, key, entry, header>>
    BY Fields DEF Save, Goto, Holding, IInv, TypeOK, LockOK, SavingOK
<1>2. /\ store'[key[r]].item = entry[r]
      /\ \A k \in Keys : k # key[r] => store'[k] = store[k]
    BY <1>1 DEF Save, Saved, IInv, TypeOK
<1>3. JudgedOK'
    BY <1>1, <1>2, JudgedKept DEF RInv
<1>4. BlankOK' /\ CountedOK'
    BY <1>1, <1>2 DEF RInv, BlankOK, CountedOK
<1> QED BY <1>1, <1>3, <1>4 DEF RInv

\* What a refund that takes a hit does to the stored entry.
LEMMA RefundTakes ==
  ASSUME IInv, NEW r \in Requests, NEW acked \in BOOLEAN, Refund(r, acked),
         entry[r].currHits > 0
  PROVE  /\ key[r] \in Keys /\ store[key[r]].item.currHits > 0
         /\ store[key[r]].item.exp # 0
         /\ store'[key[r]].item.exp = store[key[r]].item.exp
         /\ store'[key[r]].item.currHits = store[key[r]].item.currHits - 1
         /\ store'[key[r]].item.prevHits = store[key[r]].item.prevHits
         /\ \A k \in Keys : k # key[r] => store'[k] = store[k]
<1>1. key[r] \in Keys /\ pc[r] = "refunding" /\ entry[r] \in Items
    BY Fields DEF Refund, IInv, LockOK
<1>2. entry[r] = store[key[r]].item /\ store[key[r]].item.exp # 0
  <2>1. entry[r] # Blank
      BY DEF Blank
  <2>2. entry[r] = store[key[r]].item
      BY <1>1, <2>1 DEF IInv, LoadedOK
  <2> QED BY <1>1, <2>2, Fields DEF IInv, StoreOK
<1>3. entry' = [entry EXCEPT ![r].currHits = @ - 1] /\ Saved(key[r], entry'[r], Expiration)
    BY DEF Refund
<1>4. /\ entry'[r].exp = entry[r].exp /\ entry'[r].currHits = entry[r].currHits - 1
      /\ entry'[r].prevHits = entry[r].prevHits
    BY <1>1, <1>3 DEF IInv, TypeOK, Items
<1>5. store'[key[r]].item = entry'[r] /\ \A k \in Keys : k # key[r] => store'[k] = store[k]
    BY <1>1, <1>3 DEF Saved, IInv, TypeOK
<1> QED BY <1>1, <1>2, <1>4, <1>5

LEMMA RefundR ==
  ASSUME IInv, RInv, NEW r \in Requests, NEW acked \in BOOLEAN, Refund(r, acked)
  PROVE  RInv'
<1>1. /\ pc[r] = "refunding" /\ Holding(r)
      /\ \A q \in Requests : q # r => /\ pc'[q] = pc[q] /\ entry'[q] = entry[q]
                                      /\ header'[q] = header[q]
      /\ pc'[r] \in {"failed", "answered"}
      /\ UNCHANGED <<now, key, counted>>
  <2>1. \A q \in Requests : q # r => entry'[q] = entry[q] /\ header'[q] = header[q]
      BY DEF Refund, IInv, TypeOK
  <2> QED BY <2>1 DEF Refund, Goto, Holding, IInv, TypeOK
<1>2. CASE entry[r].currHits > 0
  <2>1. JudgedOK'
      BY <1>1, <1>2, RefundTakes, JudgedKept DEF RInv
  <2>2. BlankOK'
      BY <1>2, RefundTakes DEF RInv, BlankOK
  <2>3. CountedOK'
      BY <1>1 DEF RInv, CountedOK
  <2> QED BY <1>1, <2>1, <2>2, <2>3 DEF RInv
<1>3. CASE ~(entry[r].currHits > 0)
  <2>1. UNCHANGED <<store, entry, header>>
      BY <1>3 DEF Refund
  <2> QED BY <1>1, <2>1, QuietR
<1> QED BY <1>2, <1>3

LEMMA StepR ==
  ASSUME IInv, RInv, [Next]_vars
  PROVE  RInv'
<1>1. CASE UNCHANGED vars
    BY <1>1, QuietR DEF vars, local
<1>2. CASE Tick
  <2>1. UNCHANGED <<store, pc, key, entry, header, counted>> /\ now' = now + 1 /\ now \in Nat
      BY <1>2, Fields DEF Tick, local, IInv
  <2>2. JudgedOK'
    <3> SUFFICES ASSUME NEW r \in Requests, pc[r] = "saving"
                 PROVE  header[r].ts \in 1..now'
        BY <2>1 DEF RInv, JudgedOK, HitOn
    <3> QED BY <2>1 DEF RInv, JudgedOK
  <2> QED BY <2>1, <2>2 DEF RInv, BlankOK, CountedOK
<1>3. ASSUME NEW r \in Requests,
             \/ \E k \in Keys : Arrive(r, k)
             \/ StorageFails(r) \/ Lock(r) \/ Load(r) \/ Reload(r)
             \/ \E outcome \in Outcomes : NextReturns(r, outcome)
      PROVE  RInv'
  <2>1. /\ UNCHANGED <<now, store, counted>>
        /\ \A q \in Requests : pc'[q] = "saving" \/ q # r => /\ pc'[q] = pc[q] /\ key'[q] = key[q]
                                 /\ entry'[q] = entry[q] /\ header'[q] = header[q]
        /\ pc'[r] \in {"limited", "running", "relocking", "reloading", "refunding"}
             => /\ pc[r] \in {"limited", "running", "relocking", "reloading", "refunding"}
      BY <1>3 DEF Arrive, StorageFails, Lock, Load, Reload, NextReturns, Goto, IInv, TypeOK
  <2>2. JudgedOK'
      BY <2>1 DEF RInv, JudgedOK
  <2>3. BlankOK' /\ CountedOK'
      BY <2>1 DEF RInv, BlankOK, CountedOK
  <2> QED BY <2>1, <2>2, <2>3 DEF RInv
<1> QED BY <1>1, <1>2, <1>3, CountR, SaveR, RefundR DEF Next, Step, AllEnded

LEMMA InvarianceR == Spec => []RInv
<1>1. Init => RInv
  <2> SUFFICES ASSUME Init PROVE RInv
      OBVIOUS
  <2>1. JudgedOK /\ BlankOK /\ CountedOK
      BY DEF Init, JudgedOK, BlankOK, CountedOK
  <2> QED BY <2>1 DEF Init, RInv
<1>2. IInv /\ RInv /\ [Next]_vars => RInv'
    BY StepR
<1> QED BY <1>1, <1>2, Invariance, PTL DEF Spec

-----------------------------------------------------------------------------
(* The steps.                                                              *)

\* Where a request goes, as the client may tell.
VerdictAt(label) ==
  CASE label \in {"new", "locking", "loading", "counting", "saving"} -> "waiting"
    [] label \in {"running", "relocking", "reloading", "refunding"}  -> "admitted"
    [] label = "limited"                                             -> "limited"
    [] OTHER                                                         -> "over"

\* A request that moves changes its own verdict, at most.
LEMMA VerdictMoves ==
  ASSUME NEW r \in Requests, TypeOK, NEW label, Goto(r, label)
  PROVE  /\ Verdict[r] = VerdictAt(pc[r])
         /\ Verdict' = [Verdict EXCEPT ![r] = VerdictAt(label)]
<1>1. /\ \A q \in Requests : pc'[q] = IF q = r THEN label ELSE pc[q]
    BY DEF Goto, TypeOK
<1>2. \A q \in Requests : Verdict[q] = VerdictAt(pc[q]) /\ Verdict'[q] = VerdictAt(pc'[q])
    BY DEF Verdict, VerdictAt
<1> DEFINE moved == [Verdict EXCEPT ![r] = VerdictAt(label)]
<1>3. \A q \in Requests : moved[q] = Verdict'[q]
    BY <1>1, <1>2 DEF Verdict
<1>4. moved = [q \in Requests |-> moved[q]] /\ Verdict' = [q \in Requests |-> Verdict'[q]]
    BY DEF Verdict
<1> HIDE DEF moved
<1>5. moved = Verdict'
    BY <1>3, <1>4
<1> QED BY <1>2, <1>5 DEF moved

\* A step that stores nothing and counts nobody leaves windows and hits alone.
LEMMA SameWindows ==
  ASSUME UNCHANGED <<store, counted>>,
         \A q \in Requests : counted[q] # 0 => key'[q] = key[q]
  PROVE  Window' = Window /\ Charged' = Charged
BY DEF Window, Charged

\* ... and, when its request goes on as before, shows nothing.
LEMMA Hidden ==
  ASSUME TypeOK, NEW r \in Requests, NEW label, Goto(r, label),
         VerdictAt(label) = VerdictAt(pc[r]), now' = now,
         Window' = Window, Charged' = Charged
  PROVE  UNCHANGED <<now, Window, Charged, Verdict>>
<1>1. Verdict' = [Verdict EXCEPT ![r] = Verdict[r]]
    BY VerdictMoves
<1>2. Verdict = [q \in Requests |-> Verdict[q]]
    BY DEF Verdict
<1> QED BY <1>1, <1>2

\* ... and, when it ends its request without a word of the limit, is the end.
LEMMA Ends ==
  ASSUME TypeOK, NEW r \in Requests, NEW label, Goto(r, label), label \in {"succeeded", "failed", "answered"},
         pc[r] \in {"new", "locking", "loading", "counting", "saving",
                    "running", "relocking", "reloading", "refunding"},
         now' = now, Window' = Window, Charged' = Charged
  PROVE  Atomic!Finish(r)
<1>1. VerdictAt(label) = "over" /\ VerdictAt(pc[r]) \in {"waiting", "admitted"}
    BY DEF VerdictAt
<1> QED BY <1>1, VerdictMoves DEF Atomic!Finish

\* The windows after a save or a refund.
LEMMA WindowSet ==
  ASSUME NEW k \in Keys, \A j \in Keys : j # k => store'[j] = store[j]
  PROVE  /\ Window' = [Window EXCEPT ![k] = Window'[k]]
         /\ Window[k] = [end |-> store[k].item.exp, hits |-> store[k].item.currHits,
                         before |-> store[k].item.prevHits]
         /\ Window'[k] = [end |-> store'[k].item.exp, hits |-> store'[k].item.currHits,
                          before |-> store'[k].item.prevHits]
<1>1. \A j \in Keys : j # k => Window'[j] = Window[j]
    BY DEF Window
<1> QED BY <1>1 DEF Window

\* The save counts the request, as of the time that it has read.
LEMMA SaveImplements ==
  ASSUME IInv, RInv, NEW r \in Requests, NEW acked \in BOOLEAN, Save(r, acked)
  PROVE  Atomic!Count(r, key[r])
<1> DEFINE k == key[r]
           ts == header[r].ts
           item == entry[r]
           label == IF ~acked THEN "answered"
                    ELSE IF header[r].remaining < 0 THEN "limited" ELSE "running"
<1>1. /\ pc[r] = "saving" /\ k \in Keys /\ counted[r] = 0 /\ item.exp # 0
      /\ now' = now /\ key' = key /\ Goto(r, label)
      /\ counted' = [counted EXCEPT ![r] = item.exp]
    BY Fields DEF Save, IInv, LockOK, SavingOK, HistoryOK
<1>2. /\ store'[k].item = item
      /\ \A j \in Keys : j # k => store'[j] = store[j]
    BY <1>1 DEF Save, Saved, IInv, TypeOK
<1>3. /\ ts \in 1..now /\ HitOn(item, store[k].item, ts)
      /\ Limit - header[r].remaining \in item.currHits .. (item.currHits + item.prevHits)
    BY <1>1 DEF RInv, JudgedOK
<1>4. item.exp \in Nat /\ item.currHits \in Nat /\ item.prevHits \in Nat
      /\ header[r].remaining \in Int /\ Limit \in Nat
    BY Fields DEF IInv
<1> DEFINE new == [end |-> item.exp, hits |-> item.currHits, before |-> item.prevHits]
<1>5. Window' = [Window EXCEPT ![k] = new]
    BY <1>1, <1>2, WindowSet
<1>6. new \in Atomic!WithHit(Window[k], ts)
  <2>1. Window[k] = [end |-> store[k].item.exp, hits |-> store[k].item.currHits,
                     before |-> store[k].item.prevHits]
      BY <1>1 DEF Window
  <2>2. CASE ts < store[k].item.exp
      BY <1>3, <2>1, <2>2, Fields, <1>1 DEF HitOn, IInv, Atomic!WithHit
  <2>3. CASE ~(ts < store[k].item.exp)
      BY <1>3, <2>1, <2>3, Fields, <1>1 DEF HitOn, IInv, Atomic!WithHit
  <2> QED BY <2>2, <2>3
<1>7. VerdictAt(label) \in Atomic!Answers(new)
  <2>1. header[r].remaining < 0 => new.hits + new.before > Limit
      BY <1>3, <1>4
  <2>2. ~(header[r].remaining < 0) => new.hits <= Limit
      BY <1>3, <1>4
  <2> QED BY <2>1, <2>2 DEF VerdictAt, Atomic!Answers
<1>8. /\ Verdict' = [Verdict EXCEPT ![r] = VerdictAt(label)] /\ Verdict[r] = "waiting"
  <2>1. VerdictAt(pc[r]) = "waiting"
      BY <1>1 DEF VerdictAt
  <2> QED BY <1>1, <2>1, VerdictMoves DEF IInv
<1>9. Charged' = [Charged EXCEPT ![r] = k] /\ Charged[r] = None
  <2>1. \A q \in Requests : counted'[q] = IF q = r THEN item.exp ELSE counted[q]
      BY <1>1 DEF IInv, TypeOK
  <2> QED BY <1>1, <2>1 DEF Charged
<1> HIDE DEF label, new, item
<1> QED BY <1>1, <1>3, <1>5, <1>6, <1>7, <1>8, <1>9 DEF Atomic!Count

\* The refund gives the hit back to the key that the request was counted
\* under, or finds none.
LEMMA RefundImplements ==
  ASSUME IInv, RInv, SkipFailed, NEW r \in Requests, NEW acked \in BOOLEAN, Refund(r, acked)
  PROVE  Atomic!GiveBack(r) \/ Atomic!Finish(r)
<1> DEFINE label == IF acked THEN "failed" ELSE "answered"
<1>1. /\ pc[r] = "refunding" /\ counted[r] # 0 /\ key[r] \in Keys
      /\ Goto(r, label) /\ UNCHANGED <<now, key, counted>>
    BY DEF Refund, IInv, LockOK, RInv, CountedOK
<1>2. Charged[r] = key[r] /\ Charged' = Charged
    BY <1>1 DEF Charged
<1>3. Verdict[r] = "admitted" /\ Verdict' = [Verdict EXCEPT ![r] = "over"]
  <2>1. VerdictAt(pc[r]) = "admitted" /\ VerdictAt(label) = "over"
      BY <1>1 DEF VerdictAt
  <2> QED BY <1>1, <2>1, VerdictMoves DEF IInv
<1>4. CASE entry[r].currHits > 0
  <2> DEFINE k == key[r]
             old == Window[k]
  <2>1. /\ k \in Keys /\ store[k].item.currHits > 0
        /\ store'[k].item.exp = store[k].item.exp
        /\ store'[k].item.currHits = store[k].item.currHits - 1
        /\ store'[k].item.prevHits = store[k].item.prevHits
        /\ \A j \in Keys : j # k => store'[j] = store[j]
      BY <1>4, RefundTakes
  <2>2. Window' = [Window EXCEPT ![k].hits = @ - 1] /\ Window[k].hits > 0
      BY <2>1, WindowSet DEF Window
  <2> QED BY <1>1, <1>2, <1>3, <2>2 DEF Atomic!GiveBack
<1>5. CASE ~(entry[r].currHits > 0)
  <2>1. Window' = Window
      BY <1>5 DEF Refund, Window
  <2> QED BY <1>1, <1>2, <1>3, <2>1 DEF Atomic!Finish
<1> QED BY <1>4, <1>5

\* Hits are given back only where failed requests are skipped.
SkipOK == SkipFailed \/ NoRefunds

\* Every step counts and judges one request, gives one hit back, ends one
\* request, moves the clock, or does not show.
LEMMA StepImplements ==
  ASSUME IInv, RInv, SkipOK, [Next]_vars
  PROVE  Atomic!Next \/ UNCHANGED <<now, Window, Charged, Verdict>>
<1>0. TypeOK
    BY DEF IInv
<1>1. CASE UNCHANGED vars
    BY <1>1 DEF vars, local, Window, Charged, Verdict
<1>2. CASE Tick
  <2>1. Window' = Window /\ Charged' = Charged /\ Verdict' = Verdict
      BY <1>2 DEF Tick, local, Window, Charged, Verdict
  <2> QED BY <1>2, <2>1 DEF Tick, Atomic!Tick, Atomic!Next
<1>3. ASSUME NEW r \in Requests, NEW k \in Keys, Arrive(r, k)
      PROVE  UNCHANGED <<now, Window, Charged, Verdict>>
  <2>1. counted[r] = 0 /\ VerdictAt("locking") = VerdictAt(pc[r])
      BY <1>3 DEF Arrive, IInv, HistoryOK, VerdictAt
  <2>2. \A q \in Requests : counted[q] # 0 => key'[q] = key[q]
      BY <1>3, <2>1 DEF Arrive, IInv, TypeOK
  <2> QED BY <1>0, <1>3, <2>1, <2>2, Hidden, SameWindows DEF Arrive
<1>4. ASSUME NEW r \in Requests, Lock(r) \/ Load(r) \/ Reload(r)
      PROVE  UNCHANGED <<now, Window, Charged, Verdict>>
  <2>1. PICK label : Goto(r, label) /\ VerdictAt(label) = VerdictAt(pc[r])
      BY <1>4 DEF Lock, Load, Reload, VerdictAt
  <2>2. UNCHANGED <<now, store, key, counted>>
      BY <1>4 DEF Lock, Load, Reload
  <2> QED BY <1>0, <2>1, <2>2, Hidden, SameWindows
<1>5. ASSUME NEW r \in Requests, StorageFails(r)
      PROVE  Atomic!Finish(r)
    BY <1>0, <1>5, Ends, SameWindows DEF StorageFails
<1>6. ASSUME NEW r \in Requests, Count(r)
      PROVE  Atomic!Finish(r) \/ UNCHANGED <<now, Window, Charged, Verdict>>
  <2>1. pc[r] = "counting" /\ UNCHANGED <<now, store, key, counted>>
      BY <1>6 DEF Count
  <2>2. CASE Expiration = 0
    <3>1. Goto(r, "answered")
        BY <1>6, <2>2 DEF Count
    <3> QED BY <1>0, <2>1, <3>1, Ends, SameWindows
  <2>3. CASE Expiration # 0
    <3>1. Goto(r, "saving") /\ VerdictAt("saving") = VerdictAt(pc[r])
        BY <1>6, <2>1, <2>3 DEF Count, VerdictAt
    <3> QED BY <1>0, <2>1, <3>1, Hidden, SameWindows
  <2> QED BY <2>2, <2>3
<1>7. ASSUME NEW r \in Requests, NEW acked \in BOOLEAN, Save(r, acked)
      PROVE  \E k \in Keys : Atomic!Count(r, k)
  <2>1. key[r] \in Keys
      BY <1>7 DEF Save, IInv, LockOK
  <2> QED BY <1>7, <2>1, SaveImplements
<1>8. ASSUME NEW r \in Requests, NEW acked \in BOOLEAN, Refund(r, acked)
      PROVE  Atomic!GiveBack(r) \/ Atomic!Finish(r)
  <2>1. SkipFailed
      BY <1>8 DEF SkipOK, NoRefunds, Refund
  <2> QED BY <1>8, <2>1, RefundImplements
<1>9. ASSUME NEW r \in Requests, NEW outcome \in Outcomes, NextReturns(r, outcome)
      PROVE  Atomic!Finish(r) \/ UNCHANGED <<now, Window, Charged, Verdict>>
  <2>1. pc[r] = "running" /\ UNCHANGED <<now, store, key, counted>>
      BY <1>9 DEF NextReturns
  <2>2. PICK label \in {"relocking", "succeeded", "failed"} : Goto(r, label)
      BY <1>9 DEF NextReturns
  <2>3. CASE label = "relocking"
    <3>1. VerdictAt(label) = VerdictAt(pc[r])
        BY <2>1, <2>3 DEF VerdictAt
    <3> QED BY <1>0, <2>1, <2>2, <3>1, Hidden, SameWindows
  <2>4. CASE label # "relocking"
      BY <1>0, <2>1, <2>2, <2>4, Ends, SameWindows
  <2> QED BY <2>3, <2>4
<1>10. CASE \E r \in Requests : Step(r)
  <2>1. PICK r \in Requests : Step(r)
      BY <1>10
  <2> QED BY <2>1, <1>4, <1>6, <1>7, <1>8, <1>9 DEF Step, Atomic!Next
<1>11. CASE \E r \in Requests : (\E k \in Keys : Arrive(r, k)) \/ StorageFails(r)
    BY <1>3, <1>5, <1>11 DEF Atomic!Next
<1> QED BY <1>1, <1>2, <1>10, <1>11 DEF Next, AllEnded

\* The middleware, with its mutexes, copies and storage calls (which may fail,
\* forget, or do what they were told and not say so), behaves as if each
\* request were counted, judged and given its hit back in single steps.
THEOREM AtomicTheorem == Spec => ImplementsAtomic
<1>1. Init => Atomic!Init /\ SkipOK
  <2> SUFFICES ASSUME Init PROVE Atomic!Init /\ SkipOK
      OBVIOUS
  <2>1. Window = [k \in Keys |-> [end |-> 0, hits |-> 0, before |-> 0]]
      BY DEF Init, Window, Blank
  <2>2. Charged = [r \in Requests |-> None]
      BY DEF Init, Charged
  <2>3. Verdict = [r \in Requests |-> "waiting"]
      BY DEF Init, Verdict
  <2>4. SkipOK
      BY DEF Init, SkipOK, NoRefunds
  <2> QED BY <2>1, <2>2, <2>3, <2>4 DEF Init, Atomic!Init
<1>2. IInv /\ SkipOK /\ [Next]_vars => SkipOK'
    BY NoRefundsStep, LimiterAssumption DEF SkipOK
<1>3. IInv /\ RInv /\ SkipOK /\ [Next]_vars => [Atomic!Next]_(Atomic!vars)
    BY StepImplements DEF Atomic!vars
<1> QED BY <1>1, <1>2, <1>3, Invariance, InvarianceR, PTL DEF Spec, ImplementsAtomic, Atomic!Spec

-----------------------------------------------------------------------------
(* Who is limited has been busy.                                           *)
(*                                                                         *)
(* Where the storage is an external one that answers within the second,    *)
(* and no hit is given back: an entry is dropped in the second in which    *)
(* the window after its own ends, so that prevHits are the hits of one of  *)
(* the two windows before, or none; and who saves does so in the second    *)
(* that it has read.                                                       *)

BeforeOK(k, item) ==
  \/ item.prevHits = 0
  \/ \E w \in {item.exp - Expiration, item.exp - 2 * Expiration} :
       w > 0 /\ item.prevHits = Cardinality(Counted(k, w))

PromptOK ==
  \A r \in Requests :
    /\ pc[r] = "counting" =>
         \/ entry[r] = Blank
         \/ entry[r] = store[key[r]].item /\ now <= store[key[r]].item.exp + Expiration
    /\ pc[r] = "saving" => /\ header[r].ts = now
                           /\ entry[r].exp = now + header[r].resetTime
                           /\ BeforeOK(key[r], entry[r])

KeptOK ==
  \A k \in Keys :
    /\ store[k].item.exp # 0 => store[k].gone = store[k].item.exp + Expiration
    /\ BeforeOK(k, store[k].item)

\* The request was sent in the window that counts it.
SentOK ==
  \A q \in Requests : counted[q] # 0 =>
    /\ header[q].ts < counted[q] /\ counted[q] <= header[q].ts + Expiration
    /\ header[q].ts <= now

BInv == PromptOK /\ KeptOK /\ SentOK /\ LimitedMeansRecent

\* A step that counts nobody leaves what the windows have counted alone.
LEMMA SameCounted ==
  ASSUME UNCHANGED counted, \A q \in Requests : counted[q] # 0 => key'[q] = key[q],
         NEW k, NEW w, w # 0
  PROVE  Counted(k, w)' = Counted(k, w)
BY DEF Counted

LEMMA SameBefore ==
  ASSUME UNCHANGED counted, \A q \in Requests : counted[q] # 0 => key'[q] = key[q],
         NEW k, NEW item \in Items, BeforeOK(k, item)
  PROVE  BeforeOK(k, item)'
<1>1. CASE item.prevHits = 0
    BY <1>1 DEF BeforeOK
<1>2. CASE item.prevHits # 0
  <2>1. PICK w \in {item.exp - Expiration, item.exp - 2 * Expiration} :
               w > 0 /\ item.prevHits = Cardinality(Counted(k, w))
      BY <1>2 DEF BeforeOK
  <2>2. w # 0
      BY <2>1, LimiterAssumption DEF Items
  <2>3. Counted(k, w)' = Counted(k, w)
      BY <2>2, SameCounted
  <2> QED BY <2>1, <2>3 DEF BeforeOK
<1> QED BY <1>1, <1>2

\* Who is limited stays busy, whatever is counted besides.
LEMMA StaysBusy ==
  ASSUME IInv, IInv', RInv, LimitedMeansRecent, NEW r \in Requests, pc[r] = "limited",
         \A q \in Requests : counted[q] # 0 =>
           key'[q] = key[q] /\ header'[q] = header[q] /\ counted'[q] # 0
  PROVE  Cardinality(Recent(r, 3)') > Limit
<1>1. counted[r] # 0
    BY DEF RInv, CountedOK
<1>2. Recent(r, 3) \in SUBSET Recent(r, 3)'
    BY <1>1 DEF Recent
<1>3. IsFiniteSet(Recent(r, 3)')
  <2>1. Recent(r, 3)' \in SUBSET {q \in Requests : counted'[q] # 0}
      BY DEF Recent
  <2> QED BY <2>1, FS_Subset DEF IInv, FiniteOK
<1>4. Cardinality(Recent(r, 3)) <= Cardinality(Recent(r, 3)') /\ IsFiniteSet(Recent(r, 3))
    BY <1>2, <1>3, FS_Subset
<1>5. Cardinality(Recent(r, 3)) \in Nat /\ Cardinality(Recent(r, 3)') \in Nat
    BY <1>3, <1>4, FS_CardinalityType
<1>6. Cardinality(Recent(r, 3)) > Limit
    BY DEF LimitedMeansRecent, Recent
<1> QED BY <1>4, <1>5, <1>6, LimiterAssumption

\* A step that neither stores nor counts, nor limits anybody.
LEMMA QuietBusy ==
  ASSUME IInv, IInv', RInv, BInv, UNCHANGED <<store, counted>>, now' \in {now, now + 1},
         \A q \in Requests :
           /\ counted[q] # 0 => key'[q] = key[q] /\ header'[q] = header[q]
           /\ pc'[q] = "limited" => pc[q] = "limited"
  PROVE  KeptOK' /\ SentOK' /\ LimitedMeansRecent'
<1>1. KeptOK'
    BY SameBefore, Fields DEF BInv, KeptOK, IInv
<1>2. SentOK'
    BY DEF IInv, TypeOK, BInv, SentOK
<1>3. LimitedMeansRecent'
    BY StaysBusy DEF BInv, LimitedMeansRecent, Recent
<1> QED BY <1>1, <1>2, <1>3

\* ... and lets nobody count or save that did not.
LEMMA QuietPrompt ==
  ASSUME IInv, BInv, UNCHANGED <<now, store, counted>>,
         \A q \in Requests :
           /\ counted[q] # 0 => key'[q] = key[q]
           /\ pc'[q] \in {"counting", "saving"} =>
                /\ pc'[q] = pc[q] /\ key'[q] = key[q]
                /\ entry'[q] = entry[q] /\ header'[q] = header[q]
  PROVE  PromptOK'
<1>1. \A q \in Requests : pc'[q] = "counting" =>
        \/ entry'[q] = Blank
        \/ entry'[q] = store'[key'[q]].item /\ now' <= store'[key'[q]].item.exp + Expiration
    BY DEF BInv, PromptOK
<1>2. ASSUME NEW q \in Requests, pc'[q] = "saving"
      PROVE  /\ header'[q].ts = now' /\ entry'[q].exp = now' + header'[q].resetTime
             /\ BeforeOK(key[q], entry[q])'
  <2>1. /\ header[q].ts = now /\ entry[q].exp = now + header[q].resetTime
        /\ BeforeOK(key[q], entry[q]) /\ entry[q] \in Items
      BY <1>2, Fields DEF BInv, PromptOK, IInv
  <2>2. PICK k, item : k = key[q] /\ item = entry[q]
      OBVIOUS
  <2>3. BeforeOK(k, item)'
      BY <2>1, <2>2, SameBefore
  <2>4. key'[q] = k /\ entry'[q] = item
      BY <1>2, <2>2
  <2> QED BY <1>2, <2>1, <2>3, <2>4 DEF BeforeOK, Counted
<1> QED BY <1>1, <1>2 DEF PromptOK

LEMMA TickBusy ==
  ASSUME Prompt, IInv, IInv', RInv, BInv, Tick
  PROVE  BInv'
<1>1. \A r \in Requests : pc'[r] \notin {"counting", "saving"}
  <2> SUFFICES ASSUME NEW r \in Requests, pc[r] \in {"counting", "saving"} PROVE FALSE
      BY DEF Tick, local
  <2>1. lock[Slot(r)] = r /\ Slot(r) \in Slots
      BY LimiterAssumption DEF IInv, LockOK, Holding, Slot
  <2> QED BY <2>1, LimiterAssumption DEF Tick
<1>2. PromptOK'
    BY <1>1 DEF PromptOK
<1>3. KeptOK' /\ SentOK' /\ LimitedMeansRecent'
    BY QuietBusy DEF Tick, local
<1> QED BY <1>2, <1>3 DEF BInv

\* load returns a stored entry at the latest when the window after its own ends.
LEMMA LoadBusy ==
  ASSUME External, IInv, IInv', RInv, BInv, NEW r \in Requests, Load(r)
  PROVE  BInv'
<1>1. /\ pc[r] = "loading" /\ key[r] \in Keys
      /\ pc' = [pc EXCEPT ![r] = "counting"]
      /\ UNCHANGED <<now, store, lock, key, header, counted, refunded>>
    BY DEF Load, Goto, IInv, LockOK
<1>5. PICK item \in Loaded(key[r]) : entry' = [entry EXCEPT ![r] = item]
    BY DEF Load
<1>2. KeptOK' /\ SentOK' /\ LimitedMeansRecent'
    BY <1>1, <1>5, QuietBusy DEF IInv, TypeOK
<1>3. \/ item = Blank
      \/ /\ item = store[key[r]].item
         /\ now <= store[key[r]].item.exp + Expiration
  <2>1. CASE item = Blank
      BY <2>1
  <2>2. CASE item # Blank
    <3>1. item = store[key[r]].item /\ now <= store[key[r]].gone
        BY <1>5, <2>2 DEF Loaded
    <3>2. CASE store[key[r]].item.exp = 0
        BY <1>1, <3>1, <3>2 DEF RInv, BlankOK
    <3>3. CASE store[key[r]].item.exp # 0
      <4>1. store[key[r]].gone = store[key[r]].item.exp + Expiration
          BY <1>1, <3>3 DEF BInv, KeptOK
      <4> QED BY <1>1, <3>1, <4>1, Fields DEF IInv
    <3> QED BY <3>2, <3>3
  <2> QED BY <2>1, <2>2
<1>4. PromptOK'
  <2>1. /\ \A q \in Requests : q # r => pc'[q] = pc[q] /\ entry'[q] = entry[q]
        /\ pc'[r] = "counting" /\ entry'[r] = item
      BY <1>1, <1>5 DEF IInv, TypeOK
  <2>2. \A q \in Requests : pc'[q] = "counting" =>
          \/ entry'[q] = Blank
          \/ entry'[q] = store'[key'[q]].item /\ now' <= store'[key'[q]].item.exp + Expiration
      BY <1>1, <1>3, <2>1 DEF BInv, PromptOK
  <2>3. \A q \in Requests : pc'[q] = "saving" =>
             /\ header'[q].ts = now' /\ entry'[q].exp = now' + header'[q].resetTime
             /\ BeforeOK(key[q], entry[q])'
      BY <1>1, <2>1 DEF BInv, PromptOK, BeforeOK, Counted
  <2> QED BY <2>2, <2>3 DEF PromptOK
<1> QED BY <1>2, <1>4 DEF BInv

\* Where no hit has been given back, the stored ones are the requests counted.
LEMMA HitsCounted ==
  ASSUME IInv, NoRefunds, NEW k \in Keys, store[k].item.exp # 0
  PROVE  store[k].item.currHits = Cardinality(Counted(k, store[k].item.exp))
<1>1. Refunded(k, store[k].item.exp) = {}
    BY DEF NoRefunds, Refunded
<1>2. Cardinality(Refunded(k, store[k].item.exp)) = 0
    BY <1>1, FS_EmptySet
<1>3. IsFiniteSet(Counted(k, store[k].item.exp))
    BY Windows, Fields DEF IInv
<1>4. Cardinality(Counted(k, store[k].item.exp)) \in Nat
    BY <1>3, FS_CardinalityType
<1> QED BY <1>2, <1>4 DEF IInv, NoLostHit

\* setExpiration moves the hits of a window to the one right after it.
LEMMA BeforeMoves ==
  ASSUME IInv, RInv, BInv, NoRefunds, NEW k \in Keys, NEW old, NEW new,
         \/ old = Blank
         \/ old = store[k].item /\ now <= store[k].item.exp + Expiration,
         new = SetExpiration(old, now)
  PROVE  BeforeOK(k, new)
<1>0. old \in Items /\ old.exp \in Nat /\ old.currHits \in Nat /\ old.prevHits \in Nat
      /\ now \in Nat /\ Expiration \in Nat
    BY Fields DEF IInv, Blank, Items
<1>1. CASE old.exp = 0
  <2>1. old.prevHits = 0
      BY <1>1 DEF RInv, BlankOK, Blank
  <2>2. new = [old EXCEPT !.exp = now + Expiration]
      BY <1>1 DEF SetExpiration
  <2>3. new.prevHits = 0
      BY <1>0, <2>1, <2>2 DEF Items
  <2> QED BY <2>3 DEF BeforeOK
<1>2. CASE old.exp # 0 /\ now < old.exp
  <2>1. new = old /\ old = store[k].item
      BY <1>2 DEF SetExpiration, Blank
  <2> QED BY <2>1 DEF BInv, KeptOK
<1>3. CASE old.exp # 0 /\ ~(now < old.exp)
  <2>1. old = store[k].item /\ now <= old.exp + Expiration
      BY <1>3 DEF Blank
  <2>2. new = [currHits |-> 0, prevHits |-> old.currHits,
               exp |-> IF now - old.exp >= Expiration THEN now + Expiration
                       ELSE old.exp + Expiration]
      BY <1>3 DEF SetExpiration
  <2>3. now - old.exp >= Expiration => now = old.exp + Expiration
      BY <1>0, <2>1
  <2>4. /\ new.prevHits = old.currHits
        /\ \/ new.exp = old.exp + Expiration
           \/ new.exp = old.exp + Expiration + Expiration
      BY <2>2, <2>3
  <2>5. old.exp \in {new.exp - Expiration, new.exp - 2 * Expiration} /\ old.exp > 0
      BY <1>0, <1>3, <2>4
  <2>6. old.currHits = Cardinality(Counted(k, old.exp))
      BY <1>3, <2>1, HitsCounted
  <2> QED BY <2>4, <2>5, <2>6 DEF BeforeOK
<1> QED BY <1>0, <1>1, <1>2, <1>3

LEMMA CountBusy ==
  ASSUME IInv, IInv', RInv, BInv, NoRefunds, NEW r \in Requests, Count(r)
  PROVE  BInv'
<1>0. /\ pc[r] = "counting" /\ key[r] \in Keys /\ counted[r] = 0
      /\ pc'[r] \in {"answered", "saving"}
      /\ \A q \in Requests : q # r => pc'[q] = pc[q] /\ entry'[q] = entry[q]
                                      /\ header'[q] = header[q]
      /\ UNCHANGED <<now, store, lock, key, counted, refunded>>
    BY DEF Count, Goto, IInv, TypeOK, LockOK, HistoryOK
<1>1. KeptOK' /\ SentOK' /\ LimitedMeansRecent'
    BY <1>0, QuietBusy
<1>2. CASE Expiration = 0
  <2>1. pc'[r] = "answered"
      BY <1>2 DEF Count, Goto, IInv, TypeOK
  <2> QED BY <1>0, <1>1, <2>1, QuietPrompt DEF BInv
<1>3. CASE Expiration # 0
  <2> DEFINE moved == SetExpiration(entry[r], now)
             item  == [moved EXCEPT !.currHits = @ + 1]
             reset == IF now < item.exp THEN item.exp - now ELSE 0
             rate  == (item.prevHits * reset) \div Expiration + item.currHits
  <2>1. /\ entry' = [entry EXCEPT ![r] = item]
        /\ header' = [header EXCEPT ![r] = [ts |-> now, resetTime |-> reset,
                                            remaining |-> Limit - rate]]
      BY <1>3 DEF Count
  <2>2. /\ entry'[r] = item
        /\ header'[r] = [ts |-> now, resetTime |-> reset, remaining |-> Limit - rate]
      BY <2>1 DEF IInv, TypeOK
  <2>3. BeforeOK(key[r], moved)
      BY <1>0, BeforeMoves DEF BInv, PromptOK
  <2>4. entry[r] \in Items /\ entry[r].exp <= now + Expiration /\ now \in Nat
        /\ (entry[r].exp = 0 => entry[r].currHits = 0)
    <3>1. CASE entry[r] = Blank
        BY <3>1, Fields DEF IInv, Blank
    <3>2. CASE entry[r] = store[key[r]].item
        BY <1>0, <3>2, Fields DEF IInv, StoreOK
    <3> QED BY <1>0, <3>1, <3>2 DEF BInv, PromptOK
  <2>5. moved \in Items /\ moved.exp > now
      BY <1>3, <2>4, WindowMoves, LimiterAssumption
  <2> HIDE DEF moved
  <2>6. item.exp = moved.exp /\ item.prevHits = moved.prevHits /\ item.exp \in Nat
      BY <2>5 DEF Items
  <2>7. BeforeOK(key[r], item)
      BY <2>3, <2>6 DEF BeforeOK
  <2> HIDE DEF item
  <2>8. reset = item.exp - now
      BY <2>5, <2>6
  <2>9. header'[r].ts = now /\ entry'[r].exp = now + header'[r].resetTime
    <3> HIDE DEF rate
    <3>1. header'[r].ts = now /\ header'[r].resetTime = reset /\ entry'[r].exp = item.exp
        BY <2>2
    <3> QED BY <2>4, <2>6, <2>8, <3>1
  <2>10. BeforeOK(key[r], entry[r])'
      BY <1>0, <2>2, <2>7 DEF BeforeOK, Counted
  <2>11. \A q \in Requests : q # r /\ pc'[q] = "saving" => BeforeOK(key[q], entry[q])'
      BY <1>0 DEF BInv, PromptOK, BeforeOK, Counted
  <2>12. PromptOK'
    <3>1. \A q \in Requests : pc'[q] = "counting" =>
            \/ entry'[q] = Blank
            \/ entry'[q] = store'[key'[q]].item /\ now' <= store'[key'[q]].item.exp + Expiration
        BY <1>0 DEF BInv, PromptOK
    <3>2. \A q \in Requests : pc'[q] = "saving" =>
            header'[q].ts = now' /\ entry'[q].exp = now' + header'[q].resetTime
        BY <1>0, <2>9 DEF BInv, PromptOK
    <3> QED BY <2>10, <2>11, <3>1, <3>2 DEF PromptOK
  <2> QED BY <1>1, <2>12 DEF BInv
<1> QED BY <1>2, <1>3

\* A save counts a request in one window of one key.
LEMMA SaveElsewhere ==
  ASSUME IInv, NEW r \in Requests, NEW acked \in BOOLEAN, Save(r, acked),
         NEW j, NEW w, w # 0, ~(j = key[r] /\ w = entry[r].exp)
  PROVE  Counted(j, w)' = Counted(j, w)
<1>1. /\ counted[r] = 0 /\ key' = key
      /\ \A q \in Requests : counted'[q] = IF q = r THEN entry[r].exp ELSE counted[q]
    BY DEF Save, IInv, TypeOK, HistoryOK
<1> QED BY <1>1 DEF Counted

\* Who finds nothing left is not alone: the hits that the rate is made of are
\* requests of this window and of one of the two before it.
LEMMA SaveLimits ==
  ASSUME External, IInv, IInv', RInv, BInv, NoRefunds, NoRefunds', SentOK',
         NEW r \in Requests, NEW acked \in BOOLEAN, Save(r, acked), pc'[r] = "limited"
  PROVE  Cardinality(Recent(r, 3)') > Limit
<1>0. PICK k \in Keys, w \in Nat, t \in Nat, reset \in 1..Expiration, before \in Nat, hits \in Nat :
        /\ k = key[r] /\ w = entry[r].exp /\ t = header[r].ts /\ reset = header[r].resetTime
        /\ before = entry[r].prevHits /\ hits = entry[r].currHits
  <2>1. key[r] \in Keys /\ header[r].resetTime \in 1..Expiration
      BY DEF Save, IInv, LockOK, HeaderOK
  <2> QED BY <2>1, Fields DEF IInv, TypeOK
<1>1. /\ w # 0 /\ t = now /\ w = t + reset /\ counted[r] = 0
      /\ header[r].remaining < 0
      /\ Limit - header[r].remaining \in hits .. (hits + before)
      /\ BeforeOK(k, entry[r])
  <2>1. pc[r] = "saving" /\ header[r].remaining < 0
      BY DEF Save, Goto, IInv, TypeOK
  <2> QED BY <1>0, <2>1 DEF IInv, SavingOK, HistoryOK, RInv, JudgedOK, BInv, PromptOK
<1>2. /\ store'[k].item = entry[r] /\ key' = key /\ header' = header /\ now' = now
      /\ counted'[r] = w
    BY <1>0 DEF Save, Saved, IInv, TypeOK
<1>3. hits = Cardinality(Counted(k, w)')
  <2>1. Refunded(k, w)' = {}
      BY <1>1 DEF NoRefunds, Refunded
  <2>2. Cardinality(Refunded(k, w)') = 0
      BY <2>1, FS_EmptySet
  <2>3. Counted(k, w)' \in SUBSET {q \in Requests : counted'[q] # 0}
      BY <1>1 DEF Counted
  <2>4. Cardinality(Counted(k, w)') \in Nat
      BY <2>3, FS_Subset, FS_CardinalityType DEF IInv, FiniteOK
  <2>5. store'[k].item.currHits = Cardinality(Counted(k, w)') - Cardinality(Refunded(k, w)')
    <3>1. store'[k].item.exp = w /\ w # 0
        BY <1>0, <1>1, <1>2
    <3> QED BY <3>1 DEF IInv, NoLostHit
  <2> QED BY <1>0, <1>2, <2>2, <2>4, <2>5
<1>4. PICK sofar : /\ sofar \in SUBSET {q \in Requests : /\ key[q] = k
                                                     /\ counted'[q] # 0
                                                     /\ counted'[q] + Expiration <= w
                                                     /\ counted'[q] + 2 * Expiration >= w}
               /\ Cardinality(sofar) = before
  <2>1. CASE before = 0
    <3>1. Cardinality({}) = 0
        BY FS_EmptySet
    <3> QED BY <2>1, <3>1
  <2>2. CASE before # 0
    <3>1. PICK v \in {w - Expiration, w - 2 * Expiration} :
                 v > 0 /\ before = Cardinality(Counted(k, v))
        BY <1>0, <1>1, <2>2 DEF BeforeOK
    <3>2. v # 0 /\ v # w /\ v \in Nat /\ v + Expiration <= w /\ v + 2 * Expiration >= w
        BY <1>0, <3>1, LimiterAssumption
    <3>3. Counted(k, v)' = Counted(k, v)
        BY <1>0, <3>2, SaveElsewhere
    <3>4. Counted(k, v)' \in
            SUBSET {q \in Requests : /\ key[q] = k /\ counted'[q] # 0
                                     /\ counted'[q] + Expiration <= w
                                     /\ counted'[q] + 2 * Expiration >= w}
        BY <1>2, <3>2 DEF Counted
    <3> QED BY <3>1, <3>3, <3>4
  <2> QED BY <2>1, <2>2
<1> DEFINE these == Counted(k, w)'
<1>5. \A q \in these \cup sofar :
        /\ q \in Requests /\ key'[q] = k /\ counted'[q] # 0
        /\ w <= counted'[q] + 2 * Expiration /\ counted'[q] <= w
  <2>1. \A q \in these : q \in Requests /\ key'[q] = k /\ counted'[q] = w
      BY DEF Counted
  <2>2. \A q \in sofar :
          /\ q \in Requests /\ key[q] = k /\ counted'[q] # 0 /\ counted'[q] \in Nat
          /\ counted'[q] + Expiration <= w /\ counted'[q] + 2 * Expiration >= w
      BY <1>4 DEF IInv, TypeOK
  <2> HIDE DEF these
  <2>3. \A q \in these : w <= counted'[q] + 2 * Expiration /\ counted'[q] <= w
      BY <1>0, <2>1, LimiterAssumption
  <2>4. \A q \in sofar : w <= counted'[q] + 2 * Expiration /\ counted'[q] <= w
      BY <1>0, <2>2, LimiterAssumption
  <2> QED BY <1>1, <1>2, <2>1, <2>2, <2>3, <2>4
<1>6. these \cup sofar \in SUBSET Recent(r, 3)'
  <2> SUFFICES ASSUME NEW q \in these \cup sofar
               PROVE  q \in Recent(r, 3)'
      OBVIOUS
  <2> HIDE DEF these
  <2>1. q \in Requests /\ counted'[q] \in Nat /\ header'[q].ts \in Nat
      BY <1>5 DEF IInv, TypeOK
  <2>2. /\ counted'[q] <= header'[q].ts + Expiration /\ header'[q].ts <= t
      BY <1>1, <1>2, <1>5 DEF SentOK
  <2>3. header'[q].ts > t - 3 * Expiration
      BY <1>0, <1>1, <1>5, <2>1, <2>2, LimiterAssumption
  <2> QED BY <1>0, <1>2, <1>5, <2>1, <2>2, <2>3 DEF Recent
<1>7. IsFiniteSet(Recent(r, 3)')
  <2>1. Recent(r, 3)' \in SUBSET {q \in Requests : counted'[q] # 0}
      BY DEF Recent
  <2> QED BY <2>1, FS_Subset DEF IInv, FiniteOK
<1>8. these \cap sofar = {}
  <2> SUFFICES ASSUME NEW q \in these, q \in sofar PROVE FALSE
      OBVIOUS
  <2>1. counted'[q] = w
      BY DEF Counted
  <2>2. counted'[q] + Expiration <= w
      BY <1>4
  <2> QED BY <1>0, <2>1, <2>2, LimiterAssumption
<1> HIDE DEF these
<1>9. IsFiniteSet(these \cup sofar) /\ Cardinality(these \cup sofar) <= Cardinality(Recent(r, 3)')
    BY <1>6, <1>7, FS_Subset
<1>10. IsFiniteSet(these) /\ IsFiniteSet(sofar)
    BY <1>9, FS_Subset
<1>11. Cardinality(these \cup sofar) = Cardinality(these) + Cardinality(sofar) - Cardinality({})
    BY <1>8, <1>10, FS_Union
<1>12. Cardinality(these \cup sofar) = hits + before
    BY <1>0, <1>3, <1>4, <1>11, FS_EmptySet DEF these
<1>13. Cardinality(Recent(r, 3)') \in Nat /\ header[r].remaining \in Int
    BY <1>7, FS_CardinalityType, Fields DEF IInv
<1> QED BY <1>0, <1>1, <1>9, <1>12, <1>13, LimiterAssumption

LEMMA SaveBusy ==
  ASSUME External, IInv, IInv', RInv, BInv, NoRefunds, NoRefunds',
         NEW r \in Requests, NEW acked \in BOOLEAN, Save(r, acked)
  PROVE  BInv'
<1>1. /\ pc[r] = "saving" /\ Holding(r) /\ key[r] \in Keys /\ counted[r] = 0
      /\ entry[r].exp # 0 /\ entry[r] \in Items
      /\ header[r].ts = now /\ header[r].ts \in Nat /\ header[r].resetTime \in 1..Expiration
      /\ entry[r].exp = now + header[r].resetTime /\ BeforeOK(key[r], entry[r])
    BY Fields DEF Save, Holding, IInv, TypeOK, LockOK, SavingOK, HeaderOK, HistoryOK,
                  BInv, PromptOK
<1>2. /\ store'[key[r]] = [item |-> entry[r],
                           gone |-> now + (header[r].resetTime + Expiration)]
      /\ \A k \in Keys : k # key[r] => store'[k] = store[k]
      /\ \A q \in Requests : q # r => pc'[q] = pc[q] /\ counted'[q] = counted[q]
      /\ counted'[r] = entry[r].exp /\ pc'[r] \notin {"counting", "saving"}
      /\ UNCHANGED <<now, key, entry, header>>
    BY <1>1 DEF Save, Saved, Goto, IInv, TypeOK
<1>3. \A j, v : v # 0 /\ ~(j = key[r] /\ v = entry[r].exp) => Counted(j, v)' = Counted(j, v)
    BY SaveElsewhere
<1>4. ASSUME NEW j, NEW item \in Items, BeforeOK(j, item),
             j = key[r] => item.exp <= entry[r].exp
      PROVE  BeforeOK(j, item)'
  <2>1. CASE item.prevHits = 0
      BY <2>1 DEF BeforeOK
  <2>2. CASE item.prevHits # 0
    <3>1. PICK w \in {item.exp - Expiration, item.exp - 2 * Expiration} :
                 w > 0 /\ item.prevHits = Cardinality(Counted(j, w))
        BY <1>4, <2>2 DEF BeforeOK
    <3>2. w # 0 /\ (j = key[r] => w # entry[r].exp)
        BY <1>1, <1>4, <3>1, LimiterAssumption DEF Items
    <3>3. Counted(j, w)' = Counted(j, w)
        BY <1>3, <3>2
    <3> QED BY <3>1, <3>3 DEF BeforeOK
  <2> QED BY <2>1, <2>2
<1>5. PromptOK'
  <2>1. \A q \in Requests : pc'[q] \in {"counting", "saving"} =>
          q # r /\ key[q] # key[r] /\ key[q] \in Keys
      BY <1>1, <1>2, Exclusion DEF Holding, IInv, LockOK
  <2>2. \A q \in Requests : pc'[q] = "counting" =>
          \/ entry'[q] = Blank
          \/ entry'[q] = store'[key'[q]].item /\ now' <= store'[key'[q]].item.exp + Expiration
      BY <1>2, <2>1 DEF BInv, PromptOK
  <2>3. ASSUME NEW q \in Requests, pc'[q] = "saving"
        PROVE  /\ header'[q].ts = now' /\ entry'[q].exp = now' + header'[q].resetTime
               /\ BeforeOK(key[q], entry[q])'
    <3>1. /\ pc[q] = "saving" /\ key[q] # key[r] /\ BeforeOK(key[q], entry[q])
          /\ entry[q] \in Items
          /\ header[q].ts = now /\ entry[q].exp = now + header[q].resetTime
        BY <1>2, <2>1, <2>3, Fields DEF IInv, BInv, PromptOK
    <3>2. PICK j, item : j = key[q] /\ item = entry[q]
        OBVIOUS
    <3>3. BeforeOK(j, item)'
        BY <1>4, <3>1, <3>2
    <3>4. header'[q].ts = now' /\ entry'[q].exp = now' + header'[q].resetTime
        BY <1>2, <3>1
    <3>5. key'[q] = j /\ entry'[q] = item
        BY <1>2, <3>2
    <3>6. BeforeOK(key[q], entry[q])'
        BY <3>3, <3>5 DEF BeforeOK, Counted
    <3> QED BY <3>4, <3>6
  <2> QED BY <2>2, <2>3 DEF PromptOK
<1>6. KeptOK'
  <2>1. ASSUME NEW k \in Keys, k = key[r]
        PROVE  /\ store'[k].gone = store'[k].item.exp + Expiration
               /\ BeforeOK(k, store[k].item)'
    <3>1. store'[k].item = entry[r] /\ store'[k].gone = now + (header[r].resetTime + Expiration)
        BY <1>2, <2>1
    <3>2. PICK item : item = entry[r]
        OBVIOUS
    <3>3. BeforeOK(k, item)'
        BY <1>1, <1>4, <2>1, <3>2, Fields DEF IInv
    <3> QED BY <1>1, <3>1, <3>2, <3>3, Fields DEF IInv, BeforeOK
  <2>2. ASSUME NEW k \in Keys, k # key[r]
        PROVE  /\ store'[k].item.exp # 0 => store'[k].gone = store'[k].item.exp + Expiration
               /\ BeforeOK(k, store[k].item)'
    <3>1. /\ store[k].item.exp # 0 => store[k].gone = store[k].item.exp + Expiration
          /\ BeforeOK(k, store[k].item) /\ store[k].item \in Items
        BY Fields DEF BInv, KeptOK, IInv
    <3>2. PICK item : item = store[k].item
        OBVIOUS
    <3>3. BeforeOK(k, item)'
        BY <1>4, <2>2, <3>1, <3>2
    <3> QED BY <1>2, <2>2, <3>1, <3>2, <3>3 DEF BeforeOK
  <2> QED BY <2>1, <2>2 DEF KeptOK
<1>7. SentOK'
  <2> SUFFICES ASSUME NEW q \in Requests, counted'[q] # 0
               PROVE  /\ header'[q].ts < counted'[q]
                      /\ counted'[q] <= header'[q].ts + Expiration
                      /\ header'[q].ts <= now'
      BY DEF SentOK
  <2>1. CASE q = r
      BY <1>1, <1>2, <2>1, Fields DEF IInv
  <2>2. CASE q # r
      BY <1>2, <2>2 DEF BInv, SentOK
  <2> QED BY <2>1, <2>2
<1>8. LimitedMeansRecent'
  <2> SUFFICES ASSUME NEW q \in Requests, pc'[q] = "limited"
               PROVE  Cardinality(Recent(q, 3)') > Limit
      BY DEF LimitedMeansRecent, Recent
  <2>1. CASE q = r
      BY <1>7, <2>1, SaveLimits
  <2>2. CASE q # r
    <3>1. pc[q] = "limited"
        BY <1>2, <2>2
    <3>2. \A p \in Requests : counted[p] # 0 =>
            key'[p] = key[p] /\ header'[p] = header[p] /\ counted'[p] # 0
        BY <1>1, <1>2
    <3> QED BY <3>1, <3>2, StaysBusy DEF BInv
  <2> QED BY <2>1, <2>2
<1> QED BY <1>5, <1>6, <1>7, <1>8 DEF BInv

LEMMA BusyStep ==
  ASSUME External, Prompt, SkipFailed = FALSE, IInv, RInv, BInv, NoRefunds, [Next]_vars
  PROVE  BInv'
<1>0. IInv' /\ NoRefunds' /\ TypeOK
    BY StepOK, NoRefundsStep DEF IInv
<1>1. CASE UNCHANGED vars
  <2>1. UNCHANGED <<now, store, counted, pc, key, entry, header>>
      BY <1>1 DEF vars, local
  <2> QED BY <1>0, <2>1, QuietBusy, QuietPrompt DEF BInv
<1>2. CASE Tick
    BY <1>0, <1>2, TickBusy
<1>3. ASSUME NEW r \in Requests, NEW k \in Keys, Arrive(r, k)
      PROVE  BInv'
  <2>1. /\ counted[r] = 0 /\ pc'[r] = "locking"
        /\ \A q \in Requests : q # r => key'[q] = key[q] /\ pc'[q] = pc[q]
        /\ UNCHANGED <<now, store, entry, header, counted>>
      BY <1>0, <1>3 DEF Arrive, Goto, TypeOK, IInv, HistoryOK
  <2> QED BY <1>0, <2>1, QuietBusy, QuietPrompt DEF BInv
<1>4. ASSUME NEW r \in Requests, \/ Lock(r) \/ Reload(r) \/ StorageFails(r)
                                 \/ \E outcome \in Outcomes : NextReturns(r, outcome)
      PROVE  BInv'
  <2>1. /\ pc'[r] \notin {"counting", "saving", "limited"}
        /\ \A q \in Requests : q # r => entry'[q] = entry[q] /\ pc'[q] = pc[q]
        /\ UNCHANGED <<now, store, key, header, counted>>
      BY <1>0, <1>4 DEF Lock, Reload, StorageFails, NextReturns, Goto, TypeOK, NoRefunds
  <2> QED BY <1>0, <2>1, QuietBusy, QuietPrompt DEF BInv
<1>5. \A r \in Requests, acked \in BOOLEAN : ~Refund(r, acked)
    BY DEF Refund, NoRefunds
<1> QED BY <1>0, <1>1, <1>2, <1>3, <1>4, <1>5, LoadBusy, CountBusy, SaveBusy
        DEF Next, Step, AllEnded

\* Nobody is limited for the hits of others, nor for old ones: where the
\* storage is an external one that answers within the second, and failed
\* requests are not given their hit back, a key that is limited has sent more
\* than the limit during the last three windows.
THEOREM BusyTheorem ==
  ASSUME External, Prompt, SkipFailed = FALSE PROVE Spec => []LimitedMeansRecent
<1>1. Init => NoRefunds /\ BInv
  <2> SUFFICES ASSUME Init PROVE NoRefunds /\ BInv
      OBVIOUS
  <2>1. NoRefunds /\ PromptOK /\ SentOK /\ LimitedMeansRecent
      BY DEF Init, NoRefunds, PromptOK, SentOK, LimitedMeansRecent
  <2>2. KeptOK
      BY DEF Init, KeptOK, BeforeOK, Blank
  <2> QED BY <2>1, <2>2 DEF BInv
<1>2. IInv /\ RInv /\ (NoRefunds /\ BInv) /\ [Next]_vars => (NoRefunds /\ BInv)'
    BY NoRefundsStep, BusyStep
<1>3. NoRefunds /\ BInv => LimitedMeansRecent
    BY DEF BInv
<1> QED BY <1>1, <1>2, <1>3, Invariance, InvarianceR, PTL DEF Spec

=============================================================================
