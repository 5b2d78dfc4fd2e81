----------------------------- MODULE TillProofs -----------------------------
(* Proofs about Till, for every value of its constants. *)
EXTENDS Till, FiniteSetTheorems, TLAPS

-----------------------------------------------------------------------------
(* The inductive invariant. *)

(* Requests that can still become a sale, sales, and the free key itself.   *)
(* What a key that nobody works on can still grant is two more: the attempt *)
(* that frees it and the one that takes it in between.                      *)
Weight(t) == Cardinality(Live(t)) + Cardinality(SalesOf(t)) + (IF key[t] = Free THEN 1 ELSE 0)
Loose(t) == key[t] = Held /\ (t \in aged \/ Live(t) \cup Recording(t) = {})
KeyPart(t) == /\ Weight(t) <= 1 + 2 * faults[t]
              /\ Loose(t) => Weight(t) + 2 <= 1 + 2 * faults[t]
KeyInv == \A t \in Tickets : KeyPart(t)

(* A transaction has the row of every product it took a unit of.            *)
LockInv ==
  \A a \in Attempts :
    /\ pc[a] \in {"idle", "clash", "stale", "rekey"} => at[a] = 1 /\ a \notin sales
    /\ pc[a] = "selling" =>
         /\ a \notin sales
         /\ at[a] <= Total(TicketOf[a]) + 1
         /\ \A p \in Products : Taken(a, p) > 0 => lock[p] = a /\ Taken(a, p) <= stock[p]

(* What create_refund read stays true while it holds the lock. *)
SeenInv ==
  \A r \in Refunders :
    refund[r] = "checked" =>
      /\ seen[r].sale \in sales
      /\ saleLock[seen[r].sale] = r
      /\ seen[r].amount = refunded[seen[r].sale]
      /\ \A p \in Products : seen[r].back[p] = Restocked(seen[r].sale, p)
LinesInv == IsFiniteSet(backIn) /\ \A l \in backIn : refund[l.by] = "over"

IndInv == TypeOK /\ KeyInv /\ LockInv /\ SeenInv /\ LinesInv /\ RefundsWithinSale

-----------------------------------------------------------------------------
(* Cardinalities. *)

LEMMA Grow ==
  ASSUME NEW S, IsFiniteSet(S), NEW x, NEW T, T \subseteq S \cup {x}
  PROVE  IsFiniteSet(T) /\ Cardinality(T) \in Nat /\ Cardinality(T) <= Cardinality(S) + 1
<1>1. IsFiniteSet(S \cup {x}) /\ Cardinality(S \cup {x}) <= Cardinality(S) + 1
      /\ Cardinality(S) \in Nat
  BY FS_AddElement, FS_CardinalityType
<1>2. IsFiniteSet(T) /\ Cardinality(T) <= Cardinality(S \cup {x})
  BY <1>1, FS_Subset
<1> QED BY <1>1, <1>2, FS_CardinalityType

LEMMA Shrink ==
  ASSUME NEW S, IsFiniteSet(S), NEW x \in S, NEW T, T \subseteq S \ {x}
  PROVE  IsFiniteSet(T) /\ Cardinality(T) \in Nat /\ Cardinality(T) + 1 <= Cardinality(S)
<1>1. IsFiniteSet(S \ {x}) /\ Cardinality(S \ {x}) = Cardinality(S) - 1 /\ Cardinality(S) \in Nat
  BY FS_RemoveElement, FS_CardinalityType
<1>2. IsFiniteSet(T) /\ Cardinality(T) <= Cardinality(S \ {x})
  BY <1>1, FS_Subset
<1> QED BY <1>1, <1>2, FS_CardinalityType

LEMMA Keep ==
  ASSUME NEW S, IsFiniteSet(S), NEW T, T \subseteq S
  PROVE  IsFiniteSet(T) /\ Cardinality(T) \in Nat /\ Cardinality(S) \in Nat
         /\ Cardinality(T) <= Cardinality(S)
BY FS_Subset, FS_CardinalityType

LEMMA TicketSets ==
  ASSUME TypeOK, NEW t \in Tickets
  PROVE  /\ IsFiniteSet(Live(t)) /\ Cardinality(Live(t)) \in Nat
         /\ IsFiniteSet(SalesOf(t)) /\ Cardinality(SalesOf(t)) \in Nat
<1>1. Live(t) \subseteq Attempts /\ SalesOf(t) \subseteq Attempts
  BY DEF Live, SalesOf, TypeOK
<1> QED BY <1>1, Keep, AttemptAssumption

LEMMA LineCounts ==
  ASSUME TypeOK, NEW a \in Attempts, NEW p \in Products
  PROVE  /\ Total(TicketOf[a]) \in Nat
         /\ Units(TicketOf[a], p) \in Nat
         /\ Taken(a, p) \in Nat
         /\ at[a] = 1 => Taken(a, p) = 0
<1>1. Lines[TicketOf[a]] \in Seq(Products) /\ at[a] \in Nat \ {0}
  BY TicketAssumption DEF TypeOK
<1>2. IsFiniteSet(DOMAIN Lines[TicketOf[a]]) /\ Total(TicketOf[a]) \in Nat
  <2>1. Len(Lines[TicketOf[a]]) \in Nat
        /\ DOMAIN Lines[TicketOf[a]] = 1 .. Len(Lines[TicketOf[a]])
    BY <1>1
  <2> QED BY <2>1, FS_Interval DEF Total
<1>3. IsFiniteSet(1 .. at[a] - 1)
  BY <1>1, FS_Interval
<1>4. Units(TicketOf[a], p) \in Nat
  BY <1>2, Keep DEF Units
<1>5. Taken(a, p) \in Nat
  BY <1>3, Keep DEF Taken
<1>6. ASSUME at[a] = 1 PROVE Taken(a, p) = 0
  <2>1. {i \in 1 .. at[a] - 1 : LinesOf(a)[i] = p} = {}
    BY <1>6
  <2> QED BY <2>1, FS_EmptySet DEF Taken
<1> QED BY <1>2, <1>4, <1>5, <1>6

-----------------------------------------------------------------------------
(* The key. *)

(* A ticket nothing happened to. *)
LEMMA Untouched ==
  ASSUME NEW t \in Tickets, KeyPart(t),
         key'[t] = key[t], t \in aged' <=> t \in aged, faults'[t] = faults[t],
         Live(t)' = Live(t), Recording(t)' = Recording(t), SalesOf(t)' = SalesOf(t)
  PROVE  KeyPart(t)'
BY DEF KeyPart, Weight, Loose

LEMMA Elsewhere ==
  ASSUME TypeOK, NEW a \in Attempts, NEW l, pc' = [pc EXCEPT ![a] = l],
         sales' = sales \/ sales' = sales \cup {a},
         NEW t \in Tickets, t # TicketOf[a]
  PROVE  Live(t)' = Live(t) /\ Recording(t)' = Recording(t) /\ SalesOf(t)' = SalesOf(t)
BY DEF TypeOK, Live, Recording, SalesOf

(* A request that moves on without becoming able to sell. *)
LEMMA Moves ==
  ASSUME TypeOK, NEW a \in Attempts, NEW l, pc' = [pc EXCEPT ![a] = l],
         NEW t \in Tickets, t = TicketOf[a]
  PROVE  /\ l \in {"rekey", "selling", "failed"} => Live(t)' = Live(t) \cup {a}
         /\ l \notin {"rekey", "selling", "failed"} => Live(t)' = Live(t) \ {a}
         /\ l = "record" => Recording(t)' = Recording(t) \cup {a}
         /\ l # "record" => Recording(t)' = Recording(t) \ {a}
BY DEF TypeOK, Live, Recording

(* One attempt of one ticket takes one step: what is left to show is about *)
(* its own ticket.                                                         *)
LEMMA OwnTicket ==
  ASSUME TypeOK, KeyInv, NEW a \in Attempts, NEW l, pc' = [pc EXCEPT ![a] = l],
         sales' = sales \/ sales' = sales \cup {a},
         \A t \in Tickets \ {TicketOf[a]} :
            key'[t] = key[t] /\ (t \in aged' <=> t \in aged) /\ faults'[t] = faults[t],
         KeyPart(TicketOf[a])'
  PROVE  KeyInv'
<1>1. ASSUME NEW t \in Tickets, t # TicketOf[a] PROVE KeyPart(t)'
  <2>1. Live(t)' = Live(t) /\ Recording(t)' = Recording(t) /\ SalesOf(t)' = SalesOf(t)
    BY <1>1, Elsewhere
  <2>2. key'[t] = key[t] /\ (t \in aged' <=> t \in aged) /\ faults'[t] = faults[t]
    BY <1>1
  <2>3. KeyPart(t)
    BY DEF KeyInv
  <2> QED BY <2>1, <2>2, <2>3 DEF KeyPart, Weight, Loose
<1>2. \A t \in Tickets : KeyPart(t)'
  BY <1>1
<1> QED BY <1>2 DEF KeyInv

(* The arithmetic of one step on the key's own ticket. *)
LEMMA OwnPart ==
  ASSUME TypeOK, KeyInv, NEW t \in Tickets,
         IsFiniteSet(Live(t)'), IsFiniteSet(SalesOf(t)'),
         faults'[t] = faults[t] \/ faults'[t] = faults[t] + 1,
         \/ Weight(t)' <= Weight(t)
         \/ Weight(t)' <= Weight(t) + 2 /\ faults'[t] = faults[t] + 1
         \/ Weight(t)' <= Weight(t) + 2 /\ Loose(t),
         Loose(t)' => \/ Weight(t)' <= Weight(t) /\ Loose(t)
                      \/ Weight(t)' <= Weight(t) /\ faults'[t] = faults[t] + 1
                      \/ Weight(t)' <= Weight(t) + 2 /\ Loose(t) /\ faults'[t] = faults[t] + 1
  PROVE  KeyPart(t)'
<1>1. Cardinality(Live(t)') \in Nat /\ Cardinality(SalesOf(t)') \in Nat
      /\ Cardinality(Live(t)) \in Nat /\ Cardinality(SalesOf(t)) \in Nat
  BY TicketSets, FS_CardinalityType
<1>2. Weight(t) \in Nat /\ Weight(t)' \in Nat
  BY <1>1 DEF Weight
<1>3. faults[t] \in Nat /\ faults'[t] \in Nat /\ KeyPart(t)
  BY DEF TypeOK, KeyInv
<1>4. Weight(t)' <= 1 + 2 * faults'[t]
  BY <1>2, <1>3 DEF KeyPart
<1>5. Loose(t)' => Weight(t)' + 2 <= 1 + 2 * faults'[t]
  BY <1>2, <1>3 DEF KeyPart
<1> QED BY <1>4, <1>5 DEF KeyPart

LEMMA KeyReserve ==
  ASSUME TypeOK, KeyInv, NEW a \in Attempts, Reserve(a) PROVE KeyInv'
<1> DEFINE t == TicketOf[a]
<1>0. t \in Tickets /\ Held # Free
  BY TicketAssumption DEF Held, Free
<1>1. /\ key[t] = Free /\ key'[t] = Held /\ t \notin aged' /\ faults' = faults /\ sales' = sales
      /\ pc' = [pc EXCEPT ![a] = "selling"]
  BY <1>0 DEF Reserve, Goto, TypeOK
<1>2. Live(t)' = Live(t) \cup {a} /\ SalesOf(t)' = SalesOf(t)
  BY <1>0, <1>1, Moves DEF SalesOf
<1>3. /\ IsFiniteSet(Live(t)') /\ IsFiniteSet(SalesOf(t)')
      /\ Cardinality(Live(t)') <= Cardinality(Live(t)) + 1 /\ Cardinality(Live(t)') \in Nat
      /\ Cardinality(Live(t)) \in Nat /\ Cardinality(SalesOf(t)) \in Nat
  BY <1>0, <1>2, TicketSets, Grow
<1>4. Weight(t)' <= Weight(t) /\ ~Loose(t)'
  BY <1>0, <1>1, <1>2, <1>3 DEF Weight, Loose
<1>5. KeyPart(t)'
  BY <1>0, <1>1, <1>3, <1>4, OwnPart
<1> QED BY <1>0, <1>1, <1>5, OwnTicket DEF Reserve, TypeOK

(* Freeing a stale key is what Loose keeps two in reserve for: the attempt  *)
(* itself and the free key.                                                 *)
LEMMA KeyFreeStale ==
  ASSUME TypeOK, KeyInv, NEW a \in Attempts, FreeStale(a), pc'[a] = "rekey" PROVE KeyInv'
<1> DEFINE t == TicketOf[a]
<1>0. t \in Tickets /\ Held # Free
  BY TicketAssumption DEF Held, Free
<1>1. /\ key[t] = Held /\ t \in aged /\ key'[t] = Free /\ faults' = faults /\ sales' = sales
      /\ pc' = [pc EXCEPT ![a] = "rekey"]
  BY <1>0 DEF FreeStale, Goto, TypeOK
<1>2. Live(t)' = Live(t) \cup {a} /\ SalesOf(t)' = SalesOf(t)
  BY <1>0, <1>1, Moves DEF SalesOf
<1>3. /\ IsFiniteSet(Live(t)') /\ IsFiniteSet(SalesOf(t)')
      /\ Cardinality(Live(t)') <= Cardinality(Live(t)) + 1 /\ Cardinality(Live(t)') \in Nat
      /\ Cardinality(Live(t)) \in Nat /\ Cardinality(SalesOf(t)) \in Nat
  BY <1>0, <1>2, TicketSets, Grow
<1>4. Loose(t) /\ ~Loose(t)' /\ Weight(t)' <= Weight(t) + 2
  BY <1>0, <1>1, <1>2, <1>3 DEF Weight, Loose
<1>5. KeyPart(t)'
  BY <1>0, <1>1, <1>3, <1>4, OwnPart
<1> QED BY <1>0, <1>1, <1>5, OwnTicket DEF FreeStale, TypeOK

(* Steps inside the request: it stays as able to sell as it was. *)
LEMMA KeyInside ==
  ASSUME TypeOK, KeyInv, NEW a \in Attempts,
         Rekey(a) \/ Consume(a) \/ Rollback(a)
  PROVE  KeyInv'
<1> DEFINE t == TicketOf[a]
<1>0. t \in Tickets /\ Held # Free
  BY TicketAssumption DEF Held, Free
<1>1. PICK l \in {"rekey", "selling", "failed"} : pc' = [pc EXCEPT ![a] = l]
  BY DEF Rekey, Consume, Rollback, Goto, Consuming, TypeOK
<1>2. a \in Live(t) /\ a \notin Recording(t) /\ sales' = sales /\ faults' = faults
  BY <1>0 DEF Live, Recording, Rekey, Consume, Rollback, Consuming
<1>3. Live(t)' = Live(t) /\ SalesOf(t)' = SalesOf(t) /\ Recording(t)' = Recording(t)
  <2>1. Live(t)' = Live(t) \cup {a} /\ Recording(t)' = Recording(t) \ {a}
    BY <1>0, <1>1, Moves
  <2> QED BY <1>2, <2>1 DEF SalesOf
<1>4. \/ key' = key /\ aged' = aged
      \/ key[t] = Free /\ key'[t] = Held /\ t \notin aged'
  BY <1>0 DEF Rekey, Consume, Rollback, TypeOK, keyVars
<1>5. /\ IsFiniteSet(Live(t)') /\ IsFiniteSet(SalesOf(t)')
      /\ Cardinality(Live(t)) \in Nat /\ Cardinality(SalesOf(t)) \in Nat
  BY <1>0, <1>3, TicketSets
<1>6. Weight(t)' <= Weight(t) /\ (Loose(t)' => Loose(t))
  BY <1>0, <1>2, <1>3, <1>4, <1>5 DEF Weight, Loose
<1>7. KeyPart(t)'
  <2>1. faults'[t] = faults[t]
    BY <1>2
  <2> QED BY <1>0, <2>1, <1>5, <1>6, OwnPart
<1>8. \A u \in Tickets \ {t} : key'[u] = key[u] /\ (u \in aged' <=> u \in aged)
  BY <1>0 DEF Rekey, Consume, Rollback, TypeOK, keyVars
<1> QED BY <1>0, <1>1, <1>2, <1>7, <1>8, OwnTicket

(* Steps of a request that could not sell and still cannot. *)
LEMMA KeyOutside ==
  ASSUME TypeOK, KeyInv, NEW a \in Attempts,
         Clash(a) \/ FindEarlier(a) \/ (FreeStale(a) /\ pc'[a] # "rekey")
  PROVE  KeyInv'
<1> DEFINE t == TicketOf[a]
<1>0. t \in Tickets
  BY TicketAssumption
<1>1. PICK l \in {"clash", "done", "stale", "refused"} : pc' = [pc EXCEPT ![a] = l]
  BY DEF Clash, FindEarlier, FreeStale, Goto, TypeOK
<1>2. /\ a \notin Live(t) /\ a \notin Recording(t) /\ sales' = sales /\ faults' = faults
      /\ key' = key /\ aged' = aged
  BY <1>0 DEF Live, Recording, Clash, FindEarlier, FreeStale, keyVars, Goto, TypeOK
<1>3. Live(t)' = Live(t) /\ SalesOf(t)' = SalesOf(t) /\ Recording(t)' = Recording(t)
  <2>1. Live(t)' = Live(t) \ {a} /\ Recording(t)' = Recording(t) \ {a}
    BY <1>0, <1>1, Moves
  <2> QED BY <1>2, <2>1 DEF SalesOf
<1>4. KeyPart(t)
  BY <1>0 DEF KeyInv
<1>5. KeyPart(t)'
  BY <1>0, <1>2, <1>3, <1>4, Untouched
<1> QED BY <1>0, <1>1, <1>2, <1>5, OwnTicket

(* The sale is committed: the request can make no other. *)
LEMMA KeyCommit ==
  ASSUME TypeOK, KeyInv, NEW a \in Attempts, Commit(a) PROVE KeyInv'
<1> DEFINE t == TicketOf[a]
<1>0. t \in Tickets
  BY TicketAssumption
<1>1. /\ pc' = [pc EXCEPT ![a] = "record"] /\ a \in Live(t) /\ sales' = sales \cup {a}
      /\ faults' = faults /\ key' = key /\ aged' = aged
  BY <1>0 DEF Commit, CommitSale, Goto, Live, keyVars
<1>2. Live(t)' = Live(t) \ {a} /\ Recording(t)' = Recording(t) \cup {a}
  BY <1>0, <1>1, Moves
<1>3. SalesOf(t)' = SalesOf(t) \cup {a}
  BY <1>0, <1>1 DEF SalesOf
<1>4. /\ IsFiniteSet(Live(t)') /\ IsFiniteSet(SalesOf(t)')
      /\ Cardinality(Live(t)') \in Nat /\ Cardinality(SalesOf(t)') \in Nat
      /\ Cardinality(Live(t)') + 1 <= Cardinality(Live(t))
      /\ Cardinality(SalesOf(t)') <= Cardinality(SalesOf(t)) + 1
      /\ Cardinality(Live(t)) \in Nat /\ Cardinality(SalesOf(t)) \in Nat
  BY <1>0, <1>1, <1>2, <1>3, TicketSets, Grow, Shrink
<1>5. Weight(t)' <= Weight(t)
  BY <1>1, <1>4 DEF Weight
<1>6. Loose(t)' => Loose(t)
  BY <1>1, <1>2 DEF Loose
<1>7. KeyPart(t)'
  <2>1. faults'[t] = faults[t]
    BY <1>1
  <2> QED BY <1>0, <2>1, <1>4, <1>5, <1>6, OwnPart
<1> QED BY <1>0, <1>1, <1>7, OwnTicket

(* The sale is committed and the request thinks it is not. *)
LEMMA KeyCommitUnheard ==
  ASSUME TypeOK, KeyInv, NEW a \in Attempts, CommitUnheard(a) PROVE KeyInv'
<1> DEFINE t == TicketOf[a]
<1>0. t \in Tickets
  BY TicketAssumption
<1>1. /\ pc' = [pc EXCEPT ![a] = "failed"] /\ a \in Live(t) /\ sales' = sales \cup {a}
      /\ faults'[t] = faults[t] + 1 /\ key' = key /\ aged' = aged
      /\ \A u \in Tickets \ {t} : faults'[u] = faults[u]
  BY <1>0 DEF CommitUnheard, CommitSale, Goto, Live, keyVars, Fault, TypeOK
<1>2. Live(t)' = Live(t)
  <2>1. Live(t)' = Live(t) \cup {a}
    BY <1>0, <1>1, Moves
  <2> QED BY <1>1, <2>1
<1>3. SalesOf(t)' = SalesOf(t) \cup {a}
  BY <1>0, <1>1 DEF SalesOf
<1>4. /\ IsFiniteSet(Live(t)') /\ IsFiniteSet(SalesOf(t)')
      /\ Cardinality(SalesOf(t)') \in Nat
      /\ Cardinality(SalesOf(t)') <= Cardinality(SalesOf(t)) + 1
      /\ Cardinality(Live(t)) \in Nat /\ Cardinality(SalesOf(t)) \in Nat
  BY <1>0, <1>2, <1>3, TicketSets, Grow
<1>5. Weight(t)' <= Weight(t) + 2
  BY <1>1, <1>2, <1>4 DEF Weight
<1>6. Loose(t)' => Loose(t)
  BY <1>1, <1>2 DEF Loose
<1>7. KeyPart(t)'
  BY <1>0, <1>1, <1>4, <1>5, <1>6, OwnPart
<1> QED BY <1>0, <1>1, <1>7, OwnTicket

(* The end of a request that made no sale it knows of. *)
LEMMA KeyRelease ==
  ASSUME TypeOK, KeyInv, NEW a \in Attempts, Release(a) \/ ReleaseFails(a) PROVE KeyInv'
<1> DEFINE t == TicketOf[a]
<1>0. t \in Tickets /\ Held # Free
  BY TicketAssumption DEF Held, Free
<1>1. /\ pc' = [pc EXCEPT ![a] = "refused"] /\ a \in Live(t) /\ sales' = sales
      /\ \/ key'[t] = Free /\ faults'[t] = faults[t]
         \/ key' = key /\ faults'[t] = faults[t] + 1
      /\ \A u \in Tickets \ {t} : key'[u] = key[u] /\ (u \in aged' <=> u \in aged)
                                  /\ faults'[u] = faults[u]
  BY <1>0 DEF Release, ReleaseFails, Goto, Live, keyVars, Fault, TypeOK
<1>2. Live(t)' = Live(t) \ {a} /\ SalesOf(t)' = SalesOf(t)
  <2>1. pc' = [pc EXCEPT ![a] = "refused"]
    BY <1>1
  <2>2. Live(t)' = Live(t) \ {a}
    <3>1. "refused" \notin {"rekey", "selling", "failed"}
      OBVIOUS
    <3> QED BY <1>0, <2>1, <3>1, Moves
  <2> QED BY <1>1, <2>2 DEF SalesOf
<1>3. /\ IsFiniteSet(Live(t)') /\ IsFiniteSet(SalesOf(t)')
      /\ Cardinality(Live(t)') \in Nat /\ Cardinality(Live(t)') + 1 <= Cardinality(Live(t))
      /\ Cardinality(Live(t)) \in Nat /\ Cardinality(SalesOf(t)) \in Nat
  BY <1>0, <1>1, <1>2, TicketSets, Shrink
<1>4. Weight(t)' <= Weight(t)
  BY <1>1, <1>2, <1>3 DEF Weight
<1>5. Loose(t)' => faults'[t] = faults[t] + 1
  BY <1>0, <1>1 DEF Loose
<1>6. KeyPart(t)'
  BY <1>0, <1>1, <1>3, <1>4, <1>5, OwnPart
<1> QED BY <1>0, <1>1, <1>6, OwnTicket

(* The end of a request that did. *)
LEMMA KeyRecord ==
  ASSUME TypeOK, KeyInv, NEW a \in Attempts, Record(a) \/ RecordFails(a) PROVE KeyInv'
<1> DEFINE t == TicketOf[a]
<1>0. t \in Tickets /\ Held # Free /\ a # Free /\ a # Held
  BY TicketAssumption, AttemptAssumption DEF Held, Free
<1>1. /\ pc' = [pc EXCEPT ![a] = "done"] /\ a \notin Live(t) /\ sales' = sales
      /\ \/ key'[t] # Held /\ (key'[t] = Free => key[t] = Free) /\ faults'[t] = faults[t]
         \/ key' = key /\ faults'[t] = faults[t] + 1
      /\ \A u \in Tickets \ {t} : key'[u] = key[u] /\ (u \in aged' <=> u \in aged)
                                  /\ faults'[u] = faults[u]
  BY <1>0 DEF Record, RecordFails, Goto, Live, keyVars, Fault, TypeOK
<1>2. Live(t)' = Live(t) /\ SalesOf(t)' = SalesOf(t)
  <2>1. pc' = [pc EXCEPT ![a] = "done"]
    BY <1>1
  <2>2. Live(t)' = Live(t) \ {a}
    <3>1. "done" \notin {"rekey", "selling", "failed"}
      OBVIOUS
    <3> QED BY <1>0, <2>1, <3>1, Moves
  <2> QED BY <1>1, <2>2 DEF SalesOf
<1>3. /\ IsFiniteSet(Live(t)') /\ IsFiniteSet(SalesOf(t)')
      /\ Cardinality(Live(t)) \in Nat /\ Cardinality(SalesOf(t)) \in Nat
  BY <1>0, <1>2, TicketSets
<1>4. Weight(t)' <= Weight(t)
  BY <1>1, <1>2, <1>3 DEF Weight
<1>5. Loose(t)' => faults'[t] = faults[t] + 1
  BY <1>0, <1>1 DEF Loose
<1>6. KeyPart(t)'
  BY <1>0, <1>1, <1>3, <1>4, <1>5, OwnPart
<1> QED BY <1>0, <1>1, <1>6, OwnTicket

LEMMA KeyAge ==
  ASSUME TypeOK, KeyInv, NEW t \in Tickets, Age(t) PROVE KeyInv'
<1>1. \A u \in Tickets : Live(u)' = Live(u) /\ Recording(u)' = Recording(u) /\ SalesOf(u)' = SalesOf(u)
  BY DEF Age, saleVars, Live, Recording, SalesOf
<1>2. /\ key' = key /\ key[t] = Held /\ aged' = aged \cup {t}
      /\ \/ Live(t) \cup Recording(t) = {} /\ faults'[t] = faults[t]
         \/ faults'[t] = faults[t] + 1
      /\ \A u \in Tickets \ {t} : faults'[u] = faults[u]
  BY DEF Age, Fault, TypeOK
<1>3. ASSUME NEW u \in Tickets, u # t PROVE KeyPart(u)'
  <2>1. KeyPart(u) /\ (u \in aged' <=> u \in aged)
    BY <1>2, <1>3 DEF KeyInv
  <2> QED BY <1>1, <1>2, <1>3, <2>1 DEF KeyPart, Weight, Loose
<1>4. KeyPart(t)'
  <2>1. IsFiniteSet(Live(t)') /\ IsFiniteSet(SalesOf(t)')
        /\ Cardinality(Live(t)) \in Nat /\ Cardinality(SalesOf(t)) \in Nat
    BY <1>1, TicketSets
  <2>2. Weight(t)' <= Weight(t)
    BY <1>1, <1>2, <2>1 DEF Weight
  <2>3. Loose(t)' => Loose(t) \/ faults'[t] = faults[t] + 1
    BY <1>1, <1>2 DEF Loose
  <2> QED BY <1>2, <2>1, <2>2, <2>3, OwnPart
<1>5. \A u \in Tickets : KeyPart(u)'
  BY <1>3, <1>4
<1> QED BY <1>5 DEF KeyInv

LEMMA KeyCrash ==
  ASSUME TypeOK, KeyInv, Crash PROVE KeyInv'
<1> SUFFICES ASSUME NEW t \in Tickets PROVE KeyPart(t)'
  BY DEF KeyInv
<1>1. Live(t)' = {} /\ Recording(t)' = {} /\ SalesOf(t)' = SalesOf(t) /\ key' = key /\ aged' = aged
  BY DEF Crash, Live, Recording, SalesOf, keyVars
<1>2. KeyPart(t)
  BY DEF KeyInv
<1>3. CASE Live(t) \cup Recording(t) = {}
  <2>1. faults'[t] = faults[t] /\ Live(t)' = Live(t) /\ Recording(t)' = Recording(t)
    BY <1>1, <1>3 DEF Crash
  <2> QED BY <1>1, <1>2, <2>1, Untouched
<1>4. CASE Live(t) \cup Recording(t) # {}
  <2>1. faults'[t] = faults[t] + 1
    BY <1>4 DEF Crash
  <2>2. /\ IsFiniteSet(Live(t)') /\ IsFiniteSet(SalesOf(t)') /\ Cardinality(Live(t)') = 0
        /\ Cardinality(Live(t)) \in Nat /\ Cardinality(SalesOf(t)) \in Nat
    BY <1>1, TicketSets, FS_EmptySet
  <2>3. Weight(t)' <= Weight(t)
    BY <1>1, <2>2 DEF Weight
  <2> QED BY <2>1, <2>2, <2>3, OwnPart
<1> QED BY <1>3, <1>4

LEMMA NextKeyInv == ASSUME TypeOK, KeyInv, [Next]_vars PROVE KeyInv'
<1>1. ASSUME UNCHANGED <<keyVars, pc, sales, faults>> PROVE KeyInv'
  <2>1. ASSUME NEW t \in Tickets PROVE KeyPart(t)'
    <3>1. /\ Live(t)' = Live(t) /\ Recording(t)' = Recording(t) /\ SalesOf(t)' = SalesOf(t)
          /\ key' = key /\ aged' = aged /\ faults' = faults
      BY <1>1 DEF Live, Recording, SalesOf, keyVars
    <3>2. KeyPart(t)
      BY DEF KeyInv
    <3> QED BY <3>1, <3>2, Untouched
  <2> QED BY <2>1 DEF KeyInv
<1>2. ASSUME NEW a \in Attempts,
             Reserve(a) \/ Clash(a) \/ Handle(a) \/ DeadlockVictim(a) \/ Fails(a)
      PROVE  KeyInv'
  <2>1. CASE Rekey(a) \/ Consume(a) \/ OutOfStock(a) \/ DeadlockVictim(a) \/ Refuse(a)
    BY <2>1, KeyInside DEF OutOfStock, DeadlockVictim, Refuse
  <2> QED BY <1>2, <2>1, KeyReserve, KeyFreeStale, KeyOutside, KeyCommit, KeyCommitUnheard,
             KeyRelease, KeyRecord DEF Handle, Fails
<1>3. ASSUME NEW d \in Deliveries, ReadCost(d) \/ Receive(d) PROVE KeyInv'
  BY <1>1, <1>3 DEF ReadCost, Receive, keyVars, saleVars
<1>4. ASSUME NEW r \in Refunders, RefundStep(r) PROVE KeyInv'
  BY <1>1, <1>4 DEF RefundStep, RefundLock, RefundCommit, RefundRaise, keyVars, saleVars
<1>5. CASE UNCHANGED vars
  BY <1>1, <1>5 DEF vars, keyVars, saleVars
<1> QED BY <1>2, <1>3, <1>4, <1>5, KeyAge, KeyCrash DEF Next

-----------------------------------------------------------------------------
(* Types. *)

LEMMA RoundedType == ASSUME NEW x \in Nat, NEW y \in Nat \ {0} PROVE Rounded(x, y) \in Nat
BY DEF Rounded

LEMMA AverageType ==
  ASSUME NEW q \in Nat, NEW old \in Nat, NEW more \in Nat \ {0}, NEW new \in Nat
  PROVE  AverageCost(q, old, more, new) \in Nat
<1>1. q * old + more * new \in Nat
  OBVIOUS
<1>2. q + more \in Nat \ {0}
  OBVIOUS
<1> HIDE DEF Rounded
<1> QED BY <1>1, <1>2, RoundedType DEF AverageCost

LEMMA RestockedType ==
  ASSUME IsFiniteSet(backIn), NEW a, NEW p
  PROVE  Restocked(a, p) \in Nat
<1>1. {l \in backIn : l.sale = a /\ l.product = p} \subseteq backIn
  OBVIOUS
<1> QED BY <1>1, Keep DEF Restocked

LEMMA InitTypeOK == Init => TypeOK
BY StockAssumption, AttemptAssumption DEF Init, TypeOK, States

LEMMA SaleTypeOK ==
  ASSUME TypeOK, LockInv, NEW a \in Attempts,
         Reserve(a) \/ Clash(a) \/ Handle(a) \/ DeadlockVictim(a) \/ Fails(a)
  PROVE  TypeOK'
<1>0. TicketOf[a] \in Tickets
  BY TicketAssumption
<1>a. ASSUME NEW l \in States, Goto(a, l) PROVE pc' \in [Attempts -> States]
  BY <1>a DEF Goto, TypeOK
<1>b. ASSUME Fault(TicketOf[a]) PROVE faults' \in [Tickets -> Nat]
  BY <1>0, <1>b DEF Fault, TypeOK
<1> USE <1>0 DEF TypeOK, keyVars, shelfVars, deliveryVars, refundVars, saleVars
<1>1. CASE Reserve(a)
  BY <1>a, <1>1 DEF Reserve, States
<1>2. CASE Clash(a)
  BY <1>a, <1>2 DEF Clash, States
<1>3. CASE FindEarlier(a)
  <2>1. answer' \in [Attempts -> Attempts \cup {NONE}]
    BY <1>3 DEF FindEarlier
  <2>2. pc' \in [Attempts -> States]
    BY <1>a, <1>3 DEF FindEarlier, States
  <2> QED BY <1>3, <2>1, <2>2 DEF FindEarlier
<1>4. CASE FreeStale(a)
  <2>1. pc' \in [Attempts -> States]
    BY <1>a, <1>4 DEF FreeStale, States
  <2> QED BY <1>4, <2>1 DEF FreeStale
<1>5. CASE Rekey(a)
  BY <1>a, <1>5 DEF Rekey, States
<1>6. CASE Consume(a)
  <2>0. at[a] + 1 \in Nat \ {0}
    OBVIOUS
  <2>1. at' \in [Attempts -> Nat \ {0}] /\ lock' \in [Products -> Attempts \cup {NONE}]
    BY <1>6, <2>0 DEF Consume
  <2> QED BY <1>6, <2>1 DEF Consume
<1>7. CASE Rollback(a)
  <2>1. at' \in [Attempts -> Nat \ {0}] /\ lock' \in [Products -> Attempts \cup {NONE}]
    BY <1>7 DEF Rollback, Unlocked
  <2>2. pc' \in [Attempts -> States]
    BY <1>a, <1>7 DEF Rollback, States
  <2> QED BY <1>7, <2>1, <2>2 DEF Rollback
<1>8. CASE Commit(a) \/ CommitUnheard(a)
  <2>0. CommitSale(a)
    BY <1>8 DEF Commit, CommitUnheard
  <2>1. ASSUME NEW p \in Products PROVE stock[p] - Taken(a, p) \in Nat
    <3>1. Taken(a, p) \in Nat /\ stock[p] \in Nat
      BY LineCounts
    <3>2. Taken(a, p) > 0 => Taken(a, p) <= stock[p]
      BY <2>0 DEF CommitSale, LockInv
    <3> QED BY <3>1, <3>2
  <2>2. stock' \in [Products -> Nat] /\ lock' \in [Products -> Attempts \cup {NONE}]
    BY <2>0, <2>1 DEF CommitSale, Unlocked
  <2>3. pc' \in [Attempts -> States] /\ faults' \in [Tickets -> Nat]
    BY <1>a, <1>b, <1>8 DEF Commit, CommitUnheard, States
  <2> QED BY <2>0, <2>2, <2>3 DEF CommitSale
<1>9. CASE Release(a) \/ ReleaseFails(a) \/ Record(a) \/ RecordFails(a)
  <2>1. pc' \in [Attempts -> States]
    BY <1>a, <1>9 DEF Release, ReleaseFails, Record, RecordFails, States
  <2>2. faults' \in [Tickets -> Nat]
    BY <1>b, <1>9 DEF Release, ReleaseFails, Record, RecordFails
  <2>3. key' \in [Tickets -> {Free, Held} \cup Attempts] /\ aged' \in SUBSET Tickets
    BY <1>9 DEF Release, ReleaseFails, Record, RecordFails
  <2>4. answer' \in [Attempts -> Attempts \cup {NONE}]
    BY <1>9 DEF Release, ReleaseFails, Record, RecordFails
  <2> QED BY <1>9, <2>1, <2>2, <2>3, <2>4 DEF Release, ReleaseFails, Record, RecordFails
<1> QED BY <1>1, <1>2, <1>3, <1>4, <1>5, <1>6, <1>7, <1>8, <1>9
        DEF Handle, DeadlockVictim, Fails, OutOfStock, Refuse

LEMMA DeliveryTypeOK ==
  ASSUME TypeOK, NEW d \in Deliveries, ReadCost(d) \/ Receive(d) PROVE TypeOK'
<1>0. DeliveryOf[d].product \in Products /\ DeliveryOf[d].qty \in Nat \ {0}
      /\ DeliveryOf[d].cost \in Nat \cup {NONE}
  BY StockAssumption
<1>1. CASE ReadCost(d)
  BY <1>0, <1>1 DEF ReadCost, TypeOK, keyVars, saleVars, shelfVars, refundVars
<1>2. CASE Receive(d)
  <2>1. AverageCost(stock[DeliveryOf[d].product], cost[DeliveryOf[d].product], DeliveryOf[d].qty, readCost[d])
          \in Nat
    BY <1>0, AverageType DEF TypeOK
  <2>2. cost' \in [Products -> Nat] /\ stock' \in [Products -> Nat]
    BY <1>0, <1>2, <2>1 DEF Receive, TypeOK
  <2> QED BY <1>2, <2>2 DEF Receive, TypeOK, keyVars, saleVars, refundVars
<1> QED BY <1>1, <1>2

LEMMA RefundTypeOK ==
  ASSUME TypeOK, SeenInv, LinesInv, NEW r \in Refunders, RefundStep(r) PROVE TypeOK'
<1>1. ASSUME NEW a \in Attempts, RefundLock(r, a) PROVE TypeOK'
  <2>1. [p \in Products |-> Restocked(a, p)] \in [Products -> Nat]
    BY RestockedType DEF LinesInv
  <2>2. seen' \in [Refunders -> [sale : Attempts \cup {NONE}, amount : Nat, back : [Products -> Nat]]]
    BY <1>1, <2>1 DEF RefundLock, TypeOK
  <2> QED BY <1>1, <2>2 DEF RefundLock, TypeOK, keyVars, saleVars, shelfVars, deliveryVars
<1>2. ASSUME NEW amount \in Amounts, NEW p \in Products \cup {NONE}, RefundCommit(r, amount, p)
      PROVE  TypeOK'
  <2>1. seen[r].sale \in Attempts /\ amount \in Nat
    BY <1>2, BoundAssumption DEF RefundCommit, SeenInv, TypeOK
  <2>2. refunded[seen[r].sale] + amount \in Nat
    BY <2>1 DEF TypeOK
  <2>3. refunded' \in [Attempts -> Nat] /\ stock' \in [Products -> Nat]
    BY <1>2, <2>1, <2>2 DEF RefundCommit, TypeOK
  <2>4. backIn' \in SUBSET [by : Refunders, sale : Attempts, product : Products]
    BY <1>2, <2>1 DEF RefundCommit, TypeOK
  <2> QED BY <1>2, <2>1, <2>3, <2>4 DEF RefundCommit, TypeOK, keyVars, saleVars, deliveryVars
<1>3. ASSUME NEW amount \in Amounts, NEW p \in Products \cup {NONE}, RefundRaise(r, amount, p)
      PROVE  TypeOK'
  BY <1>3 DEF RefundRaise, TypeOK, keyVars, saleVars, shelfVars, deliveryVars
<1> QED BY <1>1, <1>2, <1>3 DEF RefundStep

LEMMA NextTypeOK ==
  ASSUME TypeOK, LockInv, SeenInv, LinesInv, [Next]_vars PROVE TypeOK'
<1>1. ASSUME NEW t \in Tickets, Age(t) PROVE TypeOK'
  <2>1. faults' \in [Tickets -> Nat]
    BY <1>1 DEF Age, Fault, TypeOK
  <2> QED BY <1>1, <2>1 DEF Age, TypeOK, saleVars, shelfVars, deliveryVars, refundVars
<1>2. CASE Crash
  <2>1. faults' \in [Tickets -> Nat]
    BY <1>2 DEF Crash, TypeOK
  <2> QED BY <1>2, <2>1 DEF Crash, TypeOK, keyVars, States
<1>3. CASE UNCHANGED vars
  BY <1>3 DEF vars, TypeOK, keyVars, saleVars, shelfVars, deliveryVars, refundVars
<1> QED BY <1>1, <1>2, <1>3, SaleTypeOK, DeliveryTypeOK, RefundTypeOK DEF Next

-----------------------------------------------------------------------------
(* Row locks. *)

LEMMA SameTaken ==
  ASSUME NEW a, at'[a] = at[a], NEW p PROVE Taken(a, p)' = Taken(a, p)
BY DEF Taken, LinesOf

LEMMA OneMoreTaken ==
  ASSUME TypeOK, NEW a \in Attempts, at[a] <= Total(TicketOf[a]), at'[a] = at[a] + 1,
         NEW p \in Products
  PROVE  /\ Taken(a, p)' \in Nat
         /\ p # Wants(a) => Taken(a, p)' = Taken(a, p)
         /\ p = Wants(a) => Taken(a, p)' <= Taken(a, p) + 1
<1> DEFINE S == {i \in 1 .. at[a] - 1 : LinesOf(a)[i] = p}
           T == {i \in 1 .. at[a] : LinesOf(a)[i] = p}
<1>0. at[a] \in Nat \ {0}
  BY DEF TypeOK
<1>1. Taken(a, p) = Cardinality(S) /\ Taken(a, p)' = Cardinality(T)
  BY <1>0 DEF Taken, LinesOf
<1>2. T \subseteq S \cup {at[a]} /\ (p # Wants(a) => T = S)
  BY <1>0 DEF Wants
<1>3. IsFiniteSet(S)
  <2>1. IsFiniteSet(1 .. at[a] - 1)
    BY <1>0, FS_Interval
  <2> QED BY <2>1, Keep
<1>4. IsFiniteSet(S \cup {at[a]}) /\ Cardinality(S) \in Nat /\ Cardinality(T) \in Nat
      /\ Cardinality(T) <= Cardinality(S) + 1
  <2> HIDE DEF S, T
  <2> QED BY <1>2, <1>3, Grow, FS_CardinalityType, FS_AddElement
<1> QED BY <1>1, <1>2, <1>4

(* A step that leaves the transactions as they are, and the shelf at least. *)
LEMMA LockKept ==
  ASSUME TypeOK, LockInv, lock' = lock, pc' = pc, at' = at, sales' = sales,
         stock' \in [Products -> Nat], \A p \in Products : stock[p] <= stock'[p]
  PROVE  LockInv'
<1> SUFFICES ASSUME NEW a \in Attempts, pc[a] = "selling", NEW p \in Products, Taken(a, p) > 0
             PROVE  lock[p] = a /\ Taken(a, p) <= stock'[p]
  BY SameTaken DEF LockInv
<1>1. lock[p] = a /\ Taken(a, p) <= stock[p] /\ Taken(a, p) \in Nat
  BY LineCounts DEF LockInv
<1> QED BY <1>1 DEF TypeOK

(* A transaction ends, or one that has taken nothing begins: the others     *)
(* keep their rows and what is on them.                                     *)
LEMMA LockOthers ==
  ASSUME TypeOK, LockInv, NEW a \in Attempts, NEW l \in States, pc' = [pc EXCEPT ![a] = l],
         \A b \in Attempts \ {a} : at'[b] = at[b] /\ (b \in sales' <=> b \in sales),
         \A p \in Products : lock'[p] = lock[p] \/ lock[p] = a \/ lock[p] = NONE,
         \A p \in Products : stock'[p] = stock[p] \/ lock[p] = a,
         l \in {"idle", "clash", "stale", "rekey", "selling"} => at'[a] = 1 /\ a \notin sales'
  PROVE  LockInv'
<1>1. ASSUME NEW b \in Attempts, b # a, pc[b] = "selling", NEW p \in Products, Taken(b, p)' > 0
      PROVE  lock'[p] = b /\ Taken(b, p)' <= stock'[p]
  <2>1. Taken(b, p)' = Taken(b, p)
    BY <1>1, SameTaken
  <2>2. lock[p] = b /\ Taken(b, p) <= stock[p]
    BY <1>1, <2>1 DEF LockInv
  <2>3. b # NONE
    BY AttemptAssumption
  <2> QED BY <1>1, <2>1, <2>2, <2>3
<1>2. ASSUME at'[a] = 1, NEW p PROVE Taken(a, p)' = 0
  <2>1. {i \in 1 .. at'[a] - 1 : Lines[TicketOf[a]][i] = p} = {}
    BY <1>2
  <2> QED BY <2>1, FS_EmptySet DEF Taken, LinesOf
<1>4. Total(TicketOf[a]) \in Nat
  BY TicketAssumption DEF Total
<1>3. \A b \in Attempts : pc'[b] = IF b = a THEN l ELSE pc[b]
  BY DEF TypeOK
<1>5. ASSUME NEW b \in Attempts PROVE
        /\ pc'[b] \in {"idle", "clash", "stale", "rekey"} => at'[b] = 1 /\ b \notin sales'
        /\ pc'[b] = "selling" =>
             /\ b \notin sales'
             /\ at'[b] <= Total(TicketOf[b]) + 1
             /\ \A p \in Products : Taken(b, p)' > 0 => lock'[p] = b /\ Taken(b, p)' <= stock'[p]
  <2>1. CASE b = a
    BY <1>2, <1>3, <1>4, <2>1
  <2>2. CASE b # a
    BY <1>1, <1>3, <2>2 DEF LockInv
  <2> QED BY <2>1, <2>2
<1> QED BY <1>5 DEF LockInv

LEMMA LockConsume ==
  ASSUME TypeOK, LockInv, NEW a \in Attempts, Consume(a) PROVE LockInv'
<1>1. /\ pc[a] = "selling" /\ at[a] <= Total(TicketOf[a]) /\ lock[Wants(a)] \in {NONE, a}
      /\ Taken(a, Wants(a)) < stock[Wants(a)] /\ at' = [at EXCEPT ![a] = @ + 1]
      /\ lock' = [lock EXCEPT ![Wants(a)] = a] /\ stock' = stock /\ pc' = pc /\ sales' = sales
  BY DEF Consume, Consuming, LinesOf, Total
<1>2. at[a] \in Nat \ {0} /\ Total(TicketOf[a]) \in Nat /\ at'[a] = at[a] + 1
  BY <1>1, TicketAssumption DEF TypeOK, Total
<1>3. ASSUME NEW p \in Products, Taken(a, p)' > 0 PROVE lock'[p] = a /\ Taken(a, p)' <= stock[p]
  <2>0. Taken(a, p) \in Nat /\ Taken(a, p)' \in Nat /\ stock[p] \in Nat
    BY <1>1, <1>2, LineCounts, OneMoreTaken DEF TypeOK
  <2>1. CASE p = Wants(a)
    <3>1. Taken(a, p)' <= Taken(a, p) + 1
      BY <1>1, <1>2, <2>1, OneMoreTaken
    <3>2. lock'[p] = a
      BY <1>1, <2>1 DEF TypeOK
    <3> QED BY <1>1, <2>0, <2>1, <3>1, <3>2
  <2>2. CASE p # Wants(a)
    <3>1. Taken(a, p)' = Taken(a, p)
      BY <1>1, <1>2, <2>2, OneMoreTaken
    <3>2. lock'[p] = lock[p]
      BY <1>1, <2>2 DEF TypeOK
    <3> QED BY <1>1, <1>3, <3>1, <3>2 DEF LockInv
  <2> QED BY <2>1, <2>2
<1>4. ASSUME NEW b \in Attempts, b # a, pc[b] = "selling", NEW p \in Products, Taken(b, p)' > 0
      PROVE  lock'[p] = b /\ Taken(b, p)' <= stock[p]
  <2>1. Taken(b, p)' = Taken(b, p)
    <3>1. at'[b] = at[b]
      BY <1>1, <1>4 DEF TypeOK
    <3> QED BY <3>1, SameTaken
  <2>2. lock[p] = b /\ Taken(b, p) <= stock[p] /\ b # NONE
    BY <1>4, <2>1, AttemptAssumption DEF LockInv
  <2>3. p # Wants(a)
    BY <1>1, <1>4, <2>2
  <2> QED BY <1>1, <2>1, <2>2, <2>3 DEF TypeOK
<1>5. ASSUME NEW b \in Attempts PROVE
        /\ pc'[b] \in {"idle", "clash", "stale", "rekey"} => at'[b] = 1 /\ b \notin sales'
        /\ pc'[b] = "selling" =>
             /\ b \notin sales'
             /\ at'[b] <= Total(TicketOf[b]) + 1
             /\ \A p \in Products : Taken(b, p)' > 0 => lock'[p] = b /\ Taken(b, p)' <= stock'[p]
  <2>1. CASE b = a
    BY <1>1, <1>2, <1>3, <2>1 DEF LockInv
  <2>2. CASE b # a
    <3>1. at'[b] = at[b]
      BY <1>1, <2>2 DEF TypeOK
    <3> QED BY <1>1, <1>4, <2>2, <3>1 DEF LockInv
  <2> QED BY <2>1, <2>2
<1> QED BY <1>5 DEF LockInv

LEMMA LockSale ==
  ASSUME TypeOK, LockInv, TypeOK', NEW a \in Attempts,
         Reserve(a) \/ Clash(a) \/ Handle(a) \/ DeadlockVictim(a) \/ Fails(a)
  PROVE  LockInv'
<1> USE DEF Goto, shelfVars, Unlocked
<1>1. CASE Reserve(a) \/ Clash(a) \/ FindEarlier(a) \/ FreeStale(a) \/ Rekey(a)
  <2>1. PICK l \in States : pc' = [pc EXCEPT ![a] = l]
    BY <1>1 DEF Reserve, Clash, FindEarlier, FreeStale, Rekey, States
  <2>2. pc[a] \in {"idle", "clash", "stale", "rekey"} /\ at' = at /\ sales' = sales
        /\ stock' = stock /\ lock' = lock
    BY <1>1 DEF Reserve, Clash, FindEarlier, FreeStale, Rekey
  <2>3. at'[a] = 1 /\ a \notin sales'
    BY <2>2 DEF LockInv
  <2> QED BY <2>1, <2>2, <2>3, LockOthers
<1>2. CASE Rollback(a)
  <2>1. /\ pc' = [pc EXCEPT ![a] = "failed"] /\ sales' = sales /\ stock' = stock
        /\ \A b \in Attempts \ {a} : at'[b] = at[b]
        /\ \A p \in Products : lock'[p] = lock[p] \/ lock[p] = a
    BY <1>2 DEF Rollback, TypeOK
  <2>2. "failed" \in States /\ "failed" \notin {"idle", "clash", "stale", "rekey", "selling"}
    BY DEF States
  <2> QED BY <2>1, <2>2, LockOthers
<1>3. CASE Commit(a) \/ CommitUnheard(a)
  <2>1. PICK l \in {"record", "failed"} : pc' = [pc EXCEPT ![a] = l]
    BY <1>3 DEF Commit, CommitUnheard
  <2>2. /\ CommitSale(a) /\ at' = at /\ sales' = sales \cup {a}
        /\ \A p \in Products : lock'[p] = lock[p] \/ lock[p] = a
    BY <1>3 DEF Commit, CommitUnheard, CommitSale
  <2>3. \A p \in Products : stock'[p] = stock[p] \/ lock[p] = a
    <3> SUFFICES ASSUME NEW p \in Products, lock[p] # a PROVE stock'[p] = stock[p]
      OBVIOUS
    <3>1. Taken(a, p) = 0
      BY <2>2, LineCounts DEF CommitSale, LockInv
    <3> QED BY <2>2, <3>1 DEF CommitSale, TypeOK
  <2>4. l \in States /\ l \notin {"idle", "clash", "stale", "rekey", "selling"}
    BY DEF States
  <2> QED BY <2>1, <2>2, <2>3, <2>4, LockOthers
<1>4. CASE Release(a) \/ ReleaseFails(a) \/ Record(a) \/ RecordFails(a)
  <2>1. PICK l \in {"refused", "done"} : pc' = [pc EXCEPT ![a] = l]
    BY <1>4 DEF Release, ReleaseFails, Record, RecordFails
  <2>2. at' = at /\ sales' = sales /\ stock' = stock /\ lock' = lock
    BY <1>4 DEF Release, ReleaseFails, Record, RecordFails
  <2>3. l \in States /\ l \notin {"idle", "clash", "stale", "rekey", "selling"}
    BY DEF States
  <2> QED BY <2>1, <2>2, <2>3, LockOthers
<1> QED BY <1>1, <1>2, <1>3, <1>4, LockConsume DEF Handle, DeadlockVictim, Fails, OutOfStock, Refuse

LEMMA NextLockInv == ASSUME TypeOK, LockInv, TypeOK', [Next]_vars PROVE LockInv'
<1>1. ASSUME UNCHANGED <<saleVars, lock>>, \A p \in Products : stock[p] <= stock'[p] PROVE LockInv'
  BY <1>1, LockKept DEF saleVars, TypeOK
<1>2. \A p \in Products : stock[p] \in Nat /\ stock[p] <= stock[p] /\ stock[p] <= stock[p] + 1
  BY DEF TypeOK
<1>3. ASSUME NEW d \in Deliveries, ReadCost(d) \/ Receive(d) PROVE LockInv'
  <2>1. DeliveryOf[d].product \in Products /\ DeliveryOf[d].qty \in Nat
    BY StockAssumption
  <2>2. \A p \in Products : stock[p] <= stock'[p]
    BY <1>2, <1>3, <2>1 DEF ReadCost, Receive, shelfVars, TypeOK
  <2> QED BY <1>1, <1>3, <2>2 DEF ReadCost, Receive, shelfVars
<1>4. ASSUME NEW r \in Refunders, RefundStep(r) PROVE LockInv'
  <2>1. \A p \in Products : stock[p] <= stock'[p]
    <3>1. stock' = stock \/ \E p \in Products : stock' = [stock EXCEPT ![p] = @ + 1]
      BY <1>4 DEF RefundStep, RefundLock, RefundCommit, RefundRaise, shelfVars
    <3>2. \A p \in Products : stock[p] \in Nat
      BY DEF TypeOK
    <3>3. stock \in [Products -> Nat]
      BY DEF TypeOK
    <3> QED BY <3>1, <3>2, <3>3
  <2>2. UNCHANGED <<saleVars, lock>>
    BY <1>4 DEF RefundStep, RefundLock, RefundCommit, RefundRaise, shelfVars
  <2> QED BY <1>1, <2>1, <2>2
<1>5. CASE Crash
  <2>1. \A b \in Attempts : pc'[b] # "selling"
                            /\ (pc'[b] \in {"idle", "clash", "stale", "rekey"} => pc[b] = "idle")
    BY <1>5 DEF Crash
  <2>2. at' = at /\ sales' = sales
    BY <1>5 DEF Crash
  <2> QED BY <2>1, <2>2 DEF LockInv
<1>6. CASE UNCHANGED vars
  BY <1>1, <1>2, <1>6 DEF vars, shelfVars
<1>7. ASSUME NEW t \in Tickets, Age(t) PROVE LockInv'
  BY <1>1, <1>2, <1>7 DEF Age, shelfVars
<1> QED BY <1>3, <1>4, <1>5, <1>6, <1>7, LockSale DEF Next

-----------------------------------------------------------------------------
(* Refunds. *)

LEMMA RefundsLocked ==
  ASSUME TypeOK, SeenInv, LinesInv, RefundsWithinSale, NEW r \in Refunders, RefundStep(r)
  PROVE  SeenInv' /\ LinesInv' /\ RefundsWithinSale'
<1>0. sales' = sales
  BY DEF RefundStep, RefundLock, RefundCommit, RefundRaise, saleVars
<1>1. ASSUME NEW a \in Attempts, RefundLock(r, a)
      PROVE  SeenInv' /\ LinesInv' /\ RefundsWithinSale'
  <2>1. /\ a \in sales /\ saleLock[a] = NONE /\ saleLock' = [saleLock EXCEPT ![a] = r]
        /\ refund[r] = "new" /\ refund' = [refund EXCEPT ![r] = "checked"]
        /\ seen' = [seen EXCEPT ![r] = [sale |-> a, amount |-> refunded[a],
                                        back |-> [p \in Products |-> Restocked(a, p)]]]
        /\ refunded' = refunded /\ backIn' = backIn
    BY <1>1 DEF RefundLock
  <2>2. \A b, p : Restocked(b, p)' = Restocked(b, p)
    BY <2>1 DEF Restocked
  <2>3. SeenInv'
    <3> SUFFICES ASSUME NEW q \in Refunders, refund'[q] = "checked"
                 PROVE  /\ seen'[q].sale \in sales'
                        /\ saleLock'[seen'[q].sale] = q
                        /\ seen'[q].amount = refunded'[seen'[q].sale]
                        /\ \A p \in Products : seen'[q].back[p] = Restocked(seen'[q].sale, p)
      BY <2>2 DEF SeenInv
    <3>1. CASE q = r
      BY <1>0, <2>1, <3>1 DEF TypeOK
    <3>2. CASE q # r
      <4>1. refund[q] = "checked" /\ seen'[q] = seen[q]
        BY <2>1, <3>2 DEF TypeOK
      <4>2. seen[q].sale # a
        BY <2>1, <4>1, StockAssumption DEF SeenInv
      <4> QED BY <1>0, <2>1, <4>1, <4>2 DEF SeenInv, TypeOK
    <3> QED BY <3>1, <3>2
  <2>4. LinesInv'
    BY <2>1 DEF LinesInv, TypeOK
  <2> QED BY <2>1, <2>2, <2>3, <2>4 DEF RefundsWithinSale
<1>2. ASSUME NEW amount \in Amounts, NEW p \in Products \cup {NONE},
             RefundCommit(r, amount, p) \/ RefundRaise(r, amount, p)
      PROVE  SeenInv' /\ LinesInv' /\ RefundsWithinSale'
  <2>0. PICK a : a = seen[r].sale
    OBVIOUS
  <2> DEFINE line == [by |-> r, sale |-> a, product |-> p]
  <2>1. /\ refund[r] = "checked" /\ refund' = [refund EXCEPT ![r] = "over"] /\ seen' = seen
        /\ saleLock' = [saleLock EXCEPT ![a] = NONE]
        /\ \/ /\ refunded' = [refunded EXCEPT ![a] = @ + amount]
              /\ AmountFits(r, amount)
              /\ \/ backIn' = backIn
                 \/ backIn' = backIn \cup {line} /\ p \in Products /\ LineFits(r, p)
           \/ refunded' = refunded /\ backIn' = backIn
    BY <1>2, <2>0 DEF RefundCommit, RefundRaise
  <2>2. a \in Attempts /\ a \in sales /\ seen[r].amount = refunded[a]
        /\ \A x \in Products : seen[r].back[x] = Restocked(a, x)
    BY <2>0, <2>1 DEF SeenInv, TypeOK
  <2>3. IsFiniteSet(backIn')
    BY <2>1, FS_AddElement DEF LinesInv
  <2>4. \A b, x : b # a => Restocked(b, x)' = Restocked(b, x)
    <3> SUFFICES ASSUME NEW b, NEW x, b # a PROVE Restocked(b, x)' = Restocked(b, x)
      OBVIOUS
    <3>1. {l \in backIn' : l.sale = b /\ l.product = x} = {l \in backIn : l.sale = b /\ l.product = x}
      BY <2>1
    <3> QED BY <3>1 DEF Restocked
  <2>5. ASSUME NEW x \in Products PROVE Restocked(a, x)' <= Units(TicketOf[a], x)
    <3> DEFINE S == {l \in backIn : l.sale = a /\ l.product = x}
               T == {l \in backIn' : l.sale = a /\ l.product = x}
    <3>1. Restocked(a, x) = Cardinality(S) /\ Restocked(a, x)' = Cardinality(T)
      BY <2>1 DEF Restocked
    <3>2. Restocked(a, x) \in Nat /\ Units(TicketOf[a], x) \in Nat
          /\ Restocked(a, x) <= Units(TicketOf[a], x)
      BY <2>2, RestockedType, LineCounts DEF RefundsWithinSale, LinesInv
    <3>3. CASE T = S
      BY <3>1, <3>2, <3>3
    <3>4. CASE T # S
      <4>1. x = p /\ LineFits(r, p) /\ T \subseteq S \cup {line}
        BY <2>1, <3>4
      <4>2. Cardinality(T) <= Cardinality(S) + 1 /\ Cardinality(T) \in Nat
        <5>1. IsFiniteSet(S)
          <6>1. S \subseteq backIn
            OBVIOUS
          <6> QED BY <6>1, Keep DEF LinesInv
        <5> HIDE DEF S, T
        <5> QED BY <4>1, <5>1, Grow
      <4>3. Restocked(a, x) + 1 <= Units(TicketOf[a], x)
        BY <2>0, <2>2, <4>1 DEF LineFits
      <4> HIDE DEF S, T
      <4> QED BY <3>1, <3>2, <4>2, <4>3
    <3> QED BY <3>3, <3>4
  <2>6. refunded'[a] <= Total(TicketOf[a])
    BY <2>0, <2>1, <2>2 DEF AmountFits, RefundsWithinSale, TypeOK
  <2>7. \A b \in Attempts \ {a} : refunded'[b] = refunded[b]
    BY <2>1, <2>2 DEF TypeOK
  <2>8. RefundsWithinSale'
    <3> SUFFICES ASSUME NEW b \in Attempts
                 PROVE  /\ refunded'[b] <= Total(TicketOf[b])
                        /\ \A x \in Products : Restocked(b, x)' <= Units(TicketOf[b], x)
      BY DEF RefundsWithinSale, Total, Units
    <3>1. CASE b = a
      BY <2>5, <2>6, <3>1
    <3>2. CASE b # a
      BY <2>4, <2>7, <3>2 DEF RefundsWithinSale
    <3> QED BY <3>1, <3>2
  <2>9. SeenInv'
    <3> SUFFICES ASSUME NEW q \in Refunders, refund'[q] = "checked"
                 PROVE  /\ seen[q].sale \in sales
                        /\ saleLock'[seen[q].sale] = q
                        /\ seen[q].amount = refunded'[seen[q].sale]
                        /\ \A x \in Products : seen[q].back[x] = Restocked(seen[q].sale, x)'
      BY <1>0, <2>1 DEF SeenInv
    <3>1. q # r /\ refund[q] = "checked"
      BY <2>1 DEF TypeOK
    <3>2. seen[q].sale \in Attempts /\ saleLock[seen[q].sale] = q
      BY <3>1 DEF SeenInv, TypeOK
    <3>3. seen[q].sale # a
      BY <2>0, <2>1, <3>1, <3>2 DEF SeenInv
    <3> QED BY <2>1, <2>4, <2>7, <3>1, <3>2, <3>3 DEF SeenInv, TypeOK
  <2>10. LinesInv'
    BY <2>1, <2>3 DEF LinesInv, TypeOK
  <2> QED BY <2>8, <2>9, <2>10
<1> QED BY <1>1, <1>2 DEF RefundStep

LEMMA NextRefunds ==
  ASSUME TypeOK, SeenInv, LinesInv, RefundsWithinSale, [Next]_vars
  PROVE  SeenInv' /\ LinesInv' /\ RefundsWithinSale'
<1>1. ASSUME UNCHANGED refundVars, sales' = sales \/ \E a \in Attempts : sales' = sales \cup {a}
      PROVE  SeenInv' /\ LinesInv' /\ RefundsWithinSale'
  BY <1>1 DEF SeenInv, LinesInv, RefundsWithinSale, refundVars, Restocked, Total, Units
<1>2. ASSUME NEW a \in Attempts,
             Reserve(a) \/ Clash(a) \/ Handle(a) \/ DeadlockVictim(a) \/ Fails(a)
      PROVE  UNCHANGED refundVars /\ (sales' = sales \/ sales' = sales \cup {a})
  BY <1>2 DEF Reserve, Clash, Handle, DeadlockVictim, Fails, FindEarlier, FreeStale, Rekey, Consume,
     OutOfStock, Rollback, Refuse, Commit, CommitUnheard, CommitSale, Release, ReleaseFails, Record,
     RecordFails, saleVars
<1>3. ASSUME NEW d \in Deliveries, ReadCost(d) \/ Receive(d)
      PROVE  UNCHANGED <<refundVars, sales>>
  BY <1>3 DEF ReadCost, Receive, saleVars
<1>4. ASSUME NEW t \in Tickets, Age(t) PROVE UNCHANGED <<refundVars, sales>>
  BY <1>4 DEF Age, saleVars
<1>5. CASE Crash
  BY <1>5 DEF Crash, SeenInv, LinesInv, RefundsWithinSale, Restocked, Total, Units, TypeOK
<1>6. CASE UNCHANGED vars
  BY <1>1, <1>6 DEF vars, saleVars
<1> QED BY <1>1, <1>2, <1>3, <1>4, <1>5, <1>6, RefundsLocked DEF Next

-----------------------------------------------------------------------------
(* The shelf. *)

ShelfInv ==
  /\ \A p \in Products : IsFiniteSet(Sold(p)) /\ IsFiniteSet(Received(p))
  /\ ShelfMatches

Shelf(p) == stock[p] + Cardinality(Sold(p))
              = OpeningStock[p] + Cardinality(Received(p)) + Cardinality(Back(p))

LEMMA BackFinite ==
  ASSUME LinesInv, NEW p PROVE IsFiniteSet(Back(p)) /\ Cardinality(Back(p)) \in Nat
<1>1. Back(p) \subseteq backIn
  BY DEF Back
<1> QED BY <1>1, Keep DEF LinesInv

LEMMA DisjointUnion ==
  ASSUME NEW S, IsFiniteSet(S), NEW T, IsFiniteSet(T), S \cap T = {}
  PROVE  IsFiniteSet(S \cup T) /\ Cardinality(S \cup T) = Cardinality(S) + Cardinality(T)
         /\ Cardinality(S) \in Nat /\ Cardinality(T) \in Nat
<1>1. Cardinality({}) = 0
  BY FS_EmptySet
<1>2. Cardinality(S) \in Nat /\ Cardinality(T) \in Nat
  BY FS_CardinalityType
<1>3. IsFiniteSet(S \cup T)
      /\ Cardinality(S \cup T) = Cardinality(S) + Cardinality(T) - Cardinality({})
  BY FS_Union
<1> QED BY <1>1, <1>2, <1>3

LEMMA UpTo == ASSUME NEW n \in Nat PROVE IsFiniteSet(1 .. n) /\ Cardinality(1 .. n) = n
BY FS_Interval

LEMMA Pairs ==
  ASSUME NEW x, NEW T, IsFiniteSet(T)
  PROVE  IsFiniteSet({x} \X T) /\ Cardinality({x} \X T) = Cardinality(T)
<1>1. IsFiniteSet({x}) /\ Cardinality({x}) = 1 /\ Cardinality(T) \in Nat
  BY FS_Singleton, FS_CardinalityType
<1> QED BY <1>1, FS_Product

(* A committed sale moves its lines from the shelf to the sold ones. *)
LEMMA ShelfCommit ==
  ASSUME TypeOK, LockInv, LinesInv, ShelfInv, NEW a \in Attempts, CommitSale(a) PROVE ShelfInv'
<1> SUFFICES ASSUME NEW p \in Products
             PROVE  IsFiniteSet(Sold(p)') /\ IsFiniteSet(Received(p)') /\ Shelf(p)'
  BY DEF ShelfInv, ShelfMatches, Shelf
<1>1. /\ a \notin sales /\ sales' = sales \cup {a} /\ at[a] > Total(TicketOf[a])
      /\ at[a] <= Total(TicketOf[a]) + 1 /\ at[a] \in Nat /\ Total(TicketOf[a]) \in Nat
      /\ stock'[p] = stock[p] - Taken(a, p) /\ stock[p] \in Nat
      /\ delivery' = delivery /\ backIn' = backIn
  BY LineCounts DEF CommitSale, LockInv, LinesOf, Total, TypeOK, deliveryVars, refundVars
<1> DEFINE I == {i \in DOMAIN Lines[TicketOf[a]] : Lines[TicketOf[a]][i] = p}
<1>2. TicketOf[a] \in Tickets /\ DOMAIN Lines[TicketOf[a]] = 1 .. Total(TicketOf[a])
  BY TicketAssumption DEF Total
<1>3. IsFiniteSet(I)
  <2>1. IsFiniteSet(1 .. Total(TicketOf[a]))
    BY <1>1, UpTo
  <2> QED BY <1>2, <2>1, Keep
<1>4. Taken(a, p) = Cardinality(I)
  <2>1. at[a] - 1 = Total(TicketOf[a])
    BY <1>1
  <2> QED BY <1>2, <2>1 DEF Taken, LinesOf
<1>5. Sold(p)' = Sold(p) \cup ({a} \X I)
  BY <1>1, <1>2 DEF Sold, LinesOf
<1>6. Sold(p) \cap ({a} \X I) = {}
  BY <1>1 DEF Sold
<1>7. IsFiniteSet(Sold(p)') /\ Cardinality(Sold(p)') = Cardinality(Sold(p)) + Taken(a, p)
      /\ Cardinality(Sold(p)) \in Nat /\ Taken(a, p) \in Nat
  <2>1. IsFiniteSet({a} \X I) /\ Cardinality({a} \X I) = Cardinality(I)
    <3> HIDE DEF I
    <3> QED BY <1>3, Pairs
  <2>2. IsFiniteSet(Sold(p))
    BY DEF ShelfInv
  <2> HIDE DEF I
  <2> QED BY <1>4, <1>5, <1>6, <2>1, <2>2, DisjointUnion
<1>8. Received(p)' = Received(p) /\ Back(p)' = Back(p)
  BY <1>1 DEF Received, Back
<1>9. IsFiniteSet(Received(p)) /\ Cardinality(Received(p)) \in Nat /\ Cardinality(Back(p)) \in Nat
      /\ Shelf(p) /\ OpeningStock[p] \in Nat
  BY BackFinite, FS_CardinalityType, StockAssumption DEF ShelfInv, ShelfMatches, Shelf
<1> QED BY <1>1, <1>7, <1>8, <1>9 DEF Shelf

LEMMA ShelfReceive ==
  ASSUME TypeOK, LinesInv, ShelfInv, NEW d \in Deliveries, Receive(d) PROVE ShelfInv'
<1> SUFFICES ASSUME NEW p \in Products
             PROVE  IsFiniteSet(Sold(p)') /\ IsFiniteSet(Received(p)') /\ Shelf(p)'
  BY DEF ShelfInv, ShelfMatches, Shelf
<1> DEFINE n == DeliveryOf[d].qty
<1>0. DeliveryOf[d].product \in Products /\ n \in Nat /\ OpeningStock[p] \in Nat /\ stock[p] \in Nat
  BY StockAssumption DEF TypeOK
<1>1. /\ sales' = sales /\ backIn' = backIn /\ delivery[d] = "read"
      /\ delivery' = [delivery EXCEPT ![d] = "in"]
      /\ stock'[p] = IF p = DeliveryOf[d].product THEN stock[p] + n ELSE stock[p]
  BY <1>0 DEF Receive, TypeOK, saleVars, refundVars
<1>2. Sold(p)' = Sold(p) /\ Back(p)' = Back(p)
  BY <1>1 DEF Sold, Back, LinesOf
<1>3. IsFiniteSet(Sold(p)) /\ Cardinality(Sold(p)) \in Nat /\ IsFiniteSet(Received(p))
      /\ Cardinality(Received(p)) \in Nat /\ Cardinality(Back(p)) \in Nat /\ Shelf(p)
  BY BackFinite, FS_CardinalityType DEF ShelfInv, ShelfMatches, Shelf
<1>4. CASE p = DeliveryOf[d].product
  <2>1. Received(p)' = Received(p) \cup ({d} \X (1 .. n)) /\ Received(p) \cap ({d} \X (1 .. n)) = {}
    <3>1. {e \in Deliveries : delivery'[e] = "in" /\ DeliveryOf[e].product = p}
            = {e \in Deliveries : delivery[e] = "in" /\ DeliveryOf[e].product = p} \cup {d}
      BY <1>1, <1>4 DEF TypeOK
    <3>2. Received(p)' = Received(p) \cup ({d} \X (1 .. n))
      BY <3>1 DEF Received
    <3>3. Received(p) \cap ({d} \X (1 .. n)) = {}
      BY <1>1 DEF Received
    <3> QED BY <3>2, <3>3
  <2>2. IsFiniteSet({d} \X (1 .. n)) /\ Cardinality({d} \X (1 .. n)) = n
    <3>1. IsFiniteSet(1 .. n) /\ Cardinality(1 .. n) = n
      BY <1>0, UpTo
    <3> QED BY <3>1, Pairs
  <2>3. IsFiniteSet(Received(p)') /\ Cardinality(Received(p)') = Cardinality(Received(p)) + n
    <3>1. PICK S : S = {d} \X (1 .. n)
      OBVIOUS
    <3>2. IsFiniteSet(S) /\ Cardinality(S) = n /\ Received(p) \cap S = {}
      BY <2>1, <2>2, <3>1
    <3>3. IsFiniteSet(Received(p) \cup S)
          /\ Cardinality(Received(p) \cup S) = Cardinality(Received(p)) + n
      BY <1>3, <3>2, DisjointUnion
    <3> QED BY <2>1, <3>1, <3>3
  <2> QED BY <1>0, <1>1, <1>2, <1>3, <1>4, <2>3 DEF Shelf
<1>5. CASE p # DeliveryOf[d].product
  <2>1. {e \in Deliveries : delivery'[e] = "in" /\ DeliveryOf[e].product = p}
            = {e \in Deliveries : delivery[e] = "in" /\ DeliveryOf[e].product = p}
    BY <1>1, <1>5 DEF TypeOK
  <2>2. Received(p)' = Received(p)
    BY <2>1 DEF Received
  <2> QED BY <1>1, <1>2, <1>3, <1>5, <2>2 DEF Shelf
<1> QED BY <1>4, <1>5

LEMMA ShelfRefund ==
  ASSUME TypeOK, SeenInv, LinesInv, ShelfInv, NEW r \in Refunders, NEW amount,
         NEW p \in Products \cup {NONE}, RefundCommit(r, amount, p)
  PROVE  ShelfInv'
<1> SUFFICES ASSUME NEW x \in Products
             PROVE  IsFiniteSet(Sold(x)') /\ IsFiniteSet(Received(x)') /\ Shelf(x)'
  BY DEF ShelfInv, ShelfMatches, Shelf
<1>1. /\ sales' = sales /\ delivery' = delivery /\ refund[r] = "checked"
  BY DEF RefundCommit, saleVars, deliveryVars
<1>2. Sold(x)' = Sold(x) /\ Received(x)' = Received(x)
  BY <1>1 DEF Sold, Received, LinesOf
<1>3. IsFiniteSet(Sold(x)) /\ Cardinality(Sold(x)) \in Nat /\ IsFiniteSet(Received(x))
      /\ Cardinality(Received(x)) \in Nat /\ IsFiniteSet(Back(x)) /\ Cardinality(Back(x)) \in Nat
      /\ Shelf(x) /\ OpeningStock[x] \in Nat /\ stock[x] \in Nat
  BY BackFinite, FS_CardinalityType, StockAssumption DEF ShelfInv, ShelfMatches, Shelf, TypeOK
<1>4. CASE x = p
  <2>1. PICK l : l = [by |-> r, sale |-> seen[r].sale, product |-> p]
    OBVIOUS
  <2>2. x # NONE /\ l.by = r /\ l.product = p
    BY <1>4, <2>1, AttemptAssumption
  <2>3. backIn' = backIn \cup {l} /\ stock'[x] = stock[x] + 1
    BY <1>4, <2>1, <2>2 DEF RefundCommit, TypeOK
  <2>4. Back(x)' = Back(x) \cup {l} /\ l \notin Back(x)
    BY <1>1, <1>4, <2>2, <2>3 DEF Back, LinesInv
  <2>5. Cardinality(Back(x)') = Cardinality(Back(x)) + 1
    BY <1>3, <2>4, FS_AddElement
  <2> QED BY <1>2, <1>3, <2>3, <2>5 DEF Shelf
<1>5. CASE x # p
  <2>1. stock'[x] = stock[x] /\ Back(x)' = Back(x)
    BY <1>5 DEF RefundCommit, TypeOK, Back
  <2> QED BY <1>2, <1>3, <2>1 DEF Shelf
<1> QED BY <1>4, <1>5

LEMMA NextShelfInv ==
  ASSUME TypeOK, LockInv, SeenInv, LinesInv, ShelfInv, [Next]_vars PROVE ShelfInv'
<1>1. ASSUME UNCHANGED <<sales, delivery, backIn, stock>> PROVE ShelfInv'
  BY <1>1 DEF ShelfInv, ShelfMatches, Sold, Received, Back, LinesOf
<1>2. ASSUME NEW d \in Deliveries, ReadCost(d) PROVE ShelfInv'
  <2>1. ASSUME NEW p \in Products PROVE Received(p)' = Received(p)
    <3>1. \A e \in Deliveries : delivery'[e] = "in" <=> delivery[e] = "in"
      BY <1>2 DEF ReadCost, TypeOK
    <3> QED BY <3>1 DEF Received
  <2>2. UNCHANGED <<sales, backIn, stock>>
    BY <1>2 DEF ReadCost, saleVars, shelfVars, refundVars
  <2> QED BY <2>1, <2>2 DEF ShelfInv, ShelfMatches, Sold, Back, LinesOf
<1>3. CASE Crash
  <2>1. ASSUME NEW p \in Products PROVE Received(p)' = Received(p)
    <3>1. \A e \in Deliveries : delivery'[e] = "in" <=> delivery[e] = "in"
      BY <1>3 DEF Crash, TypeOK
    <3> QED BY <3>1 DEF Received
  <2>2. UNCHANGED <<sales, backIn, stock>>
    BY <1>3 DEF Crash
  <2> QED BY <2>1, <2>2 DEF ShelfInv, ShelfMatches, Sold, Back, LinesOf
<1>4. ASSUME NEW a \in Attempts,
             Reserve(a) \/ Clash(a) \/ Handle(a) \/ DeadlockVictim(a) \/ Fails(a)
      PROVE  ShelfInv'
  <2>1. CASE CommitSale(a)
    BY <2>1, ShelfCommit
  <2>2. CASE ~CommitSale(a)
    <3>1. UNCHANGED <<sales, delivery, backIn, stock>>
      BY <1>4, <2>2 DEF Reserve, Clash, Handle, DeadlockVictim, Fails, FindEarlier, FreeStale, Rekey,
         Consume, OutOfStock, Rollback, Refuse, Commit, CommitUnheard, Release, ReleaseFails,
         Record, RecordFails, deliveryVars, refundVars, shelfVars
    <3> QED BY <1>1, <3>1
  <2> QED BY <2>1, <2>2
<1>5. ASSUME NEW r \in Refunders, RefundStep(r) PROVE ShelfInv'
  <2>1. CASE \E amount \in Amounts, p \in Products \cup {NONE} : RefundCommit(r, amount, p)
    BY <2>1, ShelfRefund
  <2>2. CASE ~\E amount \in Amounts, p \in Products \cup {NONE} : RefundCommit(r, amount, p)
    <3>1. UNCHANGED <<sales, delivery, backIn, stock>>
      BY <1>5, <2>2 DEF RefundStep, RefundLock, RefundRaise, saleVars, deliveryVars, shelfVars
    <3> QED BY <1>1, <3>1
  <2> QED BY <2>1, <2>2
<1>6. ASSUME NEW t \in Tickets, Age(t) PROVE ShelfInv'
  BY <1>1, <1>6 DEF Age, saleVars, deliveryVars, refundVars, shelfVars
<1>7. CASE UNCHANGED vars
  BY <1>1, <1>7 DEF vars, saleVars, deliveryVars, refundVars, shelfVars
<1> QED BY <1>2, <1>3, <1>4, <1>5, <1>6, <1>7, ShelfReceive DEF Next

-----------------------------------------------------------------------------
(* What a product costs. *)

LEMMA RoundedBetween ==
  ASSUME NEW x \in Nat, NEW y \in Nat \ {0}, NEW low \in Nat, NEW high \in Nat,
         low * y <= x, x <= high * y
  PROVE  low <= Rounded(x, y) /\ Rounded(x, y) <= high
<1> DEFINE m == 2 * y
           q == (2 * x + y) \div m
<1>1. m \in Nat \ {0} /\ q \in Int /\ m * q <= 2 * x + y /\ 2 * x + y < m * q + m
  OBVIOUS
<1>2. Rounded(x, y) = q
  BY DEF Rounded
<1>3. low <= q
  <2> SUFFICES ASSUME q <= low - 1 PROVE FALSE
    BY <1>1
  <2>1. m * q <= m * (low - 1)
    BY <1>1
  <2>2. m * (low - 1) + m = 2 * (low * y)
    OBVIOUS
  <2> QED BY <1>1, <2>1, <2>2
<1>4. q <= high
  <2> SUFFICES ASSUME high + 1 <= q PROVE FALSE
    BY <1>1
  <2>1. m * (high + 1) <= m * q
    BY <1>1
  <2>2. m * (high + 1) = 2 * (high * y) + m
    OBVIOUS
  <2> QED BY <1>1, <2>1, <2>2
<1> QED BY <1>2, <1>3, <1>4

LEMMA AverageBetween ==
  ASSUME NEW q \in Nat, NEW old \in Nat, NEW more \in Nat \ {0}, NEW new \in Nat,
         NEW low \in Nat, NEW high \in Nat, low <= old, low <= new, old <= high, new <= high
  PROVE  low <= AverageCost(q, old, more, new) /\ AverageCost(q, old, more, new) <= high
<1>1. q * old + more * new \in Nat /\ q + more \in Nat \ {0}
  OBVIOUS
<1>2. q * low <= q * old /\ more * low <= more * new /\ q * old <= q * high /\ more * new <= more * high
  OBVIOUS
<1>3. low * (q + more) = q * low + more * low /\ high * (q + more) = q * high + more * high
  OBVIOUS
<1>4. low * (q + more) <= q * old + more * new /\ q * old + more * new <= high * (q + more)
  BY <1>2, <1>3
<1> QED BY <1>1, <1>4, RoundedBetween DEF AverageCost

Within(p, c) == /\ \E low \in Prices(p) : low <= c
                /\ \E high \in Prices(p) : c <= high
(* A cost looked up for a delivery is a price too. *)
CostInv == /\ \A p \in Products : Within(p, cost[p])
           /\ \A d \in Deliveries : delivery[d] = "read" => Within(DeliveryOf[d].product, readCost[d])

LEMMA PricesAreNumbers == ASSUME NEW p \in Products PROVE Prices(p) \subseteq Nat
BY StockAssumption DEF Prices

LEMMA WithinAverage ==
  ASSUME NEW p \in Products, NEW q \in Nat, NEW old \in Nat, NEW more \in Nat \ {0}, NEW new \in Nat,
         Within(p, old), Within(p, new)
  PROVE  Within(p, AverageCost(q, old, more, new))
<1>1. PICK l1 \in Prices(p), l2 \in Prices(p) : l1 <= old /\ l2 <= new
  BY DEF Within
<1>2. PICK h1 \in Prices(p), h2 \in Prices(p) : old <= h1 /\ new <= h2
  BY DEF Within
<1>3. l1 \in Nat /\ l2 \in Nat /\ h1 \in Nat /\ h2 \in Nat
  BY <1>1, <1>2, PricesAreNumbers
<1>4. \E l \in {l1, l2} : l <= old /\ l <= new
  BY <1>1, <1>3
<1>5. \E h \in {h1, h2} : old <= h /\ new <= h
  BY <1>2, <1>3
<1>6. PICK l \in {l1, l2}, h \in {h1, h2} : l <= old /\ l <= new /\ old <= h /\ new <= h
  BY <1>4, <1>5
<1>7. l <= AverageCost(q, old, more, new) /\ AverageCost(q, old, more, new) <= h
  <2>1. l \in Nat /\ h \in Nat
    BY <1>3
  <2> QED BY <1>6, <2>1, AverageBetween
<1> QED BY <1>6, <1>7 DEF Within

LEMMA NextCostInv == ASSUME TypeOK, CostInv, [Next]_vars PROVE CostInv'
<1>1. ASSUME UNCHANGED <<cost, delivery, readCost>> PROVE CostInv'
  BY <1>1 DEF CostInv, Within, Prices
<1>2. ASSUME NEW d \in Deliveries, ReadCost(d) PROVE CostInv'
  <2>1. cost' = cost /\ delivery' = [delivery EXCEPT ![d] = "read"]
        /\ \A e \in Deliveries \ {d} : readCost'[e] = readCost[e]
    BY <1>2 DEF ReadCost, shelfVars, TypeOK
  <2>2. readCost'[d] = IF DeliveryOf[d].cost = NONE THEN cost[DeliveryOf[d].product]
                                                     ELSE DeliveryOf[d].cost
    BY <1>2 DEF ReadCost, TypeOK
  <2>3. DeliveryOf[d].product \in Products /\ DeliveryOf[d].cost \in Nat \cup {NONE}
    BY StockAssumption
  <2>4. Within(DeliveryOf[d].product, readCost'[d])
    <3>1. CASE DeliveryOf[d].cost = NONE
      BY <2>2, <2>3, <3>1 DEF CostInv
    <3>2. CASE DeliveryOf[d].cost # NONE
      <4>1. DeliveryOf[d].cost \in Prices(DeliveryOf[d].product) /\ DeliveryOf[d].cost \in Nat
        BY <2>3, <3>2 DEF Prices
      <4> QED BY <2>2, <3>2, <4>1 DEF Within
    <3> QED BY <3>1, <3>2
  <2>5. ASSUME NEW e \in Deliveries, delivery'[e] = "read"
        PROVE  Within(DeliveryOf[e].product, readCost'[e])
    <3>1. CASE e = d
      BY <2>4, <3>1
    <3>2. CASE e # d
      BY <2>1, <2>5, <3>2 DEF CostInv, TypeOK
    <3> QED BY <3>1, <3>2
  <2> QED BY <2>1, <2>5 DEF CostInv, Within, Prices
<1>3. ASSUME NEW d \in Deliveries, Receive(d) PROVE CostInv'
  <2> DEFINE p == DeliveryOf[d].product
             c == AverageCost(stock[p], cost[p], DeliveryOf[d].qty, readCost[d])
  <2>1. p \in Products /\ DeliveryOf[d].qty \in Nat \ {0}
    BY StockAssumption
  <2>2. /\ cost' = [cost EXCEPT ![p] = c] /\ readCost' = readCost
        /\ delivery' = [delivery EXCEPT ![d] = "in"] /\ delivery[d] = "read"
    BY <1>3 DEF Receive
  <2>3. stock[p] \in Nat /\ cost[p] \in Nat /\ readCost[d] \in Nat
    BY <2>1 DEF TypeOK
  <2>4. Within(p, c)
    BY <2>1, <2>2, <2>3, WithinAverage DEF CostInv
  <2>5. ASSUME NEW x \in Products PROVE Within(x, cost'[x])
    <3> HIDE DEF c
    <3> QED BY <2>2, <2>4 DEF CostInv, TypeOK
  <2>6. ASSUME NEW e \in Deliveries, delivery'[e] = "read"
        PROVE  Within(DeliveryOf[e].product, readCost'[e])
    BY <2>2, <2>6 DEF CostInv, TypeOK
  <2> QED BY <2>5, <2>6 DEF CostInv, Within, Prices
<1>4. CASE Crash
  <2>1. /\ cost' = cost /\ readCost' = readCost
        /\ \A d \in Deliveries : delivery'[d] # "read"
    BY <1>4 DEF Crash
  <2> QED BY <2>1 DEF CostInv, Within, Prices
<1>5. ASSUME NEW a \in Attempts,
             Reserve(a) \/ Clash(a) \/ Handle(a) \/ DeadlockVictim(a) \/ Fails(a)
      PROVE  UNCHANGED <<cost, delivery, readCost>>
  BY <1>5 DEF Reserve, Clash, Handle, DeadlockVictim, Fails, FindEarlier, FreeStale, Rekey, Consume,
     OutOfStock, Rollback, Refuse, Commit, CommitUnheard, CommitSale, Release, ReleaseFails, Record,
     RecordFails, deliveryVars, shelfVars
<1>6. ASSUME NEW r \in Refunders, RefundStep(r) PROVE UNCHANGED <<cost, delivery, readCost>>
  BY <1>6 DEF RefundStep, RefundLock, RefundCommit, RefundRaise, deliveryVars, shelfVars
<1>7. ASSUME NEW t \in Tickets, Age(t) PROVE UNCHANGED <<cost, delivery, readCost>>
  BY <1>7 DEF Age, deliveryVars, shelfVars
<1>8. CASE UNCHANGED vars
  BY <1>1, <1>8 DEF vars, deliveryVars, shelfVars
<1> QED BY <1>1, <1>2, <1>3, <1>4, <1>5, <1>6, <1>7, <1>8 DEF Next

-----------------------------------------------------------------------------
(* The theorems. *)

LEMMA InitInd == Init => IndInv /\ ShelfInv /\ CostInv
<1> SUFFICES ASSUME Init PROVE IndInv /\ ShelfInv /\ CostInv
  OBVIOUS
<1>1. TypeOK
  BY InitTypeOK
<1>2. KeyInv
  <2> SUFFICES ASSUME NEW t \in Tickets PROVE KeyPart(t)
    BY DEF KeyInv
  <2>1. Live(t) = {} /\ SalesOf(t) = {} /\ key[t] = Free /\ faults[t] = 0 /\ Held # Free
    BY DEF Init, Live, SalesOf, Held, Free
  <2> QED BY <2>1, FS_EmptySet DEF KeyPart, Weight, Loose
<1>3. LockInv
  BY DEF Init, LockInv
<1>4. SeenInv /\ LinesInv
  BY FS_EmptySet DEF Init, SeenInv, LinesInv
<1>5. RefundsWithinSale
  <2> SUFFICES ASSUME NEW a \in Attempts
               PROVE  /\ refunded[a] <= Total(TicketOf[a])
                      /\ \A p \in Products : Restocked(a, p) <= Units(TicketOf[a], p)
    BY DEF RefundsWithinSale
  <2>1. refunded[a] = 0 /\ Total(TicketOf[a]) \in Nat
    BY TicketAssumption DEF Init, Total
  <2>2. ASSUME NEW p \in Products PROVE Restocked(a, p) <= Units(TicketOf[a], p)
    <3>1. {l \in backIn : l.sale = a /\ l.product = p} = {}
      BY DEF Init
    <3>2. Restocked(a, p) = 0
      BY <3>1, FS_EmptySet DEF Restocked
    <3>3. Units(TicketOf[a], p) \in Nat
      BY <1>1, LineCounts
    <3> QED BY <3>2, <3>3
  <2> QED BY <2>1, <2>2
<1>6. ShelfInv
  <2> SUFFICES ASSUME NEW p \in Products
               PROVE  IsFiniteSet(Sold(p)) /\ IsFiniteSet(Received(p)) /\ Shelf(p)
    BY DEF ShelfInv, ShelfMatches, Shelf
  <2>1. Sold(p) = {} /\ Received(p) = {} /\ Back(p) = {} /\ stock[p] = OpeningStock[p]
    BY DEF Init, Sold, Received, Back
  <2> QED BY <2>1, FS_EmptySet, StockAssumption DEF Shelf
<1>7. CostInv
  <2>1. ASSUME NEW p \in Products PROVE Within(p, cost[p])
    <3>1. cost[p] \in Prices(p) /\ cost[p] \in Nat
      BY StockAssumption DEF Init, Prices
    <3> QED BY <3>1 DEF Within
  <2>2. \A d \in Deliveries : delivery[d] # "read"
    BY DEF Init
  <2> QED BY <2>1, <2>2 DEF CostInv
<1> QED BY <1>1, <1>2, <1>3, <1>4, <1>5, <1>6, <1>7 DEF IndInv

LEMMA NextInd ==
  IndInv /\ ShelfInv /\ CostInv /\ [Next]_vars => IndInv' /\ ShelfInv' /\ CostInv'
<1> SUFFICES ASSUME IndInv, ShelfInv, CostInv, [Next]_vars PROVE IndInv' /\ ShelfInv' /\ CostInv'
  OBVIOUS
<1>1. TypeOK /\ KeyInv /\ LockInv /\ SeenInv /\ LinesInv /\ RefundsWithinSale
  BY DEF IndInv
<1>2. TypeOK'
  BY <1>1, NextTypeOK
<1>3. KeyInv' /\ LockInv'
  BY <1>1, <1>2, NextKeyInv, NextLockInv
<1>4. SeenInv' /\ LinesInv' /\ RefundsWithinSale'
  BY <1>1, NextRefunds
<1>5. ShelfInv' /\ CostInv'
  BY <1>1, NextShelfInv, NextCostInv
<1> QED BY <1>2, <1>3, <1>4, <1>5 DEF IndInv

THEOREM TillInvariance == Spec => [](IndInv /\ ShelfInv /\ CostInv)
BY InitInd, NextInd, PTL DEF Spec

(* Every variable holds what its comment says, always. *)
THEOREM TillTypes == Spec => []TypeOK
<1>1. IndInv => TypeOK
  BY DEF IndInv
<1> QED BY <1>1, TillInvariance, PTL

(* A ticket becomes at most one sale, and two more for each fault that hit  *)
(* an attempt of it: the most the idempotency key can promise.              *)
THEOREM TillSalesBound == Spec => []SalesBound
<1>1. IndInv => SalesBound
  <2> SUFFICES ASSUME IndInv, NEW t \in Tickets
               PROVE  Cardinality(SalesOf(t)) <= 1 + 2 * faults[t]
    BY DEF SalesBound
  <2>1. TypeOK /\ KeyPart(t)
    BY DEF IndInv, KeyInv
  <2>2. Cardinality(Live(t)) \in Nat /\ Cardinality(SalesOf(t)) \in Nat /\ faults[t] \in Nat
    BY <2>1, TicketSets DEF TypeOK
  <2> QED BY <2>1, <2>2 DEF KeyPart, Weight
<1> QED BY <1>1, TillInvariance, PTL

(* The shelf is what the stock movements add up to, always. *)
THEOREM TillShelf == Spec => []ShelfMatches
<1>1. ShelfInv => ShelfMatches
  BY DEF ShelfInv
<1> QED BY <1>1, TillInvariance, PTL

(* Refunds of a sale never exceed it, in money or in goods. *)
THEOREM TillRefunds == Spec => []RefundsWithinSale
<1>1. IndInv => RefundsWithinSale
  BY DEF IndInv
<1> QED BY <1>1, TillInvariance, PTL

(* Rounded averages never leave the range of the prices averaged. *)
THEOREM TillCosts == Spec => []CostWithinPrices
<1>1. CostInv => CostWithinPrices
  BY DEF CostInv, CostWithinPrices, Within
<1> QED BY <1>1, TillInvariance, PTL
=============================================================================
