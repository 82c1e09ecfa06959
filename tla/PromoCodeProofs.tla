--------------------------- MODULE PromoCodeProofs ---------------------------
(* Proofs about the redemption of promo codes, for any number of codes, users*)
(* and concurrent requests.                                                  *)
EXTENDS PromoCode, FiniteSetTheorems, TLAPS

-----------------------------------------------------------------------------
(* Types *)

\* The initial state is well typed.
LEMMA TypeInit == Init => TypeOK
BY PromoAssumption DEF Init, TypeOK, Transaction, Closed, Request, Row

\* A transaction that is rolled back, or ends, leaves a well-typed table.
LEMMA RollType ==
    ASSUME TypeOK, NEW w \in Workers, Roll(w)
    PROVE  /\ tx' \in [Workers -> Transaction]
           /\ \A v \in Workers : tx'[v].pc # "idle" =>
                 tx'[v].user \in Users /\ tx'[v].code \in Codes
<1>1. Closed \in Transaction /\ Closed.pc = "idle"
  BY DEF Closed, Request, Transaction
<1> QED
  BY <1>1 DEF TypeOK, Roll

\* A statement that only changes the open transaction of w, to another one.
LEMMA MoveType ==
    ASSUME TypeOK, NEW w \in Workers, NEW t \in Transaction,
           tx' = [tx EXCEPT ![w] = t], t.user \in Users, t.code \in Codes,
           UNCHANGED <<today, promoVars, subVars>>
    PROVE  TypeOK'
BY DEF TypeOK, promoVars, subVars

\* An open transaction, its user and its code.
LEMMA OpenTx ==
    ASSUME TypeOK, NEW w \in Workers, tx[w].pc # "idle"
    PROVE  /\ tx[w] \in Transaction /\ tx[w].user \in Users /\ tx[w].code \in Codes
BY DEF TypeOK

\* Every step keeps the types.
LEMMA TypeStep == TypeOK /\ [Next]_vars => TypeOK'
<1> SUFFICES ASSUME TypeOK, [Next]_vars PROVE TypeOK'
  OBVIOUS
<1> USE PromoAssumption
<1>1. ASSUME NEW w \in Workers, NEW u \in Users, NEW c \in Codes, Begin(w, u, c) PROVE TypeOK'
  <2>1. /\ Request("check", u, c) \in Transaction
        /\ Request("check", u, c).user \in Users /\ Request("check", u, c).code \in Codes
    BY DEF Transaction, Request
  <2>2. /\ UNCHANGED <<today, promoVars, subVars>>
        /\ tx' = [tx EXCEPT ![w] = Request("check", u, c)]
    BY <1>1 DEF Begin
  <2> QED
    BY <2>1, <2>2, MoveType
<1>2. ASSUME NEW w \in Workers, CheckUsed(w) PROVE TypeOK'
  <2>1. CASE Roll(w)
    BY <1>2, <2>1, RollType DEF CheckUsed, TypeOK, promoVars, subVars
  <2>2. CASE ~Roll(w)
    <3>1. /\ tx[w].pc # "idle" /\ UNCHANGED <<today, promoVars, subVars>>
          /\ tx' = [tx EXCEPT ![w] = [tx[w] EXCEPT !.pc = "increment"]]
      BY <1>2, <2>2 DEF CheckUsed
    <3>2. /\ [tx[w] EXCEPT !.pc = "increment"] \in Transaction
          /\ [tx[w] EXCEPT !.pc = "increment"].user \in Users
          /\ [tx[w] EXCEPT !.pc = "increment"].code \in Codes
      BY <3>1, OpenTx DEF Transaction
    <3> QED BY <3>1, <3>2, MoveType
  <2> QED BY <2>1, <2>2
<1>3. ASSUME NEW w \in Workers, Increment(w) PROVE TypeOK'
  <2> DEFINE n == NextCount(tx[w].code)
  <2>1. n \in Nat
    BY <1>3 DEF NextCount, TypeOK, Increment
  <2>2. /\ tx[w].pc # "idle" /\ UNCHANGED <<today, promoVars, subVars>>
        /\ tx' = [tx EXCEPT ![w] = [tx[w] EXCEPT !.pc = "record", !.count = n]]
    BY <1>3 DEF Increment
  <2>3. /\ [tx[w] EXCEPT !.pc = "record", !.count = n] \in Transaction
        /\ [tx[w] EXCEPT !.pc = "record", !.count = n].user \in Users
        /\ [tx[w] EXCEPT !.pc = "record", !.count = n].code \in Codes
    <3> HIDE DEF n
    <3> QED BY <2>1, <2>2, OpenTx DEF Transaction
  <2> QED BY <2>2, <2>3, MoveType
<1>4. ASSUME NEW w \in Workers, Record(w) PROVE TypeOK'
  <2>1. CASE Roll(w)
    BY <1>4, <2>1, RollType DEF Record, TypeOK, promoVars, subVars
  <2>2. CASE ~Roll(w)
    <3>1. /\ tx[w].pc # "idle" /\ UNCHANGED <<today, promoVars, subVars>>
          /\ tx' = [tx EXCEPT ![w] = [tx[w] EXCEPT !.pc = "find"]]
      BY <1>4, <2>2 DEF Record
    <3>2. /\ [tx[w] EXCEPT !.pc = "find"] \in Transaction
          /\ [tx[w] EXCEPT !.pc = "find"].user \in Users
          /\ [tx[w] EXCEPT !.pc = "find"].code \in Codes
      BY <3>1, OpenTx DEF Transaction
    <3> QED BY <3>1, <3>2, MoveType
  <2> QED BY <2>1, <2>2
<1>5. ASSUME NEW w \in Workers, FindSub(w) PROVE TypeOK'
  <2>0. /\ tx[w].pc # "idle" /\ UNCHANGED <<today, promoVars, subVars>>
        /\ today \in Int /\ \A r \in Current(tx[w].user) : r.expires \in Int
    <3>1. tx[w].pc # "idle" /\ UNCHANGED <<today, promoVars, subVars>>
      BY <1>5 DEF FindSub
    <3>2. today \in Int
      BY DEF TypeOK
    <3>3. \A r \in active : r.expires \in Int
      BY DEF TypeOK, Row
    <3> QED BY <3>1, <3>2, <3>3 DEF Current
  <2>1. Days[tx[w].code] \in Int
    BY <2>0, OpenTx
  <2>2. CASE Roll(w)
    BY <1>5, <2>2, RollType DEF FindSub, TypeOK, promoVars, subVars
  <2>3. ASSUME NEW n \in Int,
               tx' = [tx EXCEPT ![w] = [tx[w] EXCEPT !.pc = "extend", !.expires = n]]
        PROVE  TypeOK'
    <3>1. /\ [tx[w] EXCEPT !.pc = "extend", !.expires = n] \in Transaction
          /\ [tx[w] EXCEPT !.pc = "extend", !.expires = n].user \in Users
          /\ [tx[w] EXCEPT !.pc = "extend", !.expires = n].code \in Codes
      BY <2>0, OpenTx DEF Transaction
    <3> QED BY <2>0, <2>3, <3>1, MoveType
  <2>4. ASSUME NEW n \in Int,
               tx' = [tx EXCEPT ![w] = [tx[w] EXCEPT !.pc = "commit", !.insert = "yes",
                                                     !.expires = n]]
        PROVE  TypeOK'
    <3>1. /\ [tx[w] EXCEPT !.pc = "commit", !.insert = "yes", !.expires = n] \in Transaction
          /\ [tx[w] EXCEPT !.pc = "commit", !.insert = "yes", !.expires = n].user \in Users
          /\ [tx[w] EXCEPT !.pc = "commit", !.insert = "yes", !.expires = n].code \in Codes
      BY <2>0, OpenTx DEF Transaction
    <3> QED BY <2>0, <2>4, <3>1, MoveType
  <2>5. \/ Roll(w)
        \/ \E n \in Int : tx' = [tx EXCEPT ![w] = [tx[w] EXCEPT !.pc = "extend", !.expires = n]]
        \/ \E n \in Int : tx' = [tx EXCEPT ![w] = [tx[w] EXCEPT !.pc = "commit", !.insert = "yes",
                                                             !.expires = n]]
    <3>1. \A r \in Current(tx[w].user) : r.expires + Days[tx[w].code] \in Int
      BY <2>0, <2>1
    <3>2. today + Days[tx[w].code] \in Int
      BY <2>0, <2>1
    <3> QED BY <1>5, <3>1, <3>2 DEF FindSub
  <2> QED BY <2>2, <2>3, <2>4, <2>5
<1>6. ASSUME NEW w \in Workers, Extend(w) PROVE TypeOK'
  <2> DEFINE S == {r \in active : r.user = tx[w].user}
  <2>1. S \subseteq Row
    BY DEF TypeOK
  <2>2. /\ tx[w].pc # "idle" /\ UNCHANGED <<today, promoVars, subVars>>
        /\ tx' = [tx EXCEPT ![w] = [tx[w] EXCEPT !.pc = "commit", !.rows = S]]
    BY <1>6 DEF Extend
  <2>3. /\ [tx[w] EXCEPT !.pc = "commit", !.rows = S] \in Transaction
        /\ [tx[w] EXCEPT !.pc = "commit", !.rows = S].user \in Users
        /\ [tx[w] EXCEPT !.pc = "commit", !.rows = S].code \in Codes
    <3> HIDE DEF S
    <3> QED BY <2>1, <2>2, OpenTx DEF Transaction
  <2> QED BY <2>2, <2>3, MoveType
<1>7. ASSUME NEW w \in Workers, Commit(w) PROVE TypeOK'
  <2>1. /\ tx[w] \in Transaction /\ tx[w].user \in Users /\ tx[w].code \in Codes
        /\ tx[w].count \in Nat /\ tx[w].rows \subseteq Row /\ tx[w].expires \in Int
    BY <1>7 DEF Commit, TypeOK, Transaction
  <2>2. Written(tx[w]) \subseteq Row
    BY <2>1 DEF Written, Row
  <2>3. Roll(w)
    BY <1>7 DEF Commit
  <2>4. used' \in [Codes -> Nat] /\ usages' \subseteq Users \X Codes /\ active' \subseteq Row
    BY <1>7, <2>1, <2>2 DEF Commit, TypeOK
  <2>5. redeemed' \in [Codes -> [Users -> Nat]]
    BY <1>7, <2>1 DEF Commit, TypeOK
  <2> QED
    BY <1>7, <2>3, <2>4, <2>5, RollType DEF Commit, TypeOK
<1>8. ASSUME NEW w \in Workers, Rollback(w) PROVE TypeOK'
  BY <1>8, RollType DEF Rollback, TypeOK, promoVars, subVars
<1>9. ASSUME NEW c \in Codes, CreateCode(c) \/ DeleteCode(c) PROVE TypeOK'
  <2>1. CASE CreateCode(c)
    BY <2>1 DEF CreateCode, TypeOK, subVars
  <2>2. CASE DeleteCode(c)
    <3>1. /\ code' \in [Codes -> {"new", "active", "deleted"}]
          /\ used' \in [Codes -> Nat] /\ usages' \subseteq Users \X Codes
      BY <2>2 DEF DeleteCode, TypeOK
    <3> QED BY <2>2, <3>1 DEF DeleteCode, TypeOK, subVars
  <2> QED BY <1>9, <2>1, <2>2
<1>10. ASSUME NEW u \in Users, CreatePayment(u) PROVE TypeOK'
  BY <1>10 DEF CreatePayment, TypeOK, promoVars
<1>11. ASSUME NEW x \in pending, Activate(x) PROVE TypeOK'
  BY <1>11 DEF Activate, TypeOK, Row, promoVars
<1>12. CASE Tick
  BY <1>12 DEF Tick, TypeOK, promoVars, subVars
<1>13. CASE UNCHANGED vars
  BY <1>13 DEF vars, TypeOK, promoVars, subVars
<1> QED
  BY <1>1, <1>2, <1>3, <1>4, <1>5, <1>6, <1>7, <1>8, <1>9, <1>10, <1>11, <1>12, <1>13
     DEF Next, Statement

\* Type correctness of the tables and of the open transactions.
THEOREM TypeCorrect == Spec => []TypeOK
BY TypeInit, TypeStep, PTL DEF Spec
-----------------------------------------------------------------------------
(* Counting *)

\* Sets of requests are finite, and no larger than the set of them all.
LEMMA SomeWorkers ==
    /\ Cardinality(Workers) \in Nat
    /\ \A S \in SUBSET Workers : /\ IsFiniteSet(S) /\ Cardinality(S) \in Nat
                                 /\ Cardinality(S) <= Cardinality(Workers)
BY PromoAssumption, FS_Subset, FS_CardinalityType

\* So are sets of users.
LEMMA SomeUsers ==
    \A S \in SUBSET Users : IsFiniteSet(S) /\ Cardinality(S) \in Nat
BY PromoAssumption, FS_Subset, FS_CardinalityType

\* Fewer requests in flight reserve less.
LEMMA FewerInFlight ==
    ASSUME TypeOK, Reserved, UNCHANGED used,
           NEW c \in Codes, InFlight(c)' \subseteq InFlight(c)
    PROVE  (used[c] > 0 \/ InFlight(c) # {} =>
              used[c] + Cardinality(InFlight(c)) < MaxUses[c] + Cardinality(Workers))'
<1>1. /\ IsFiniteSet(InFlight(c)) /\ Cardinality(InFlight(c)) \in Nat
      /\ Cardinality(InFlight(c)') \in Nat /\ Cardinality(Workers) \in Nat
  BY SomeWorkers DEF InFlight
<1>2. Cardinality(InFlight(c)') <= Cardinality(InFlight(c))
  BY <1>1, FS_Subset
<1>3. used[c] \in Nat /\ MaxUses[c] \in Int
  BY PromoAssumption DEF TypeOK
<1> QED
  BY <1>1, <1>2, <1>3 DEF Reserved

-----------------------------------------------------------------------------
(* Safety *)

\* Everything but the types.
Safe == /\ UsedMatchesUsages /\ OnceEach /\ RowLock /\ Recorded /\ NamesACode
        /\ RedeemedMatches /\ IdleClosed /\ Reserved

\* The initial state is safe.
LEMMA SafeInit == Init => Safe
<1> SUFFICES ASSUME Init PROVE Safe
  OBVIOUS
<1>1. UsedMatchesUsages
  BY FS_EmptySet DEF Init, UsedMatchesUsages, UsersOf
<1>2. Closed.pc = "idle" /\ Closed.count = 0 /\ Closed.code = NoCode
  BY DEF Closed, Request
<1>3. \A w \in Workers : tx[w] = Closed
  BY DEF Init
<1>4. RowLock /\ Recorded /\ NamesACode /\ IdleClosed
  BY <1>2, <1>3 DEF RowLock, Recorded, NamesACode, IdleClosed, Holds
<1>5. Reserved
  BY <1>2, <1>3, PromoAssumption DEF Init, Reserved, InFlight
<1>6. OnceEach /\ RedeemedMatches
  BY DEF Init, OnceEach, RedeemedMatches
<1> QED BY <1>1, <1>4, <1>5, <1>6 DEF Safe

\* A rollback, or any end of w that leaves the tables of codes alone.
LEMMA RollSafe ==
    ASSUME IInv, NEW w \in Workers, Roll(w), UNCHANGED promoVars
    PROVE  Safe'
<1>1. Closed.pc = "idle" /\ Closed.count = 0 /\ Closed.code = NoCode
  BY DEF Closed, Request
<1>2. \A v \in Workers : tx'[v] = IF v = w THEN Closed ELSE tx[v]
  BY DEF IInv, TypeOK, Roll
<1>3. UsedMatchesUsages' /\ OnceEach' /\ RedeemedMatches'
  BY DEF IInv, UsedMatchesUsages, UsersOf, OnceEach, RedeemedMatches, promoVars
<1>4. RowLock' /\ Recorded' /\ NamesACode' /\ IdleClosed'
  BY <1>1, <1>2 DEF IInv, RowLock, Recorded, NamesACode, IdleClosed, Holds, promoVars
<1>5. \A c \in Codes : InFlight(c)' \subseteq InFlight(c)
  BY <1>1, <1>2, PromoAssumption DEF InFlight
<1>6. Reserved'
  BY <1>5, FewerInFlight DEF IInv, Reserved, promoVars
<1> QED BY <1>3, <1>4, <1>6 DEF Safe

\* A statement of w that leaves the tables of codes and the row it holds alone.
LEMMA MoveSafe ==
    ASSUME IInv, NEW w \in Workers, UNCHANGED promoVars,
           \A v \in Workers : v # w => tx'[v] = tx[v],
           tx[w].pc # "idle", tx'[w].pc # "idle",
           tx'[w].user = tx[w].user, tx'[w].code = tx[w].code, tx'[w].count = tx[w].count,
           tx'[w].pc # "record",
           tx[w].count # 0 => tx'[w].pc \in {"find", "extend", "commit"},
           tx'[w].pc \in {"find", "extend", "commit"} =>
              tx[w].count # 0 /\ <<tx[w].user, tx[w].code>> \notin usages
    PROVE  Safe'
<1>1. UsedMatchesUsages' /\ OnceEach' /\ RedeemedMatches'
  BY DEF IInv, UsedMatchesUsages, UsersOf, OnceEach, RedeemedMatches, promoVars
<1>2. \A c \in Codes, v \in Workers : Holds(v, c)' = Holds(v, c)
  BY DEF Holds
<1>3. RowLock'
  BY <1>2 DEF IInv, RowLock, promoVars
<1>4. Recorded' /\ NamesACode' /\ IdleClosed'
  BY DEF IInv, Recorded, NamesACode, IdleClosed, promoVars
<1>5. \A c \in Codes : InFlight(c)' \subseteq InFlight(c)
  BY DEF InFlight
<1>6. Reserved'
  BY <1>5, FewerInFlight DEF IInv, Reserved, promoVars
<1> QED BY <1>1, <1>3, <1>4, <1>6 DEF Safe

\* A step around the transactions that leaves the tables of codes alone.
LEMMA QuietSafe ==
    ASSUME IInv, UNCHANGED <<promoVars, tx>>
    PROVE  Safe'
BY DEF IInv, Safe, UsedMatchesUsages, UsersOf, OnceEach, RowLock, Holds, Recorded, NamesACode,
       RedeemedMatches, IdleClosed, Reserved, InFlight, promoVars

\* A new transaction: the limit was just checked, and w itself was idle.
LEMMA BeginSafe ==
    ASSUME IInv, NEW w \in Workers, NEW u \in Users, NEW c \in Codes, Begin(w, u, c)
    PROVE  Safe'
<1> DEFINE t == Request("check", u, c)
<1>1. t.pc = "check" /\ t.count = 0 /\ t.code = c /\ t.user = u
  BY DEF Request
<1>2. \A v \in Workers : tx'[v] = IF v = w THEN t ELSE tx[v]
  BY DEF IInv, TypeOK, Begin
<1>3. UNCHANGED promoVars /\ code[c] = "active" /\ tx[w].pc = "idle"
  BY DEF Begin
<1> HIDE DEF t
<1>4. UsedMatchesUsages' /\ OnceEach' /\ RedeemedMatches'
  BY <1>3 DEF IInv, UsedMatchesUsages, UsersOf, OnceEach, RedeemedMatches, promoVars
<1>5. RowLock' /\ Recorded' /\ NamesACode' /\ IdleClosed'
  BY <1>1, <1>2, <1>3
     DEF IInv, RowLock, Recorded, NamesACode, IdleClosed, Holds, promoVars
<1>6. ASSUME NEW d \in Codes
      PROVE  (used[d] > 0 \/ InFlight(d) # {} =>
                 used[d] + Cardinality(InFlight(d)) < MaxUses[d] + Cardinality(Workers))'
  <2>1. CASE d = c
    <3>1. used[c] < MaxUses[c] /\ used[c] \in Nat /\ MaxUses[c] \in Int
      BY PromoAssumption DEF Begin, IInv, TypeOK
    <3>2. /\ Cardinality(InFlight(c)') <= Cardinality(Workers)
          /\ Cardinality(InFlight(c)') \in Nat /\ Cardinality(Workers) \in Nat
      BY SomeWorkers DEF InFlight
    <3> QED BY <1>3, <2>1, <3>1, <3>2 DEF promoVars
  <2>2. CASE d # c
    <3>1. InFlight(d)' \subseteq InFlight(d)
      BY <1>1, <1>2, <2>2 DEF InFlight
    <3> QED BY <1>3, <3>1, FewerInFlight DEF IInv, promoVars
  <2> QED BY <2>1, <2>2
<1>7. Reserved'
  BY <1>6 DEF Reserved
<1> QED BY <1>4, <1>5, <1>7 DEF Safe

\* IncrementUsage takes the row when nobody has it.
LEMMA IncrementSafe ==
    ASSUME IInv, NEW w \in Workers, Increment(w)
    PROVE  Safe'
<1> DEFINE n == NextCount(tx[w].code)
           t == [tx[w] EXCEPT !.pc = "record", !.count = n]
<1>1. /\ tx[w].pc = "increment" /\ RowFree(tx[w].code) /\ UNCHANGED promoVars
      /\ tx[w].code \in Codes
  BY OpenTx DEF Increment, IInv
<1>2. t.pc = "record" /\ t.count = n /\ t.code = tx[w].code /\ t.user = tx[w].user
  BY <1>1, OpenTx DEF IInv, Transaction
<1>3. \A v \in Workers : tx'[v] = IF v = w THEN t ELSE tx[v]
  BY DEF IInv, TypeOK, Increment
<1>4. n # 0 => code[tx[w].code] = "active" /\ n = used[tx[w].code] + 1
  BY DEF NextCount
<1>5. n = 0 => code[tx[w].code] = "deleted"
  BY <1>1 DEF NextCount, IInv, TypeOK, NamesACode
<1> HIDE DEF n, t
<1>6. UsedMatchesUsages' /\ OnceEach' /\ RedeemedMatches'
  BY <1>1 DEF IInv, UsedMatchesUsages, UsersOf, OnceEach, RedeemedMatches, promoVars
<1>7. RowLock'
  <2>1. \A c \in Codes : \A v, x \in Workers : (Holds(v, c) /\ Holds(x, c) => v = x)'
    BY <1>1, <1>2, <1>3 DEF IInv, RowLock, Holds, RowFree
  <2>2. \A v \in Workers : (tx[v].count # 0 =>
            /\ tx[v].pc \in {"record", "find", "extend", "commit"}
            /\ code[tx[v].code] = "active"
            /\ tx[v].count = used[tx[v].code] + 1)'
    BY <1>1, <1>2, <1>3, <1>4 DEF IInv, RowLock, promoVars
  <2> QED BY <2>1, <2>2 DEF RowLock
<1>8. Recorded' /\ NamesACode' /\ IdleClosed'
  BY <1>1, <1>2, <1>3, <1>5 DEF IInv, Recorded, NamesACode, IdleClosed, promoVars
<1>9. \A c \in Codes : InFlight(c)' \subseteq InFlight(c)
  BY <1>2, <1>3 DEF InFlight
<1>10. Reserved'
  BY <1>1, <1>9, FewerInFlight DEF IInv, Reserved, promoVars
<1> QED BY <1>6, <1>7, <1>8, <1>10 DEF Safe

\* Commit publishes the count and the usage together; w held the row, so the
\* count is still one more than the committed one.
LEMMA CommitSafe ==
    ASSUME IInv, NEW w \in Workers, Commit(w)
    PROVE  Safe'
<1> DEFINE c == tx[w].code
           u == tx[w].user
<1>1. /\ tx[w].pc = "commit" /\ c \in Codes /\ u \in Users
      /\ tx[w].count = used[c] + 1 /\ code[c] = "active" /\ <<u, c>> \notin usages
      /\ Holds(w, c)
  <2>1. tx[w].pc = "commit" /\ c \in Codes /\ u \in Users
    BY OpenTx DEF Commit, IInv
  <2>2. tx[w].count # 0 /\ <<u, c>> \notin usages
    BY <2>1 DEF IInv, Recorded
  <2> QED BY <2>1, <2>2 DEF IInv, RowLock, Holds
<1>2. /\ code' = code /\ usages' = usages \cup {<<u, c>>}
      /\ \A d \in Codes : used'[d] = IF d = c THEN used[c] + 1 ELSE used[d]
      /\ \A d \in Codes, x \in Users :
            redeemed'[d][x] = IF d = c /\ x = u THEN redeemed[c][u] + 1 ELSE redeemed[d][x]
  BY <1>1 DEF Commit, IInv, TypeOK
<1>3. Closed.pc = "idle" /\ Closed.count = 0 /\ Closed.code = NoCode
  BY DEF Closed, Request
<1>4. \A v \in Workers : tx'[v] = IF v = w THEN Closed ELSE tx[v]
  BY DEF IInv, TypeOK, Commit, Roll
<1>5. \A d \in Codes : used[d] \in Nat /\ MaxUses[d] \in Int
  BY PromoAssumption DEF IInv, TypeOK
<1>6. \A v \in Workers : v # w => ~Holds(v, c)
  BY <1>1 DEF IInv, RowLock
<1> HIDE DEF c, u
<1>7. ASSUME NEW d \in Codes
      PROVE  used'[d] = Cardinality(UsersOf(d)')
  <2>1. CASE d = c
    <3>1. UsersOf(d)' = UsersOf(d) \cup {u} /\ u \notin UsersOf(d) /\ IsFiniteSet(UsersOf(d))
      BY <1>1, <1>2, <2>1, SomeUsers DEF UsersOf
    <3>2. Cardinality(UsersOf(d)') = Cardinality(UsersOf(d)) + 1
      BY <3>1, FS_AddElement
    <3> QED BY <1>1, <1>2, <2>1, <3>2 DEF IInv, UsedMatchesUsages
  <2>2. CASE d # c
    <3>1. UsersOf(d)' = UsersOf(d)
      BY <1>2, <2>2 DEF UsersOf
    <3> QED BY <1>2, <2>2, <3>1 DEF IInv, UsedMatchesUsages
  <2> QED BY <2>1, <2>2
<1>8. OnceEach' /\ RedeemedMatches'
  <2>1. redeemed[c][u] = 0
    BY <1>1 DEF IInv, RedeemedMatches
  <2>2. OnceEach'
    BY <1>2, <2>1 DEF IInv, OnceEach
  <2>3. RedeemedMatches'
    BY <1>1, <1>2 DEF IInv, RedeemedMatches
  <2> QED BY <2>2, <2>3
<1>9. RowLock'
  <2>1. \A d \in Codes : \A v, x \in Workers : (Holds(v, d) /\ Holds(x, d) => v = x)'
    BY <1>3, <1>4 DEF IInv, RowLock, Holds
  <2>2. ASSUME NEW v \in Workers, tx'[v].count # 0
        PROVE  /\ tx'[v].pc \in {"record", "find", "extend", "commit"}
               /\ code'[tx'[v].code] = "active"
               /\ tx'[v].count = used'[tx'[v].code] + 1
    <3>1. v # w /\ tx'[v] = tx[v]
      BY <1>3, <1>4, <2>2
    <3>2. tx[v].code # c /\ tx[v].code \in Codes
      BY <1>3, <1>6, <2>2, <3>1 DEF IInv, TypeOK, IdleClosed, Holds
    <3> QED BY <1>2, <2>2, <3>1, <3>2 DEF IInv, RowLock
  <2> QED BY <2>1, <2>2 DEF RowLock
<1>10. ASSUME NEW v \in Workers, tx'[v].pc \in {"find", "extend", "commit"}
       PROVE  tx'[v].count # 0 /\ <<tx'[v].user, tx'[v].code>> \notin usages'
  <2>1. v # w /\ tx'[v] = tx[v]
    BY <1>3, <1>4, <1>10
  <2>2. tx[v].count # 0 /\ <<tx[v].user, tx[v].code>> \notin usages
    BY <1>10, <2>1 DEF IInv, Recorded
  <2>3. tx[v].code # c
    BY <1>6, <2>1, <2>2 DEF Holds
  <2> QED BY <1>2, <2>1, <2>2, <2>3
<1>11. NamesACode' /\ IdleClosed'
  BY <1>2, <1>3, <1>4 DEF IInv, NamesACode, IdleClosed
<1>12. ASSUME NEW d \in Codes
       PROVE  (used[d] > 0 \/ InFlight(d) # {} =>
                  used[d] + Cardinality(InFlight(d)) < MaxUses[d] + Cardinality(Workers))'
  <2>1. InFlight(d)' = InFlight(d) \ {w}
    <3>1. d # NoCode
      BY PromoAssumption
    <3> QED BY <1>3, <1>4, <3>1 DEF InFlight
  <2>2. /\ IsFiniteSet(InFlight(d)) /\ Cardinality(InFlight(d)) \in Nat
        /\ Cardinality(InFlight(d)') \in Nat /\ Cardinality(Workers) \in Nat
    BY SomeWorkers DEF InFlight
  <2>3. CASE d = c
    <3>1. w \in InFlight(d)
      BY <2>3 DEF InFlight, c
    <3>2. Cardinality(InFlight(d)') = Cardinality(InFlight(d)) - 1
      BY <2>1, <2>2, <3>1, FS_RemoveElement
    <3>3. used[d] + Cardinality(InFlight(d)) < MaxUses[d] + Cardinality(Workers)
      BY <3>1 DEF IInv, Reserved
    <3>4. used'[d] = used[d] + 1
      BY <1>2, <2>3
    <3> QED BY <1>5, <2>2, <3>2, <3>3, <3>4
  <2>4. CASE d # c
    <3>1. Cardinality(InFlight(d)') <= Cardinality(InFlight(d))
      BY <2>1, <2>2, FS_Subset
    <3>2. used'[d] = used[d]
      BY <1>2, <2>4
    <3> QED BY <1>5, <2>1, <2>2, <3>1, <3>2 DEF IInv, Reserved
  <2> QED BY <2>3, <2>4
<1> QED
  BY <1>7, <1>8, <1>9, <1>10, <1>11, <1>12 DEF Safe, UsedMatchesUsages, Recorded, Reserved

\* A code is created, or deleted with its usages while nobody holds its row.
LEMMA CodeSafe ==
    ASSUME IInv, NEW c \in Codes, CreateCode(c) \/ DeleteCode(c)
    PROVE  Safe'
<1>1. CASE CreateCode(c)
  <2>1. /\ UNCHANGED <<used, usages, redeemed, tx>> /\ code[c] = "new"
        /\ \A d \in Codes : code'[d] = IF d = c THEN "active" ELSE code[d]
    BY <1>1 DEF CreateCode, IInv, TypeOK
  <2>2. UsedMatchesUsages' /\ OnceEach' /\ IdleClosed' /\ Recorded' /\ Reserved'
    BY <2>1 DEF IInv, UsedMatchesUsages, UsersOf, OnceEach, IdleClosed, Recorded, Reserved, InFlight
  <2>3. RedeemedMatches'
    BY <2>1 DEF IInv, RedeemedMatches
  <2>4. \A w \in Workers : tx[w].pc # "idle" => tx[w].code \in Codes /\ tx[w].code # c
    BY <2>1 DEF IInv, TypeOK, NamesACode
  <2>5. \A w \in Workers : tx[w].count # 0 => tx[w].pc # "idle"
    BY DEF IInv, RowLock
  <2>6. RowLock' /\ NamesACode'
    BY <2>1, <2>4, <2>5 DEF IInv, RowLock, Holds, NamesACode
  <2> QED BY <2>2, <2>3, <2>6 DEF Safe
<1>2. CASE DeleteCode(c)
  <2>1. /\ UNCHANGED <<redeemed, tx>> /\ RowFree(c) /\ code[c] = "active"
        /\ usages' = {x \in usages : x[2] # c}
        /\ \A d \in Codes : /\ code'[d] = IF d = c THEN "deleted" ELSE code[d]
                           /\ used'[d] = IF d = c THEN 0 ELSE used[d]
    BY <1>2 DEF DeleteCode, IInv, TypeOK
  <2>2. \A d \in Codes : UsersOf(d)' = IF d = c THEN {} ELSE UsersOf(d)
    BY <2>1 DEF UsersOf
  <2>3. UsedMatchesUsages'
    BY <2>1, <2>2, FS_EmptySet DEF IInv, UsedMatchesUsages
  <2>4. \A w \in Workers : tx[w].count # 0 => tx[w].code # c
    BY <2>1 DEF RowFree, Holds
  <2>5. \A w \in Workers : tx[w].count # 0 => tx[w].code \in Codes
    BY DEF IInv, RowLock, TypeOK
  <2>6. RowLock' /\ Recorded'
    BY <2>1, <2>4, <2>5 DEF IInv, RowLock, Recorded, Holds
  <2>7. NamesACode'
    <3>1. \A w \in Workers : tx[w].pc # "idle" => tx[w].code \in Codes
      BY DEF IInv, TypeOK
    <3> QED BY <2>1, <3>1 DEF IInv, NamesACode
  <2>8. OnceEach' /\ IdleClosed'
    BY <2>1 DEF IInv, OnceEach, IdleClosed
  <2>9. RedeemedMatches'
    BY <2>1 DEF IInv, RedeemedMatches
  <2>10. Reserved'
    <3>1. ASSUME NEW d \in Codes
          PROVE  (used[d] > 0 \/ InFlight(d) # {} =>
                     used[d] + Cardinality(InFlight(d)) < MaxUses[d] + Cardinality(Workers))'
      <4>1. /\ Cardinality(InFlight(d)) \in Nat /\ Cardinality(Workers) \in Nat
            /\ used[d] \in Nat /\ MaxUses[d] \in Int /\ InFlight(d)' = InFlight(d)
        BY <2>1, SomeWorkers, PromoAssumption DEF InFlight, IInv, TypeOK
      <4> QED BY <2>1, <4>1 DEF IInv, Reserved
    <3> QED BY <3>1 DEF Reserved
  <2> QED BY <2>3, <2>6, <2>7, <2>8, <2>9, <2>10 DEF Safe
<1> QED BY <1>1, <1>2

\* Every step keeps the inductive invariant.
LEMMA Inductive == IInv /\ [Next]_vars => IInv'
<1> SUFFICES ASSUME IInv, [Next]_vars PROVE Safe'
  BY TypeStep DEF IInv, Safe
<1>0. TypeOK
  BY DEF IInv
<1>1. ASSUME NEW w \in Workers, NEW u \in Users, NEW c \in Codes, Begin(w, u, c) PROVE Safe'
  BY <1>1, BeginSafe
<1>2. ASSUME NEW w \in Workers, CheckUsed(w) PROVE Safe'
  <2>1. CASE Roll(w)
    BY <1>2, <2>1, RollSafe DEF CheckUsed
  <2>2. CASE ~Roll(w)
    <3>1. /\ tx[w].pc = "check" /\ UNCHANGED promoVars
          /\ tx' = [tx EXCEPT ![w] = [tx[w] EXCEPT !.pc = "increment"]]
      BY <1>2, <2>2 DEF CheckUsed
    <3>2. tx[w].count = 0
      BY <3>1 DEF IInv, RowLock
    <3>3. /\ tx'[w].pc = "increment" /\ tx'[w].user = tx[w].user
          /\ tx'[w].code = tx[w].code /\ tx'[w].count = tx[w].count
          /\ \A v \in Workers : v # w => tx'[v] = tx[v]
      BY <1>0, <3>1, OpenTx DEF TypeOK, Transaction
    <3> QED BY <3>1, <3>2, <3>3, MoveSafe
  <2> QED BY <2>1, <2>2
<1>3. ASSUME NEW w \in Workers, Increment(w) PROVE Safe'
  BY <1>3, IncrementSafe
<1>4. ASSUME NEW w \in Workers, Record(w) PROVE Safe'
  <2>1. CASE Roll(w)
    BY <1>4, <2>1, RollSafe DEF Record
  <2>2. CASE ~Roll(w)
    <3>1. /\ tx[w].pc = "record" /\ UNCHANGED promoVars
          /\ code[tx[w].code] = "active" /\ <<tx[w].user, tx[w].code>> \notin usages
          /\ tx' = [tx EXCEPT ![w] = [tx[w] EXCEPT !.pc = "find"]]
      BY <1>4, <2>2 DEF Record
    <3>2. tx[w].count # 0
      BY <3>1 DEF IInv, NamesACode
    <3> QED BY <1>0, <3>1, <3>2, OpenTx, MoveSafe DEF TypeOK, Transaction
  <2> QED BY <2>1, <2>2
<1>5. ASSUME NEW w \in Workers, FindSub(w) PROVE Safe'
  <2>1. tx[w].pc = "find" /\ UNCHANGED promoVars
    BY <1>5 DEF FindSub
  <2>2. tx[w].count # 0 /\ <<tx[w].user, tx[w].code>> \notin usages
    BY <2>1 DEF IInv, Recorded
  <2>3. CASE Roll(w)
    BY <2>1, <2>3, RollSafe
  <2>4. ASSUME NEW n,
               tx' = [tx EXCEPT ![w] = [tx[w] EXCEPT !.pc = "extend", !.expires = n]]
        PROVE  Safe'
    BY <1>0, <2>1, <2>2, <2>4, OpenTx, MoveSafe DEF TypeOK, Transaction
  <2>5. ASSUME NEW n,
               tx' = [tx EXCEPT ![w] = [tx[w] EXCEPT !.pc = "commit", !.insert = "yes",
                                                     !.expires = n]]
        PROVE  Safe'
    BY <1>0, <2>1, <2>2, <2>5, OpenTx, MoveSafe DEF TypeOK, Transaction
  <2> QED BY <1>5, <2>3, <2>4, <2>5 DEF FindSub
<1>6. ASSUME NEW w \in Workers, Extend(w) PROVE Safe'
  <2> DEFINE S == {r \in active : r.user = tx[w].user}
  <2>1. /\ tx[w].pc = "extend" /\ UNCHANGED promoVars
        /\ tx' = [tx EXCEPT ![w] = [tx[w] EXCEPT !.pc = "commit", !.rows = S]]
    BY <1>6 DEF Extend
  <2> HIDE DEF S
  <2>2. tx[w].count # 0 /\ <<tx[w].user, tx[w].code>> \notin usages
    BY <2>1 DEF IInv, Recorded
  <2> QED BY <1>0, <2>1, <2>2, OpenTx, MoveSafe DEF TypeOK, Transaction
<1>7. ASSUME NEW w \in Workers, Commit(w) PROVE Safe'
  BY <1>7, CommitSafe
<1>8. ASSUME NEW w \in Workers, Rollback(w) PROVE Safe'
  BY <1>8, RollSafe DEF Rollback
<1>9. ASSUME NEW c \in Codes, CreateCode(c) \/ DeleteCode(c) PROVE Safe'
  BY <1>9, CodeSafe
<1>10. CASE UNCHANGED <<promoVars, tx>>
  BY <1>10, QuietSafe
<1>11. \/ UNCHANGED <<promoVars, tx>>
       \/ \E w \in Workers, u \in Users, c \in Codes : Begin(w, u, c)
       \/ \E w \in Workers : Statement(w) \/ Rollback(w)
       \/ \E c \in Codes : CreateCode(c) \/ DeleteCode(c)
  <2>1. ASSUME NEW u \in Users, CreatePayment(u) PROVE UNCHANGED <<promoVars, tx>>
    BY <2>1 DEF CreatePayment
  <2>2. ASSUME NEW x \in pending, Activate(x) PROVE UNCHANGED <<promoVars, tx>>
    BY <2>2 DEF Activate
  <2>3. CASE Tick
    BY <2>3 DEF Tick
  <2>4. CASE UNCHANGED vars
    BY <2>4 DEF vars
  <2> QED BY <2>1, <2>2, <2>3, <2>4 DEF Next
<1> QED
  BY <1>1, <1>2, <1>3, <1>4, <1>5, <1>6, <1>7, <1>8, <1>9, <1>10, <1>11 DEF Statement

\* The inductive invariant holds in every state.
LEMMA Invariance == Spec => []IInv
<1>1. Init => IInv
  BY TypeInit, SafeInit DEF IInv, Safe
<1> QED BY <1>1, Inductive, PTL DEF Spec

\* used_count and promo_code_usages agree in every state.
THEOREM CounterIsExact == Spec => []UsedMatchesUsages
<1>1. IInv => UsedMatchesUsages
  BY DEF IInv
<1> QED BY <1>1, Invariance, PTL

\* Nobody redeems a code twice, not even with two requests at once.
THEOREM RedeemedOnce == Spec => []OnceEach
<1>1. IInv => OnceEach
  BY DEF IInv
<1> QED BY <1>1, Invariance, PTL

\* A code is used at most as often as allowed and once more for each further
\* request that may run at the same time.
THEOREM OvershootIsBounded == Spec => []Overshoot
<1>1. ASSUME IInv PROVE Overshoot
  <2>1. ASSUME NEW c \in Codes, used[c] > 0
        PROVE  used[c] < MaxUses[c] + Cardinality(Workers)
    <3>1. used[c] + Cardinality(InFlight(c)) < MaxUses[c] + Cardinality(Workers)
      BY <1>1, <2>1 DEF IInv, Reserved
    <3>2. /\ Cardinality(InFlight(c)) \in Nat /\ Cardinality(Workers) \in Nat
          /\ used[c] \in Nat /\ MaxUses[c] \in Int
      BY <1>1, SomeWorkers, PromoAssumption DEF InFlight, IInv, TypeOK
    <3> QED BY <3>1, <3>2
  <2> QED BY <2>1 DEF Overshoot
<1> QED BY <1>1, Invariance, PTL
=============================================================================
