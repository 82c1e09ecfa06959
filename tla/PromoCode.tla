----------------------------- MODULE PromoCode -----------------------------
(***************************************************************************)
(* Redeeming a promo code: concurrent ApplyPromoCode requests, each one a  *)
(* READ COMMITTED transaction of one SQL statement per action, over the    *)
(* tables promo_codes, promo_code_usages and subscriptions, with payments, *)
(* the deletion of codes and the passing of days around them.              *)
(*                                                                         *)
(* A transaction keeps what it wrote to itself until it commits, and keeps *)
(* the rows it updated locked.  Time is counted in days.  Rows of          *)
(* subscriptions with equal contents are one.  The administrator check, the*)
(* text of a code and the payment provider are left out.                   *)
(***************************************************************************)
EXTENDS Integers, FiniteSets

CONSTANTS
    Codes, Users,
    Workers,       \* ApplyPromoCode requests that may run together
    NoCode, NoUser,
    MaxUses,       \* MaxUses[c]: max_uses, any integer the administrator typed
    Days,          \* Days[c]: days_duration
    CodeExpires,   \* CodeExpires[c]: the last day code c is accepted
    PayDays,       \* what a payment buys
    MaxToday,      \* bound on the days of a behaviour
    MaxPayments    \* bound on the payments of a behaviour

ASSUME PromoAssumption ==
    /\ IsFiniteSet(Users) /\ IsFiniteSet(Workers)
    /\ MaxUses \in [Codes -> Int] /\ Days \in [Codes -> Int] /\ CodeExpires \in [Codes -> Nat]
    /\ PayDays \in Nat /\ MaxToday \in Nat /\ MaxPayments \in Nat
    /\ NoCode \notin Codes /\ NoUser \notin Users

VARIABLES
    today,
    code,      \* code[c]: "new", "active" or "deleted"
    used,      \* used_count of the row of c
    usages,    \* rows <<user, code>> of promo_code_usages
    pending,   \* rows <<user, expires>> with status 'pending', all paid for
    active,    \* rows of subscriptions with status 'active'
    payments,  \* CreatePayment calls so far
    tx,        \* tx[w]: the transaction of worker w
    redeemed   \* redeemed[c][u]: redemptions of c by u that committed

promoVars == <<code, used, usages, redeemed>>
subVars == <<pending, active, payments>>
vars == <<today, promoVars, subVars, tx>>

\* A row of subscriptions; unpaid: crypto_tx_id is NULL.
Row == [user : Users, paid : {"paid", "unpaid"}, expires : Int]

\* count: the used_count written to the code's row; rows: the subscriptions it
\* updates, insert: whether it inserts one, expires: the date they get.
Request(at, u, c) == [pc |-> at, user |-> u, code |-> c, count |-> 0,
                      rows |-> {}, insert |-> "no", expires |-> 0]
Closed == Request("idle", NoUser, NoCode)

Init ==
    /\ today = 0
    /\ code = [c \in Codes |-> "new"] /\ used = [c \in Codes |-> 0] /\ usages = {}
    /\ pending = {} /\ active = {} /\ payments = 0
    /\ tx = [w \in Workers |-> Closed]
    /\ redeemed = [c \in Codes |-> [u \in Users |-> 0]]

\* w has not committed its update of the row of c, which stays locked.
Holds(w, c) == tx[w].code = c /\ tx[w].count # 0
RowFree(c) == \A w \in Workers : ~Holds(w, c)

\* Mutation: the request is not over after the rollback.
RollStaysOpen(w) == tx' = [tx EXCEPT ![w] = [Closed EXCEPT !.pc = tx[w].pc]]

\* The transaction of w is over, and with it the request.
Roll(w) == tx' = [tx EXCEPT ![w] = Closed]

-----------------------------------------------------------------------------
(* ApplyPromoCode *)

\* Mutation: the limit itself is still accepted.
BeginAtLimit(w, u, c) ==
    /\ tx[w].pc = "idle"
    /\ code[c] = "active" /\ today <= CodeExpires[c]
    /\ used[c] <= MaxUses[c]
    /\ tx' = [tx EXCEPT ![w] = Request("check", u, c)]
    /\ UNCHANGED <<today, promoVars, subVars>>

\* GetByCode in a new transaction, and the two checks on what it returned.  A
\* code that fails them is rolled back with nothing done.
Begin(w, u, c) ==
    /\ tx[w].pc = "idle"
    /\ code[c] = "active" /\ today <= CodeExpires[c]
    /\ used[c] < MaxUses[c]
    /\ tx' = [tx EXCEPT ![w] = Request("check", u, c)]
    /\ UNCHANGED <<today, promoVars, subVars>>

\* HasUserUsed sees what is committed.
CheckUsed(w) ==
    /\ tx[w].pc = "check"
    /\ IF <<tx[w].user, tx[w].code>> \in usages
       THEN Roll(w)
       ELSE tx' = [tx EXCEPT ![w] = [@ EXCEPT !.pc = "increment"]]
    /\ UNCHANGED <<today, promoVars, subVars>>

\* used_count + 1, where there is a row.
NextCount(c) == IF code[c] = "active" THEN used[c] + 1 ELSE 0

\* Mutation: the count that was read is written back, without the row's lock.
IncrementUnlocked(w) ==
    /\ tx[w].pc = "increment"
    /\ tx' = [tx EXCEPT ![w] = [@ EXCEPT !.pc = "record", !.count = NextCount(tx[w].code)]]
    /\ UNCHANGED <<today, promoVars, subVars>>

\* IncrementUsage waits for the row; the row of a deleted code is not there,
\* and the update of no row is no error.
Increment(w) ==
    /\ tx[w].pc = "increment"
    /\ RowFree(tx[w].code)
    /\ tx' = [tx EXCEPT ![w] = [@ EXCEPT !.pc = "record", !.count = NextCount(tx[w].code)]]
    /\ UNCHANGED <<today, promoVars, subVars>>

\* Mutation: nothing keeps a second row of the same user out.
RecordTwice(w) ==
    /\ tx[w].pc = "record"
    /\ IF code[tx[w].code] = "active"
       THEN tx' = [tx EXCEPT ![w] = [@ EXCEPT !.pc = "find"]]
       ELSE Roll(w)
    /\ UNCHANGED <<today, promoVars, subVars>>

\* Mutation: the failed insert returns without the rollback.
RecordLeaks(w) ==
    /\ tx[w].pc = "record"
    /\ code[tx[w].code] = "active" /\ <<tx[w].user, tx[w].code>> \notin usages
    /\ tx' = [tx EXCEPT ![w] = [@ EXCEPT !.pc = "find"]]
    /\ UNCHANGED <<today, promoVars, subVars>>

\* RecordUsage: the foreign key needs the code, UNIQUE(user_id, promo_code_id)
\* that the user has no row; the insert fails otherwise.
Record(w) ==
    /\ tx[w].pc = "record"
    /\ IF code[tx[w].code] = "active" /\ <<tx[w].user, tx[w].code>> \notin usages
       THEN tx' = [tx EXCEPT ![w] = [@ EXCEPT !.pc = "find"]]
       ELSE Roll(w)
    /\ UNCHANGED <<today, promoVars, subVars>>

Current(u) == {r \in active : r.user = u /\ r.expires > today}

\* GetActiveByUserID returns any current row.  Scanning a NULL crypto_tx_id into
\* a string is an error; no row means that a subscription is created.
FindSub(w) ==
    LET u == tx[w].user
        d == Days[tx[w].code] IN
    /\ tx[w].pc = "find"
    /\ \/ \E r \in Current(u) :
            IF r.paid = "paid"
            THEN tx' = [tx EXCEPT ![w] = [@ EXCEPT !.pc = "extend", !.expires = r.expires + d]]
            ELSE Roll(w)
       \/ /\ Current(u) = {}
          /\ tx' = [tx EXCEPT ![w] = [@ EXCEPT !.pc = "commit", !.insert = "yes",
                                               !.expires = today + d]]
    /\ UNCHANGED <<today, promoVars, subVars>>

\* UpdateExpiresAt writes the date computed from the row that was read to every
\* active row of the user, once no other transaction holds one of them.
Extend(w) ==
    LET mine == {r \in active : r.user = tx[w].user} IN
    /\ tx[w].pc = "extend"
    /\ \A v \in Workers : tx[v].rows \cap mine = {}
    /\ tx' = [tx EXCEPT ![w] = [@ EXCEPT !.pc = "commit", !.rows = mine]]
    /\ UNCHANGED <<today, promoVars, subVars>>

\* What the transaction leaves in subscriptions.
Written(t) == {[r EXCEPT !.expires = t.expires] : r \in t.rows}
                \cup {[user |-> t.user, paid |-> "unpaid", expires |-> t.expires] :
                        x \in {t.insert} \cap {"yes"}}

Commit(w) ==
    LET t == tx[w] IN
    /\ t.pc = "commit"
    /\ used' = [used EXCEPT ![t.code] = t.count]
    /\ usages' = usages \cup {<<t.user, t.code>>}
    /\ redeemed' = [redeemed EXCEPT ![t.code][t.user] = @ + 1]
    /\ active' = (active \ t.rows) \cup Written(t)
    /\ Roll(w)
    /\ UNCHANGED <<today, code, pending, payments>>

\* A statement fails, or the request's context ends: database/sql rolls back.
Rollback(w) ==
    /\ tx[w].pc # "idle"
    /\ Roll(w)
    /\ UNCHANGED <<today, promoVars, subVars>>

-----------------------------------------------------------------------------
(* Around it *)

\* CreatePromoCode.
CreateCode(c) ==
    /\ code[c] = "new"
    /\ code' = [code EXCEPT ![c] = "active"]
    /\ UNCHANGED <<today, used, usages, redeemed, subVars, tx>>

\* DeletePromoCode waits for the row and takes its usages with it.
DeleteCode(c) ==
    /\ code[c] = "active" /\ RowFree(c)
    /\ code' = [code EXCEPT ![c] = "deleted"]
    /\ used' = [used EXCEPT ![c] = 0]
    /\ usages' = {x \in usages : x[2] # c}
    /\ UNCHANGED <<today, redeemed, subVars, tx>>

\* CreatePayment.
CreatePayment(u) ==
    /\ payments < MaxPayments
    /\ payments' = payments + 1
    /\ pending' = pending \cup {<<u, today + PayDays>>}
    /\ UNCHANGED <<today, promoVars, active, tx>>

\* HandlePaymentWebhook; a repeated call finds the row active already.
Activate(x) ==
    /\ x \in pending
    /\ pending' = pending \ {x}
    /\ active' = active \cup {[user |-> x[1], paid |-> "paid", expires |-> x[2]]}
    /\ UNCHANGED <<today, promoVars, payments, tx>>

Tick ==
    /\ today < MaxToday
    /\ today' = today + 1
    /\ UNCHANGED <<promoVars, subVars, tx>>

-----------------------------------------------------------------------------
\* The next statement of the transaction of w.
Statement(w) ==
    \/ CheckUsed(w) \/ Increment(w) \/ Record(w) \/ FindSub(w) \/ Extend(w) \/ Commit(w)

Next ==
    \/ \E w \in Workers, u \in Users, c \in Codes : Begin(w, u, c)
    \/ \E w \in Workers : Statement(w) \/ Rollback(w)
    \/ \E c \in Codes : CreateCode(c) \/ DeleteCode(c)
    \/ \E u \in Users : CreatePayment(u)
    \/ \E x \in pending : Activate(x)
    \/ Tick

Spec == Init /\ [][Next]_vars

\* The server sends the next statement of a transaction it began.  Postgres
\* serves the waiters of a row in turn, hence SF.
Fairness == \A w \in Workers : SF_vars(Statement(w))

FairSpec == Spec /\ Fairness

-----------------------------------------------------------------------------
(* Properties *)

Transaction == [pc : {"idle", "check", "increment", "record", "find", "extend", "commit"},
                user : Users \cup {NoUser}, code : Codes \cup {NoCode}, count : Nat,
                rows : SUBSET Row, insert : {"no", "yes"}, expires : Int]

\* Type invariant of the tables and of the open transactions.
TypeOK ==
    /\ today \in Nat /\ payments \in Nat
    /\ code \in [Codes -> {"new", "active", "deleted"}]
    /\ used \in [Codes -> Nat]
    /\ usages \subseteq Users \X Codes
    /\ pending \subseteq Users \X Nat /\ active \subseteq Row
    /\ tx \in [Workers -> Transaction]
    /\ \A w \in Workers : tx[w].pc # "idle" => tx[w].user \in Users /\ tx[w].code \in Codes
    /\ redeemed \in [Codes -> [Users -> Nat]]

\* The users whose usage of c is recorded.
UsersOf(c) == {u \in Users : <<u, c>> \in usages}

\* The counter and the list of usages are written by two statements and read by
\* others in between; whatever commits, rolls back or is deleted, they agree.
UsedMatchesUsages == \A c \in Codes : used[c] = Cardinality(UsersOf(c))

\* Two requests of one user may both pass HasUserUsed: all the same, a user gets
\* the days of a code once, even when the code is deleted in between.
OnceEach == \A c \in Codes, u \in Users : redeemed[c][u] <= 1

\* max_uses is "the maximum number of uses" (internal/promocode/model.go:11), but
\* it is checked on a count read before the row is locked: requests that run
\* together do exceed it.  What they exceed it by stays below their number.
Overshoot == \A c \in Codes : used[c] > 0 => used[c] < MaxUses[c] + Cardinality(Workers)

\* No request waits forever: every row a transaction waits for is given back by
\* its holder, although an UPDATE locks rows of two tables.
EveryRequestEnds == \A w \in Workers : tx[w].pc # "idle" ~> tx[w].pc = "idle"

-----------------------------------------------------------------------------
(* Inductive invariant *)

\* Transactions that passed the check of the limit of c.
InFlight(c) == {w \in Workers : tx[w].code = c}

\* One transaction at a time has updated the row of c, and what it wrote is one
\* more than what is committed; the code is there until it ends.
RowLock ==
    /\ \A c \in Codes : \A v, w \in Workers : Holds(v, c) /\ Holds(w, c) => v = w
    /\ \A w \in Workers : tx[w].count # 0 =>
          /\ tx[w].pc \in {"record", "find", "extend", "commit"}
          /\ code[tx[w].code] = "active"
          /\ tx[w].count = used[tx[w].code] + 1

\* Past RecordUsage the transaction holds the row and the user has no usage.
Recorded ==
    \A w \in Workers : tx[w].pc \in {"find", "extend", "commit"} =>
        tx[w].count # 0 /\ <<tx[w].user, tx[w].code>> \notin usages

\* A code a transaction names was created; the update found no row only because
\* the code is gone for good.
NamesACode ==
    \A w \in Workers : tx[w].pc # "idle" =>
        /\ code[tx[w].code] # "new"
        /\ tx[w].pc = "record" /\ tx[w].count = 0 => code[tx[w].code] = "deleted"

\* A usage that is not recorded was never redeemed, while the code exists.
RedeemedMatches ==
    \A c \in Codes, u \in Users :
        /\ code[c] = "new" => redeemed[c][u] = 0
        /\ code[c] = "active" /\ <<u, c>> \notin usages => redeemed[c][u] = 0

\* An idle worker has no transaction open.
IdleClosed == \A w \in Workers : tx[w].pc = "idle" => tx[w] = Closed

\* Committed uses and those in flight together stay below the bound.
Reserved ==
    \A c \in Codes : used[c] > 0 \/ InFlight(c) # {} =>
        used[c] + Cardinality(InFlight(c)) < MaxUses[c] + Cardinality(Workers)

\* What the safety proofs carry from step to step.
IInv == /\ TypeOK /\ UsedMatchesUsages /\ OnceEach /\ RowLock /\ Recorded
        /\ NamesACode /\ RedeemedMatches /\ IdleClosed /\ Reserved
=============================================================================
