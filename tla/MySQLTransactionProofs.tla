------------------------ MODULE MySQLTransactionProofs ------------------------
(***************************************************************************)
(* Proofs about MySQLTransaction, for any number of connections,           *)
(* transactions, statements, retries, losses and failing control           *)
(* statements: what is reported of a transaction that keeps its connection *)
(* is what the server has of it, but for a COMMIT that failed.             *)
(***************************************************************************)
EXTENDS MySQLTransaction, TLAPS

States == {"idle", "begin", "lock", "exec", "rollback", "commit", "reconnect"}

StmtsOf(t) == {<<t, k>> : k \in 1..Size[t]}

(* Every variable that the outcome depends on has its type. *)
TypeInv ==
    /\ task \in [Conns -> Txns \cup {NoTxn}]
    /\ pc \in [Conns -> States]
    /\ pos \in [Conns -> Nat]
    /\ err \in [Conns -> Codes]
    /\ resume \in [Conns -> States]
    /\ handle \in [Conns -> BOOLEAN]
    /\ result \in [Txns -> {"none", "ok", "failed"}]
    /\ sess \in [Conns -> {"auto", "txn"}]
    /\ writes \in [Conns -> SUBSET Stmts]
    /\ rows \in [Stmts -> Nat]
    /\ touched \subseteq Txns
    /\ unconfirmed \subseteq Txns

(* A transaction is executed by one connection. *)
OneConn == \A c, d \in Conns : task[c] = task[d] /\ task[c] # NoTxn => c = d

(* Nothing of t is uncommitted in the session of c. *)
Without(t, c) == \A k \in 1..Size[t] : <<t, k>> \notin writes[c]

(* What connection c executes was not reported yet.  Of a transaction that is
   not touched, its session has nothing uncommitted when it begins, the
   statements executed so far when the next one is sent, and all of them, and
   nothing else, when COMMIT is sent.  A ROLLBACK of one follows an error. *)
AtConn(c) ==
    /\ task[c] = NoTxn <=> pc[c] = "idle"
    /\ task[c] # NoTxn => result[task[c]] = "none"
    /\ ~handle[c] => writes[c] = {}
    /\ pc[c] = "exec" => pos[c] \in 1..Size[task[c]]
    /\ pc[c] = "reconnect" =>
          /\ task[c] \in touched /\ Size[task[c]] > 0 /\ ~handle[c]
          /\ resume[c] \in {"begin", "exec", "rollback", "commit"}
          /\ resume[c] = "exec" => pos[c] \in 1..Size[task[c]]
    /\ pc[c] \in {"begin", "lock"} /\ task[c] \notin touched => Without(task[c], c)
    /\ pc[c] = "exec" /\ handle[c] /\ task[c] \notin touched =>
          sess[c] = "txn" /\ writes[c] = {<<task[c], k>> : k \in 1..(pos[c] - 1)}
    /\ pc[c] = "commit" /\ task[c] \notin touched => writes[c] = StmtsOf(task[c])
    /\ pc[c] = "rollback" /\ task[c] \notin touched => err[c] # "ok"

(* What a transaction that is not touched left on the server. *)
Outcome(t) ==
    t \notin touched =>
        IF t \in unconfirmed THEN Absent(t) \/ Present(t)
        ELSE IF result[t] = "ok" THEN Present(t)
        ELSE Absent(t)

(* What a session that no longer executes t has uncommitted of it is all of
   it, left there by the COMMIT that failed, and is nowhere else. *)
LeftOver(t, c) ==
    t \notin touched /\ task[c] # t /\ ~Without(t, c) =>
        /\ t \in unconfirmed /\ Absent(t)
        /\ StmtsOf(t) \subseteq writes[c]
        /\ \A d \in Conns \ {c} : Without(t, d)

AtTxn(t) ==
    /\ Outcome(t)
    /\ t \in unconfirmed => result[t] = "ok"
    /\ \A c \in Conns : LeftOver(t, c)

IInv ==
    /\ TypeInv /\ OneConn
    /\ \A c \in Conns : AtConn(c)
    /\ \A t \in Txns : AtTxn(t)

-----------------------------------------------------------------------------
LEMMA StmtsFacts ==
  /\ \A t \in Txns : StmtsOf(t) \subseteq Stmts
  /\ \A t \in Txns, k \in Nat : <<t, k>> \in Stmts <=> k \in 1..Size[t]
BY ConstantsAssumption DEF Stmts, StmtsOf

(* A step of connection c leaves the others alone. *)
Others(c) ==
    \A d \in Conns \ {c} :
        /\ task'[d] = task[d] /\ pc'[d] = pc[d] /\ pos'[d] = pos[d] /\ err'[d] = err[d]
        /\ resume'[d] = resume[d] /\ handle'[d] = handle[d]
        /\ sess'[d] = sess[d] /\ writes'[d] = writes[d]

SameRows(t) == \A k \in 1..Size[t] : rows'[<<t, k>>] = rows[<<t, k>>]

(* What the session of c has uncommitted of t stays there, is rolled back, or
   is committed. *)
Stays(t, c) ==
    SameRows(t) /\ \A k \in 1..Size[t] : <<t, k>> \in writes'[c] <=> <<t, k>> \in writes[c]

RolledBack(t, c) == SameRows(t) /\ Without(t, c)'

Committed(t, c) ==
    /\ Without(t, c)'
    /\ \A k \in 1..Size[t] :
          rows'[<<t, k>>] = IF <<t, k>> \in writes[c] THEN rows[<<t, k>>] + 1 ELSE rows[<<t, k>>]

(* That is all that becomes of the transactions that c does not execute. *)
OtherTxns(c) ==
    \A t \in Txns \ {task[c]} :
        /\ result'[t] = result[t] /\ (t \in touched' <=> t \in touched)
        /\ (t \in unconfirmed' <=> t \in unconfirmed)
        /\ Stays(t, c) \/ RolledBack(t, c) \/ Committed(t, c)

(* A transaction whose COMMIT failed, left in the session of c, is applied
   with all of its statements or with none. *)
LEMMA OtherTxn ==
  ASSUME IInv, NEW c \in Conns, Others(c), OtherTxns(c), NEW t \in Txns, t # task[c],
         task'[c] # t
  PROVE  AtTxn(t)'
<1>1. /\ TypeInv /\ AtTxn(t) /\ \A d \in Conns : LeftOver(t, d)
      /\ result'[t] = result[t] /\ (t \in touched' <=> t \in touched)
      /\ (t \in unconfirmed' <=> t \in unconfirmed)
  BY DEF IInv, AtTxn, OtherTxns
<1>2. \A d \in Conns \ {c} : task'[d] = task[d] /\ (Without(t, d)' <=> Without(t, d))
                             /\ (StmtsOf(t) \subseteq writes'[d] <=> StmtsOf(t) \subseteq writes[d])
  BY DEF Others, Without
<1>3. StmtsOf(t)' = StmtsOf(t)
  BY DEF StmtsOf
<1>4. CASE Stays(t, c)
  <2>1. /\ Absent(t)' <=> Absent(t)
        /\ Present(t)' <=> Present(t)
        /\ Without(t, c)' <=> Without(t, c)
        /\ StmtsOf(t) \subseteq writes'[c] <=> StmtsOf(t) \subseteq writes[c]
    BY <1>4 DEF Stays, SameRows, Absent, Present, Without, StmtsOf
  <2>2. \A d \in Conns : Without(t, d)' <=> Without(t, d)
    BY <1>2, <2>1
  <2>3. Outcome(t)' /\ (t \in unconfirmed' => result'[t] = "ok")
    BY <1>1, <2>1 DEF AtTxn, Outcome
  <2>4. ASSUME NEW d \in Conns PROVE LeftOver(t, d)'
    BY <1>1, <1>2, <1>3, <2>1, <2>2 DEF LeftOver
  <2> QED
    BY <2>3, <2>4 DEF AtTxn
<1>5. CASE Without(t, c) /\ (RolledBack(t, c) \/ Committed(t, c))
  BY <1>4, <1>5 DEF Without, Stays, SameRows, RolledBack, Committed
<1>6. CASE ~Without(t, c) /\ t \notin touched /\ (RolledBack(t, c) \/ Committed(t, c))
  <2>1. t \in unconfirmed /\ Absent(t) /\ StmtsOf(t) \subseteq writes[c]
        /\ \A d \in Conns \ {c} : Without(t, d)
    BY <1>1, <1>6 DEF LeftOver
  <2>2. \A d \in Conns : Without(t, d)'
    BY <1>2, <1>6, <2>1 DEF RolledBack, Committed
  <2>3. Absent(t)' \/ Present(t)'
    <3>1. \A k \in 1..Size[t] : <<t, k>> \in writes[c] /\ rows[<<t, k>>] = 0
      BY <2>1 DEF Absent, StmtsOf
    <3> QED
      BY <1>6, <3>1 DEF RolledBack, Committed, SameRows, Absent, Present
  <2> QED
    BY <1>1, <2>1, <2>2, <2>3 DEF AtTxn, Outcome, LeftOver
<1>7. CASE t \in touched
  BY <1>1, <1>7 DEF AtTxn, Outcome, LeftOver
<1> QED
  BY <1>4, <1>5, <1>6, <1>7 DEF OtherTxns

(* With that the invariant is a matter of c and of its transaction. *)
LEMMA LocalStep ==
  ASSUME IInv, TypeInv', NEW c \in Conns, NEW u \in Txns, task[c] = u,
         Others(c), OtherTxns(c), task'[c] \in {u, NoTxn},
         AtConn(c)', Outcome(u)', LeftOver(u, c)',
         u \in touched => u \in touched',
         u \in unconfirmed' => result'[u] = "ok"
  PROVE  IInv'
<1>1. TypeInv /\ OneConn /\ \A d \in Conns : AtConn(d)
  BY DEF IInv
<1>2. OneConn'
  BY <1>1 DEF OneConn, Others
<1>3. u # NoTxn
  BY ConstantsAssumption
<1>4. ASSUME NEW d \in Conns \ {c} PROVE AtConn(d)'
  <2>1. /\ task'[d] = task[d] /\ pc'[d] = pc[d] /\ pos'[d] = pos[d] /\ err'[d] = err[d]
        /\ resume'[d] = resume[d] /\ handle'[d] = handle[d]
        /\ sess'[d] = sess[d] /\ writes'[d] = writes[d]
    BY DEF Others
  <2>2. task[d] # NoTxn => task[d] \in Txns \ {task[c]}
    BY <1>1 DEF OneConn, TypeInv
  <2>3. task[d] # NoTxn =>
          /\ result'[task[d]] = result[task[d]]
          /\ (task[d] \in touched' <=> task[d] \in touched)
    BY <2>2 DEF OtherTxns
  <2>4. AtConn(d)
    BY <1>1
  <2>5. Without(task[d], d)' <=> Without(task[d], d)
    BY <2>1 DEF Without
  <2> QED
    BY <2>1, <2>3, <2>4, <2>5 DEF AtConn, StmtsOf
<1>5. ASSUME NEW d \in Conns \ {c} PROVE LeftOver(u, d)'
  <2>1. task[d] # u /\ writes'[d] = writes[d] /\ result[u] = "none"
    BY <1>1, <1>3 DEF OneConn, Others, AtConn
  <2>2. LeftOver(u, d) /\ u \notin unconfirmed
    BY <2>1 DEF IInv, AtTxn
  <2>3. u \notin touched => Without(u, d)
    BY <2>1, <2>2 DEF LeftOver
  <2>4. Without(u, d)' <=> Without(u, d)
    BY <2>1 DEF Without
  <2> QED
    BY <2>3, <2>4 DEF LeftOver
<1>6. AtTxn(u)'
  BY <1>5 DEF AtTxn
<1>7. ASSUME NEW t \in Txns, t # u PROVE AtTxn(t)'
  BY <1>7, OtherTxn, ConstantsAssumption
<1>8. (\A d \in Conns : AtConn(d)') /\ \A t \in Txns : AtTxn(t)'
  BY <1>4, <1>6, <1>7
<1> QED
  BY <1>2, <1>8 DEF IInv

(* What the invariant says of a connection that executes a transaction. *)
LEMMA Executing ==
  ASSUME IInv, NEW c \in Conns, pc[c] # "idle"
  PROVE  /\ task[c] \in Txns /\ task[c] # NoTxn /\ result[task[c]] = "none"
         /\ task[c] \notin unconfirmed /\ AtConn(c) /\ Outcome(task[c])
         /\ task[c] \notin touched => Absent(task[c])
         /\ \A t \in Txns : LeftOver(t, c)
         /\ TypeInv
BY DEF IInv, AtConn, AtTxn, TypeInv, Outcome

(* The server applies statements once more. *)
LEMMA ApplyFacts ==
  ASSUME TypeInv, NEW S, Apply(S)
  PROVE  /\ rows' \in [Stmts -> Nat]
         /\ \A t \in Txns : \A k \in 1..Size[t] :
               rows'[<<t, k>>] = IF <<t, k>> \in S THEN rows[<<t, k>>] + 1 ELSE rows[<<t, k>>]
<1>1. \A t \in Txns : \A k \in 1..Size[t] : <<t, k>> \in Stmts
  BY DEF Stmts
<1>2. rows' = [s \in Stmts |-> IF s \in S THEN rows[s] + 1 ELSE rows[s]]
  BY DEF Apply
<1>3. \A s \in Stmts : rows[s] \in Nat
  BY DEF TypeInv
<1> QED
  BY <1>1, <1>2, <1>3

(* What a session has not committed is rolled back. *)
LEMMA RolledFacts ==
  ASSUME TypeInv, NEW c \in Conns, Rolled(c)
  PROVE  /\ writes' \in [Conns -> SUBSET Stmts] /\ sess' \in [Conns -> {"auto", "txn"}]
         /\ \A d \in Conns \ {c} : sess'[d] = sess[d] /\ writes'[d] = writes[d]
         /\ writes'[c] = {} /\ \A t \in Txns : Without(t, c)'
BY DEF TypeInv, Rolled, Without

(* A control statement fails: what is not committed stays or is rolled back. *)
LEMMA RefusedFacts ==
  ASSUME TypeInv, NEW c \in Conns, Refused(c)
  PROVE  /\ writes' \in [Conns -> SUBSET Stmts] /\ sess' \in [Conns -> {"auto", "txn"}]
         /\ rows' = rows
         /\ \A d \in Conns \ {c} : sess'[d] = sess[d] /\ writes'[d] = writes[d]
         /\ writes'[c] = writes[c] \/ writes'[c] = {}
         /\ \A t \in Txns : Stays(t, c) \/ RolledBack(t, c)
<1>1. CASE UNCHANGED serverVars
  BY <1>1 DEF serverVars, TypeInv, Stays, SameRows
<1>2. CASE Rolled(c) /\ UNCHANGED rows
  BY <1>2, RolledFacts DEF TypeInv, RolledBack, SameRows
<1> QED
  BY <1>1, <1>2 DEF Refused

(* ExecuteTransaction has returned: what its caller makes of the code. *)
LEMMA ReturnedFacts ==
  ASSUME TypeInv, NEW c \in Conns, NEW code \in Codes, task[c] \in Txns, Returned(c, code)
  PROVE  /\ task' \in [Conns -> Txns \cup {NoTxn}] /\ pc' \in [Conns -> States]
         /\ result' \in [Txns -> {"none", "ok", "failed"}]
         /\ \A d \in Conns \ {c} : task'[d] = task[d] /\ pc'[d] = pc[d]
         /\ \A t \in Txns \ {task[c]} : result'[t] = result[t]
         /\ \/ task'[c] = NoTxn /\ pc'[c] = "idle" /\ code = "ok" /\ result'[task[c]] = "ok"
            \/ task'[c] = NoTxn /\ pc'[c] = "idle" /\ code # "ok" /\ result'[task[c]] = "failed"
            \/ /\ task'[c] = task[c] /\ pc'[c] \in {"lock", "begin"} /\ code # "ok"
               /\ result'[task[c]] = result[task[c]]
<1>1. CASE code = "ok" /\ Done(c, "ok")
  BY <1>1 DEF TypeInv, Done, States
<1>2. CASE code # "ok" /\ Done(c, "failed")
  BY <1>2 DEF TypeInv, Done, States
<1>3. ASSUME code # "ok", UNCHANGED <<task, result>>, NEW p \in {"lock", "begin"},
             pc' = [pc EXCEPT ![c] = p]
      PROVE  /\ pc' \in [Conns -> States] /\ pc'[c] \in {"lock", "begin"}
             /\ \A d \in Conns \ {c} : pc'[d] = pc[d]
  BY <1>3 DEF TypeInv, States
<1>4. CASE code # "ok" /\ UNCHANGED <<task, result>>
           /\ \E p \in {"lock", "begin"} : pc' = [pc EXCEPT ![c] = p]
  BY <1>3, <1>4 DEF TypeInv
<1> QED
  BY <1>1, <1>2, <1>4 DEF Returned

-----------------------------------------------------------------------------
(* Init, and one lemma per action. *)
LEMMA InitIInv == Init => IInv
<1> SUFFICES ASSUME Init PROVE IInv
  OBVIOUS
<1>1. TypeInv
  BY DEF Init, TypeInv, States, Codes
<1>2. OneConn
  BY DEF Init, OneConn
<1>3. \A c \in Conns : AtConn(c)
  BY DEF Init, AtConn
<1>4. \A t \in Txns : AtTxn(t)
  BY StmtsFacts, ConstantsAssumption DEF Init, AtTxn, Outcome, LeftOver, Without, Absent
<1> QED
  BY <1>1, <1>2, <1>3, <1>4 DEF IInv

LEMMA StartIInv ==
  ASSUME IInv, NEW c \in Conns, NEW t \in Txns, Start(c, t)
  PROVE  IInv'
<1>1. /\ TypeInv /\ OneConn /\ \A d \in Conns : AtConn(d)
      /\ \A v \in Txns : AtTxn(v)
  BY DEF IInv
<1>2. /\ pc[c] = "idle" /\ result[t] = "none" /\ \A d \in Conns : task[d] # t
      /\ task' = [task EXCEPT ![c] = t] /\ pc' = [pc EXCEPT ![c] = "begin"]
      /\ UNCHANGED <<pos, err, resume, handle, result, sess, writes, rows, touched, unconfirmed>>
  BY DEF Start, serverVars, history
<1>3. TypeInv'
  BY <1>1, <1>2 DEF TypeInv, States
<1>4. /\ task'[c] = t /\ pc'[c] = "begin"
      /\ \A d \in Conns \ {c} : task'[d] = task[d] /\ pc'[d] = pc[d]
  BY <1>1, <1>2 DEF TypeInv
<1>5. OneConn'
  BY <1>1, <1>2, <1>4 DEF OneConn
<1>6. \A v \in Txns, d \in Conns : Without(v, d)' <=> Without(v, d)
  BY <1>2 DEF Without
<1>7. ASSUME NEW d \in Conns \ {c} PROVE AtConn(d)'
  <2>1. AtConn(d) /\ (Without(task[d], d)' <=> Without(task[d], d))
    BY <1>1, <1>2 DEF Without
  <2> QED
    BY <1>2, <1>4, <2>1 DEF AtConn, StmtsOf
<1>8. t \notin touched => Without(t, c)
  BY <1>1, <1>2 DEF AtTxn, LeftOver
<1>9. AtConn(c)'
  BY <1>1, <1>2, <1>4, <1>6, <1>8, ConstantsAssumption DEF AtConn
<1>10. ASSUME NEW v \in Txns PROVE AtTxn(v)'
  <2>1. AtTxn(v)
    BY <1>1
  <2>2. ASSUME NEW d \in Conns PROVE LeftOver(v, d)'
    <3>1. task[c] # v
      BY <1>1, <1>2, ConstantsAssumption DEF AtConn
    <3>2. LeftOver(v, d) /\ (task'[d] # v => task[d] # v)
      BY <1>4, <2>1, <3>1 DEF AtTxn
    <3>3. Absent(v)' <=> Absent(v)
      BY <1>2 DEF Absent
    <3>4. writes' = writes /\ touched' = touched /\ unconfirmed' = unconfirmed
      BY <1>2
    <3> QED
      BY <3>2, <3>3, <3>4 DEF LeftOver, StmtsOf, Without
  <2> QED
    BY <1>2, <2>1, <2>2 DEF AtTxn, Outcome, Present, Absent
<1>11. \A d \in Conns : AtConn(d)'
  BY <1>7, <1>9
<1> QED
  BY <1>3, <1>5, <1>10, <1>11 DEF IInv

LEMMA EnterRetryIInv ==
  ASSUME IInv, NEW c \in Conns, EnterRetry(c)
  PROVE  IInv'
<1>1. /\ pc[c] = "lock" /\ pc' = [pc EXCEPT ![c] = "begin"]
      /\ UNCHANGED <<task, pos, err, resume, handle, result, sess, writes, rows, touched, unconfirmed>>
  BY DEF EnterRetry, serverVars, history
<1>2. /\ task[c] \in Txns /\ task[c] # NoTxn /\ AtConn(c) /\ Outcome(task[c]) /\ TypeInv
      /\ task[c] \notin unconfirmed
  BY <1>1, Executing
<1>3. TypeInv' /\ pc'[c] = "begin" /\ \A d \in Conns \ {c} : pc'[d] = pc[d]
  BY <1>1, <1>2 DEF TypeInv, States
<1>4. Others(c) /\ OtherTxns(c)
  BY <1>1, <1>3 DEF Others, OtherTxns, Stays, SameRows
<1>5. AtConn(c)'
  BY <1>1, <1>2, <1>3 DEF AtConn, Without, StmtsOf
<1>6. PICK u \in Txns : u = task[c]
  BY <1>2
<1>7. Outcome(u)' /\ LeftOver(u, c)'
  BY <1>1, <1>2, <1>6 DEF Outcome, Present, Absent, LeftOver
<1> QED
  BY <1>1, <1>2, <1>3, <1>4, <1>5, <1>6, <1>7, LocalStep

(* A step that returns to the caller of ExecuteTransaction.  Of a transaction
   that is not touched nothing is left uncommitted, or all of it when its
   COMMIT failed; what the code says of it is true unless that happened. *)
LEMMA ReturnedIInv ==
  ASSUME IInv, NEW c \in Conns, NEW u \in Txns, task[c] = u, pc[c] # "idle",
         NEW code \in Codes, Returned(c, code),
         UNCHANGED <<pos, err, resume, handle>>,
         touched' \in SUBSET Txns, unconfirmed' \in SUBSET Txns,
         sess' \in [Conns -> {"auto", "txn"}], writes' \in [Conns -> SUBSET Stmts],
         rows' \in [Stmts -> Nat],
         \A d \in Conns \ {c} : sess'[d] = sess[d] /\ writes'[d] = writes[d],
         ~handle[c] => writes'[c] = {},
         \A t \in Txns \ {u} :
            /\ t \in touched' <=> t \in touched
            /\ t \in unconfirmed' <=> t \in unconfirmed
            /\ Stays(t, c) \/ RolledBack(t, c) \/ Committed(t, c),
         u \in touched => u \in touched',
         u \in unconfirmed' => code = "ok" /\ (u \notin touched' => Absent(u)'),
         u \notin touched' =>
            \/ Without(u, c)'
            \/ u \in unconfirmed' /\ StmtsOf(u) \subseteq writes'[c],
         u \notin touched' /\ u \notin unconfirmed' =>
            IF code = "ok" THEN Present(u)' ELSE Absent(u)'
  PROVE  IInv'
<1>1. /\ TypeInv /\ result[u] = "none" /\ u # NoTxn /\ u \notin unconfirmed
      /\ \A d \in Conns : LeftOver(u, d)
  BY Executing DEF IInv, AtTxn
<1>2. /\ task' \in [Conns -> Txns \cup {NoTxn}] /\ pc' \in [Conns -> States]
      /\ result' \in [Txns -> {"none", "ok", "failed"}]
      /\ \A d \in Conns \ {c} : task'[d] = task[d] /\ pc'[d] = pc[d]
      /\ \A t \in Txns \ {u} : result'[t] = result[t]
      /\ \/ task'[c] = NoTxn /\ pc'[c] = "idle" /\ code = "ok" /\ result'[u] = "ok"
         \/ task'[c] = NoTxn /\ pc'[c] = "idle" /\ code # "ok" /\ result'[u] = "failed"
         \/ /\ task'[c] = u /\ pc'[c] \in {"lock", "begin"} /\ code # "ok"
            /\ result'[u] = "none"
  BY <1>1, ReturnedFacts
<1>3. TypeInv'
  BY <1>1, <1>2 DEF TypeInv
<1>4. Others(c)
  BY <1>2 DEF Others
<1>5. OtherTxns(c)
  BY <1>2 DEF OtherTxns
<1>6. AtConn(c)'
  BY <1>1, <1>2 DEF AtConn
<1>7. Outcome(u)' /\ (u \in unconfirmed' => result'[u] = "ok")
  BY <1>2 DEF Outcome
<1>8. u \notin touched' => \A d \in Conns \ {c} : Without(u, d)'
  <2> SUFFICES ASSUME u \notin touched', NEW d \in Conns \ {c} PROVE Without(u, d)'
    OBVIOUS
  <2>1. task[d] # u /\ u \notin touched
    BY <1>1 DEF IInv, OneConn
  <2>2. Without(u, d)
    BY <1>1, <2>1 DEF LeftOver
  <2> QED
    BY <2>2 DEF Without
<1>9. LeftOver(u, c)'
  BY <1>8 DEF LeftOver, StmtsOf
<1> QED
  BY <1>2, <1>3, <1>4, <1>5, <1>6, <1>7, <1>9, LocalStep

LEMMA RefuseIInv ==
  ASSUME IInv, NEW c \in Conns, Refuse(c)
  PROVE  IInv'
<1>1. /\ pc[c] = "begin" /\ Size[task[c]] = 0 /\ Returned(c, "other")
      /\ UNCHANGED <<pos, err, resume, handle, sess, writes, rows, touched, unconfirmed>>
  BY DEF Refuse, serverVars, history
<1>2. task[c] \in Txns /\ AtConn(c) /\ TypeInv /\ task[c] \notin unconfirmed
  BY <1>1, Executing
<1>3. PICK u \in Txns : u = task[c]
  BY <1>2
<1>4. Without(u, c)' /\ Absent(u)' /\ (~handle[c] => writes'[c] = {})
  BY <1>1, <1>2, <1>3 DEF AtConn, Absent, Without
<1>5. \A t \in Txns : Stays(t, c)
  BY <1>1 DEF Stays, SameRows
<1> QED
  BY <1>1, <1>2, <1>3, <1>4, <1>5, ReturnedIInv DEF TypeInv, Codes

LEMMA BeginIInv ==
  ASSUME IInv, NEW c \in Conns, Begin(c)
  PROVE  IInv'
<1>1. /\ pc[c] = "begin" /\ Size[task[c]] > 0
      /\ pc' = [pc EXCEPT ![c] = "exec"] /\ pos' = [pos EXCEPT ![c] = 1]
      /\ Apply(writes[c]) /\ writes' = [writes EXCEPT ![c] = {}]
      /\ sess' = [sess EXCEPT ![c] = IF handle[c] THEN "txn" ELSE @]
      /\ UNCHANGED <<task, err, resume, handle, result, touched, unconfirmed>>
  BY DEF Begin, history
<1>2. /\ task[c] \in Txns /\ AtConn(c) /\ Outcome(task[c]) /\ TypeInv
      /\ result[task[c]] = "none" /\ task[c] # NoTxn /\ task[c] \notin unconfirmed
  BY <1>1, Executing
<1>3. PICK u \in Txns : u = task[c]
  BY <1>2
<1>4. /\ rows' \in [Stmts -> Nat]
      /\ \A t \in Txns : \A k \in 1..Size[t] :
            rows'[<<t, k>>] = IF <<t, k>> \in writes[c] THEN rows[<<t, k>>] + 1 ELSE rows[<<t, k>>]
  BY <1>1, <1>2, ApplyFacts
<1>5. /\ pc'[c] = "exec" /\ pos'[c] = 1 /\ writes'[c] = {} /\ (handle[c] => sess'[c] = "txn")
      /\ \A d \in Conns \ {c} : /\ pc'[d] = pc[d] /\ pos'[d] = pos[d]
                                /\ sess'[d] = sess[d] /\ writes'[d] = writes[d]
  BY <1>1, <1>2 DEF TypeInv
<1>6. TypeInv'
  BY <1>1, <1>2, <1>4 DEF TypeInv, States
<1>7. \A t \in Txns : Committed(t, c)
  BY <1>4, <1>5 DEF Committed, Without
<1>8. Others(c) /\ OtherTxns(c)
  BY <1>1, <1>5, <1>7 DEF Others, OtherTxns
<1>9. Size[u] \in Nat
  BY ConstantsAssumption
<1>10. AtConn(c)'
  BY <1>1, <1>2, <1>3, <1>5, <1>9 DEF AtConn, StmtsOf
<1>11. u \notin touched => SameRows(u)
  BY <1>1, <1>2, <1>3, <1>4 DEF AtConn, Without, SameRows
<1>12. Outcome(u)' /\ LeftOver(u, c)'
  BY <1>1, <1>2, <1>3, <1>11 DEF Outcome, LeftOver, Present, Absent, SameRows
<1> QED
  BY <1>1, <1>2, <1>3, <1>6, <1>8, <1>10, <1>12, LocalStep

(* What follows a START TRANSACTION that failed is of a touched transaction. *)
LEMMA BeginErrorIInv ==
  ASSUME IInv, NEW c \in Conns, BeginError(c)
  PROVE  IInv'
<1>1. /\ pc[c] = "begin" /\ Size[task[c]] > 0 /\ handle[c]
      /\ pc' = [pc EXCEPT ![c] = "exec"] /\ pos' = [pos EXCEPT ![c] = 1]
      /\ Refused(c) /\ touched' = touched \cup {task[c]}
      /\ UNCHANGED <<task, err, resume, handle, result, unconfirmed>>
  BY DEF BeginError
<1>2. /\ task[c] \in Txns /\ AtConn(c) /\ TypeInv
      /\ result[task[c]] = "none" /\ task[c] # NoTxn /\ task[c] \notin unconfirmed
  BY <1>1, Executing
<1>3. PICK u \in Txns : u = task[c]
  BY <1>2
<1>4. /\ writes' \in [Conns -> SUBSET Stmts] /\ sess' \in [Conns -> {"auto", "txn"}]
      /\ rows' = rows
      /\ \A d \in Conns \ {c} : sess'[d] = sess[d] /\ writes'[d] = writes[d]
      /\ \A t \in Txns : Stays(t, c) \/ RolledBack(t, c)
  BY <1>1, <1>2, RefusedFacts
<1>5. /\ pc'[c] = "exec" /\ pos'[c] = 1
      /\ \A d \in Conns \ {c} : pc'[d] = pc[d] /\ pos'[d] = pos[d]
  BY <1>1, <1>2 DEF TypeInv
<1>6. TypeInv'
  BY <1>1, <1>2, <1>4 DEF TypeInv, States
<1>7. Others(c) /\ OtherTxns(c)
  BY <1>1, <1>3, <1>4, <1>5 DEF Others, OtherTxns
<1>8. Size[u] \in Nat
  BY ConstantsAssumption
<1>9. AtConn(c)'
  BY <1>1, <1>2, <1>3, <1>5, <1>8 DEF AtConn
<1>10. Outcome(u)' /\ LeftOver(u, c)'
  BY <1>1, <1>3 DEF Outcome, LeftOver
<1> QED
  BY <1>1, <1>2, <1>3, <1>6, <1>7, <1>9, <1>10, LocalStep

(* A statement outside of a transaction is executed only for a transaction that
   lost its connection or whose START TRANSACTION failed. *)
LEMMA ExecuteOkIInv ==
  ASSUME IInv, NEW c \in Conns, ExecuteOk(c)
  PROVE  IInv'
<1>1. /\ pc[c] = "exec" /\ handle[c]
      /\ IF sess[c] = "txn"
            THEN /\ writes' = [writes EXCEPT ![c] = @ \cup {NextStmt(c)}]
                 /\ UNCHANGED rows
            ELSE /\ Apply({NextStmt(c)})
                 /\ UNCHANGED writes
      /\ pos' = [pos EXCEPT ![c] = @ + 1]
      /\ pc' = [pc EXCEPT ![c] = IF pos[c] = Size[task[c]] THEN "commit" ELSE @]
      /\ UNCHANGED <<task, err, resume, handle, result, sess, touched, unconfirmed>>
  BY DEF ExecuteOk, history
<1>2. /\ task[c] \in Txns /\ AtConn(c) /\ Outcome(task[c]) /\ TypeInv
      /\ result[task[c]] = "none" /\ task[c] # NoTxn /\ task[c] \notin unconfirmed
  BY <1>1, Executing
<1>3. PICK u \in Txns : u = task[c]
  BY <1>2
<1>4. Size[u] \in Nat /\ pos[c] \in 1..Size[u] /\ NextStmt(c) = <<u, pos[c]>>
  BY <1>1, <1>2, <1>3, ConstantsAssumption DEF AtConn, NextStmt
<1>5. NextStmt(c) \in Stmts
  BY <1>4, StmtsFacts
<1>6. /\ writes' \in [Conns -> SUBSET Stmts] /\ rows' \in [Stmts -> Nat]
      /\ \A d \in Conns \ {c} : writes'[d] = writes[d]
      /\ \A t \in Txns \ {u} : Stays(t, c)
  <2>1. CASE sess[c] = "txn"
    BY <1>1, <1>2, <1>4, <1>5, <2>1 DEF TypeInv, Stays, SameRows
  <2>2. CASE sess[c] # "txn"
    <3>1. Apply({NextStmt(c)}) /\ writes' = writes
      BY <1>1, <2>2
    <3>2. /\ rows' \in [Stmts -> Nat]
          /\ \A t \in Txns : \A k \in 1..Size[t] :
                rows'[<<t, k>>] = IF <<t, k>> \in {NextStmt(c)} THEN rows[<<t, k>>] + 1
                                                             ELSE rows[<<t, k>>]
      BY <1>2, <3>1, ApplyFacts
    <3> QED
      BY <1>2, <1>4, <3>1, <3>2 DEF TypeInv, Stays, SameRows
  <2> QED
    BY <2>1, <2>2
<1>7. /\ pos'[c] = pos[c] + 1 /\ pos' \in [Conns -> Nat] /\ pc' \in [Conns -> States]
      /\ pc'[c] = IF pos[c] = Size[u] THEN "commit" ELSE "exec"
      /\ \A d \in Conns \ {c} : pc'[d] = pc[d] /\ pos'[d] = pos[d]
  BY <1>1, <1>2, <1>3 DEF TypeInv, States
<1>8. u \notin touched =>
        /\ sess[c] = "txn" /\ rows' = rows
        /\ writes'[c] = {<<u, k>> : k \in 1..pos[c]}
  <2> SUFFICES ASSUME u \notin touched
               PROVE  /\ sess[c] = "txn" /\ rows' = rows
                      /\ writes'[c] = {<<u, k>> : k \in 1..pos[c]}
    OBVIOUS
  <2>1. sess[c] = "txn" /\ writes[c] = {<<u, k>> : k \in 1..(pos[c] - 1)}
    BY <1>1, <1>2, <1>3 DEF AtConn
  <2>2. writes'[c] = writes[c] \cup {<<u, pos[c]>>} /\ rows' = rows
    BY <1>1, <1>2, <1>4, <2>1 DEF TypeInv
  <2>3. 1..pos[c] = 1..(pos[c] - 1) \cup {pos[c]}
    BY <1>4
  <2> QED
    BY <2>1, <2>2, <2>3
<1>9. TypeInv'
  BY <1>1, <1>2, <1>6, <1>7 DEF TypeInv
<1>10. Others(c) /\ OtherTxns(c)
  BY <1>1, <1>3, <1>6, <1>7 DEF Others, OtherTxns
<1>11. AtConn(c)'
  <2>1. /\ task'[c] = u /\ u # NoTxn /\ result'[u] = "none" /\ handle'[c]
    BY <1>1, <1>2, <1>3
  <2>2. CASE pos[c] = Size[u]
    BY <1>1, <1>7, <1>8, <2>1, <2>2 DEF AtConn, StmtsOf
  <2>3. CASE pos[c] # Size[u]
    <3>1. pc'[c] = "exec" /\ pos'[c] \in 1..Size[u] /\ pos'[c] - 1 = pos[c]
      BY <1>4, <1>7, <2>3
    <3> QED
      BY <1>1, <1>8, <2>1, <3>1 DEF AtConn, StmtsOf
  <2> QED
    BY <2>2, <2>3
<1>12. Outcome(u)' /\ LeftOver(u, c)'
  BY <1>1, <1>2, <1>3, <1>8 DEF Outcome, LeftOver, Present, Absent
<1> QED
  BY <1>1, <1>2, <1>3, <1>9, <1>10, <1>11, <1>12, LocalStep

(* The codes of an error that skips the query: not the one of success. *)
LEMMA ExecuteErrorIInv ==
  ASSUME IInv, NEW c \in Conns, NEW code \in {"deadlock", "other"}, ExecuteError(c, code)
  PROVE  IInv'
<1>1. /\ pc[c] = "exec" /\ handle[c]
      /\ err' = [err EXCEPT ![c] = code] /\ pc' = [pc EXCEPT ![c] = "rollback"]
      /\ IF code = "deadlock" THEN Rolled(c) ELSE UNCHANGED <<sess, writes>>
      /\ UNCHANGED <<task, pos, resume, handle, result, rows, touched, unconfirmed>>
  BY DEF ExecuteError, history
<1>2. /\ task[c] \in Txns /\ AtConn(c) /\ Outcome(task[c]) /\ TypeInv
      /\ result[task[c]] = "none" /\ task[c] # NoTxn /\ task[c] \notin unconfirmed
  BY <1>1, Executing
<1>3. PICK u \in Txns : u = task[c]
  BY <1>2
<1>4. /\ writes' \in [Conns -> SUBSET Stmts] /\ sess' \in [Conns -> {"auto", "txn"}]
      /\ \A d \in Conns \ {c} : writes'[d] = writes[d] /\ sess'[d] = sess[d]
      /\ \A t \in Txns : Stays(t, c) \/ RolledBack(t, c)
  <2>1. CASE Rolled(c)
    BY <1>1, <1>2, <2>1, RolledFacts DEF RolledBack, SameRows
  <2>2. CASE UNCHANGED <<sess, writes>>
    BY <1>1, <1>2, <2>2 DEF TypeInv, Stays, SameRows
  <2> QED
    BY <1>1, <2>1, <2>2
<1>5. /\ pc' \in [Conns -> States] /\ err' \in [Conns -> Codes]
      /\ pc'[c] = "rollback" /\ err'[c] # "ok"
      /\ \A d \in Conns \ {c} : pc'[d] = pc[d] /\ err'[d] = err[d]
  BY <1>1, <1>2 DEF TypeInv, States, Codes
<1>6. TypeInv'
  BY <1>1, <1>2, <1>4, <1>5 DEF TypeInv
<1>7. Others(c) /\ OtherTxns(c)
  BY <1>1, <1>4, <1>5 DEF Others, OtherTxns
<1>8. AtConn(c)'
  BY <1>1, <1>2, <1>5 DEF AtConn
<1>9. Outcome(u)' /\ LeftOver(u, c)'
  BY <1>1, <1>2, <1>3 DEF Outcome, LeftOver, Present, Absent
<1> QED
  BY <1>1, <1>2, <1>3, <1>6, <1>7, <1>8, <1>9, LocalStep

LEMMA ExecuteNoHandleIInv ==
  ASSUME IInv, NEW c \in Conns, NEW code \in Codes, ExecuteNoHandle(c, code)
  PROVE  IInv'
<1>1. /\ pc[c] = "exec"
      /\ err' = [err EXCEPT ![c] = code] /\ pc' = [pc EXCEPT ![c] = "rollback"]
      /\ touched' = touched \cup {task[c]}
      /\ UNCHANGED <<task, pos, resume, handle, result, sess, writes, rows, unconfirmed>>
  BY DEF ExecuteNoHandle, serverVars
<1>2. /\ task[c] \in Txns /\ AtConn(c) /\ TypeInv
      /\ result[task[c]] = "none" /\ task[c] # NoTxn /\ task[c] \notin unconfirmed
  BY <1>1, Executing
<1>3. PICK u \in Txns : u = task[c]
  BY <1>2
<1>4. /\ pc' \in [Conns -> States] /\ err' \in [Conns -> Codes] /\ pc'[c] = "rollback"
      /\ \A d \in Conns \ {c} : pc'[d] = pc[d] /\ err'[d] = err[d]
  BY <1>1, <1>2 DEF TypeInv, States
<1>5. TypeInv'
  BY <1>1, <1>2, <1>4 DEF TypeInv
<1>6. Others(c) /\ OtherTxns(c)
  BY <1>1, <1>4 DEF Others, OtherTxns, Stays, SameRows
<1>7. AtConn(c)'
  BY <1>1, <1>2, <1>3, <1>4 DEF AtConn
<1>8. Outcome(u)' /\ LeftOver(u, c)'
  BY <1>1, <1>3 DEF Outcome, LeftOver
<1> QED
  BY <1>1, <1>2, <1>3, <1>5, <1>6, <1>7, <1>8, LocalStep

LEMMA RollbackIInv ==
  ASSUME IInv, NEW c \in Conns, Rollback(c)
  PROVE  IInv'
<1>1. /\ pc[c] = "rollback" /\ Rolled(c) /\ Returned(c, err[c])
      /\ UNCHANGED <<pos, err, resume, handle, rows, touched, unconfirmed>>
  BY DEF Rollback, history
<1>2. /\ task[c] \in Txns /\ AtConn(c) /\ TypeInv /\ err[c] \in Codes
      /\ task[c] \notin unconfirmed /\ (task[c] \notin touched => Absent(task[c]))
  BY <1>1, Executing DEF TypeInv
<1>3. PICK u \in Txns : u = task[c]
  BY <1>2
<1>4. /\ writes' \in [Conns -> SUBSET Stmts] /\ sess' \in [Conns -> {"auto", "txn"}]
      /\ \A d \in Conns \ {c} : sess'[d] = sess[d] /\ writes'[d] = writes[d]
      /\ writes'[c] = {} /\ \A t \in Txns : Without(t, c)'
  BY <1>1, <1>2, RolledFacts
<1>5. rows' \in [Stmts -> Nat] /\ \A t \in Txns : RolledBack(t, c)
  BY <1>1, <1>2, <1>4 DEF TypeInv, RolledBack, SameRows
<1>6. u \notin touched => err[c] # "ok" /\ Absent(u)'
  BY <1>1, <1>2, <1>3 DEF AtConn, Absent
<1> QED
  BY <1>1, <1>2, <1>3, <1>4, <1>5, <1>6, ReturnedIInv DEF TypeInv

LEMMA RollbackErrorIInv ==
  ASSUME IInv, NEW c \in Conns, RollbackError(c)
  PROVE  IInv'
<1>1. /\ pc[c] = "rollback" /\ handle[c] /\ Refused(c) /\ Returned(c, err[c])
      /\ touched' = touched \cup {task[c]}
      /\ UNCHANGED <<pos, err, resume, handle, unconfirmed>>
  BY DEF RollbackError
<1>2. /\ task[c] \in Txns /\ TypeInv /\ err[c] \in Codes /\ task[c] \notin unconfirmed
  BY <1>1, Executing DEF TypeInv
<1>3. PICK u \in Txns : u = task[c]
  BY <1>2
<1>4. /\ writes' \in [Conns -> SUBSET Stmts] /\ sess' \in [Conns -> {"auto", "txn"}]
      /\ rows' = rows
      /\ \A d \in Conns \ {c} : sess'[d] = sess[d] /\ writes'[d] = writes[d]
      /\ \A t \in Txns : Stays(t, c) \/ RolledBack(t, c)
  BY <1>1, <1>2, RefusedFacts
<1> QED
  BY <1>1, <1>2, <1>3, <1>4, ReturnedIInv DEF TypeInv

(* COMMIT of a transaction that is not touched applies all of its statements,
   none of which was applied before. *)
LEMMA CommitIInv ==
  ASSUME IInv, NEW c \in Conns, Commit(c)
  PROVE  IInv'
<1>1. /\ pc[c] = "commit" /\ Apply(writes[c]) /\ Rolled(c) /\ Returned(c, "ok")
      /\ UNCHANGED <<pos, err, resume, handle, touched, unconfirmed>>
  BY DEF Commit, history
<1>2. /\ task[c] \in Txns /\ AtConn(c) /\ TypeInv
      /\ task[c] \notin unconfirmed /\ (task[c] \notin touched => Absent(task[c]))
  BY <1>1, Executing
<1>3. PICK u \in Txns : u = task[c]
  BY <1>2
<1>4. /\ writes' \in [Conns -> SUBSET Stmts] /\ sess' \in [Conns -> {"auto", "txn"}]
      /\ \A d \in Conns \ {c} : sess'[d] = sess[d] /\ writes'[d] = writes[d]
      /\ writes'[c] = {} /\ \A t \in Txns : Without(t, c)'
  BY <1>1, <1>2, RolledFacts
<1>5. /\ rows' \in [Stmts -> Nat]
      /\ \A t \in Txns : \A k \in 1..Size[t] :
            rows'[<<t, k>>] = IF <<t, k>> \in writes[c] THEN rows[<<t, k>>] + 1 ELSE rows[<<t, k>>]
  BY <1>1, <1>2, ApplyFacts
<1>6. \A t \in Txns : Committed(t, c)
  BY <1>4, <1>5 DEF Committed
<1>7. u \notin touched => Present(u)'
  <2> SUFFICES ASSUME u \notin touched, NEW k \in 1..Size[u] PROVE rows'[<<u, k>>] = 1
    BY DEF Present
  <2>1. <<u, k>> \in writes[c] /\ rows[<<u, k>>] = 0
    BY <1>1, <1>2, <1>3 DEF AtConn, Absent, StmtsOf
  <2> QED
    BY <1>5, <2>1
<1> QED
  BY <1>1, <1>2, <1>3, <1>4, <1>5, <1>6, <1>7, ReturnedIInv DEF TypeInv, Codes

(* A COMMIT that fails leaves all of the transaction in the session or rolls
   all of it back. *)
LEMMA CommitErrorIInv ==
  ASSUME IInv, NEW c \in Conns, CommitError(c)
  PROVE  IInv'
<1>1. /\ pc[c] = "commit" /\ handle[c] /\ Refused(c) /\ Returned(c, "ok")
      /\ unconfirmed' = unconfirmed \cup {task[c]}
      /\ UNCHANGED <<pos, err, resume, handle, touched>>
  BY DEF CommitError
<1>2. /\ task[c] \in Txns /\ AtConn(c) /\ TypeInv
      /\ (task[c] \notin touched => Absent(task[c]))
  BY <1>1, Executing
<1>3. PICK u \in Txns : u = task[c]
  BY <1>2
<1>4. /\ writes' \in [Conns -> SUBSET Stmts] /\ sess' \in [Conns -> {"auto", "txn"}]
      /\ rows' = rows
      /\ \A d \in Conns \ {c} : sess'[d] = sess[d] /\ writes'[d] = writes[d]
      /\ writes'[c] = writes[c] \/ writes'[c] = {}
      /\ \A t \in Txns : Stays(t, c) \/ RolledBack(t, c)
  BY <1>1, <1>2, RefusedFacts
<1>5. u \notin touched =>
        /\ Absent(u)'
        /\ Without(u, c)' \/ StmtsOf(u) \subseteq writes'[c]
  BY <1>1, <1>2, <1>3, <1>4 DEF AtConn, Absent, Without
<1> QED
  BY <1>1, <1>2, <1>3, <1>4, <1>5, ReturnedIInv DEF TypeInv, Codes

(* The session is lost: what was not committed goes with it, what was executed
   or committed before the answer was lost stays. *)
LEMMA LoseIInv ==
  ASSUME IInv, NEW c \in Conns, Lose(c)
  PROVE  IInv'
<1>1. /\ pc[c] \in {"begin", "exec", "rollback", "commit"} /\ Size[task[c]] > 0
      /\ touched' = touched \cup {task[c]}
      /\ \/ UNCHANGED rows
         \/ pc[c] = "exec" /\ sess[c] = "auto" /\ Apply({NextStmt(c)})
         \/ pc[c] \in {"begin", "commit"} /\ Apply(writes[c])
      /\ Rolled(c)
      /\ handle' = [handle EXCEPT ![c] = FALSE] /\ resume' = [resume EXCEPT ![c] = pc[c]]
      /\ pc' = [pc EXCEPT ![c] = "reconnect"]
      /\ UNCHANGED <<task, pos, err, result, unconfirmed>>
  BY DEF Lose
<1>2. /\ task[c] \in Txns /\ AtConn(c) /\ TypeInv
      /\ result[task[c]] = "none" /\ task[c] # NoTxn /\ task[c] \notin unconfirmed
  BY <1>1, Executing
<1>3. PICK u \in Txns : u = task[c]
  BY <1>2
<1>4. /\ writes' \in [Conns -> SUBSET Stmts] /\ sess' \in [Conns -> {"auto", "txn"}]
      /\ \A d \in Conns \ {c} : sess'[d] = sess[d] /\ writes'[d] = writes[d]
      /\ writes'[c] = {} /\ \A t \in Txns : Without(t, c)'
  BY <1>1, <1>2, RolledFacts
<1>5. /\ rows' \in [Stmts -> Nat]
      /\ \A t \in Txns \ {u} : RolledBack(t, c) \/ Committed(t, c)
  <2>1. CASE UNCHANGED rows
    BY <1>2, <1>4, <2>1 DEF TypeInv, RolledBack, SameRows
  <2>2. CASE Apply({NextStmt(c)})
    <3>1. /\ rows' \in [Stmts -> Nat]
          /\ \A t \in Txns : \A k \in 1..Size[t] :
                rows'[<<t, k>>] = IF <<t, k>> \in {NextStmt(c)} THEN rows[<<t, k>>] + 1
                                                             ELSE rows[<<t, k>>]
      BY <1>2, <2>2, ApplyFacts
    <3> QED
      BY <1>3, <1>4, <3>1 DEF RolledBack, SameRows, NextStmt
  <2>3. CASE Apply(writes[c])
    <3>1. /\ rows' \in [Stmts -> Nat]
          /\ \A t \in Txns : \A k \in 1..Size[t] :
                rows'[<<t, k>>] = IF <<t, k>> \in writes[c] THEN rows[<<t, k>>] + 1
                                                         ELSE rows[<<t, k>>]
      BY <1>2, <2>3, ApplyFacts
    <3> QED
      BY <1>4, <3>1 DEF Committed
  <2> QED
    BY <1>1, <2>1, <2>2, <2>3
<1>6. /\ pc' \in [Conns -> States] /\ resume' \in [Conns -> States] /\ handle' \in [Conns -> BOOLEAN]
      /\ pc'[c] = "reconnect" /\ resume'[c] = pc[c] /\ ~handle'[c]
      /\ \A d \in Conns \ {c} : pc'[d] = pc[d] /\ resume'[d] = resume[d] /\ handle'[d] = handle[d]
  BY <1>1, <1>2 DEF TypeInv, States
<1>7. TypeInv'
  BY <1>1, <1>2, <1>4, <1>5, <1>6 DEF TypeInv
<1>8. Others(c) /\ OtherTxns(c)
  BY <1>1, <1>3, <1>4, <1>5, <1>6 DEF Others, OtherTxns
<1>9. AtConn(c)'
  BY <1>1, <1>2, <1>3, <1>4, <1>6 DEF AtConn
<1>10. Outcome(u)' /\ LeftOver(u, c)'
  BY <1>1, <1>3 DEF Outcome, LeftOver
<1> QED
  BY <1>1, <1>2, <1>3, <1>7, <1>8, <1>9, <1>10, LocalStep

LEMMA ReconnectIInv ==
  ASSUME IInv, NEW c \in Conns, Reconnect(c)
  PROVE  IInv'
<1>1. /\ pc[c] = "reconnect"
      /\ handle' = [handle EXCEPT ![c] = TRUE] /\ pc' = [pc EXCEPT ![c] = resume[c]]
      /\ UNCHANGED <<task, pos, err, resume, result, sess, writes, rows, touched, unconfirmed>>
  BY DEF Reconnect, serverVars, history
<1>2. /\ task[c] \in Txns /\ AtConn(c) /\ TypeInv /\ task[c] \in touched
      /\ result[task[c]] = "none" /\ task[c] # NoTxn /\ task[c] \notin unconfirmed
  BY <1>1, Executing DEF AtConn
<1>3. PICK u \in Txns : u = task[c]
  BY <1>2
<1>4. /\ pc' \in [Conns -> States] /\ handle' \in [Conns -> BOOLEAN]
      /\ pc'[c] = resume[c] /\ handle'[c]
      /\ \A d \in Conns \ {c} : pc'[d] = pc[d] /\ handle'[d] = handle[d]
  BY <1>1, <1>2 DEF TypeInv, States
<1>5. TypeInv'
  BY <1>1, <1>2, <1>4 DEF TypeInv
<1>6. Others(c) /\ OtherTxns(c)
  BY <1>1, <1>4 DEF Others, OtherTxns, Stays, SameRows
<1>7. AtConn(c)'
  BY <1>1, <1>2, <1>4 DEF AtConn
<1>8. Outcome(u)' /\ LeftOver(u, c)'
  BY <1>1, <1>2, <1>3 DEF Outcome, LeftOver
<1> QED
  BY <1>1, <1>2, <1>3, <1>5, <1>6, <1>7, <1>8, LocalStep

(* Execute gives up: BeginTransaction, RollbackTransaction and
   CommitTransaction go on as if nothing had happened. *)
LEMMA ReconnectGivesUpIInv ==
  ASSUME IInv, NEW c \in Conns, NEW code \in Codes, ReconnectGivesUp(c, code)
  PROVE  IInv'
<1>1. /\ pc[c] = "reconnect"
      /\ UNCHANGED <<resume, handle, sess, writes, rows, touched, unconfirmed>>
  BY DEF ReconnectGivesUp, serverVars, history
<1>2. /\ task[c] \in Txns /\ AtConn(c) /\ TypeInv /\ ~handle[c]
      /\ result[task[c]] = "none" /\ task[c] # NoTxn /\ err[c] \in Codes
      /\ task[c] \in touched /\ Size[task[c]] > 0
      /\ task[c] \notin unconfirmed /\ writes[c] = {}
  BY <1>1, Executing DEF AtConn, TypeInv
<1>3. PICK u \in Txns : u = task[c]
  BY <1>2
<1>4. \A t \in Txns : Stays(t, c)
  BY <1>1 DEF Stays, SameRows
<1>5. Outcome(u)' /\ LeftOver(u, c)'
  BY <1>1, <1>2, <1>3 DEF Outcome, LeftOver
<1>6. CASE /\ pc' = [pc EXCEPT ![c] = "exec"] /\ pos' = [pos EXCEPT ![c] = 1]
           /\ UNCHANGED <<task, err, result>>
  <2>1. /\ pc' \in [Conns -> States] /\ pos' \in [Conns -> Nat]
        /\ pc'[c] = "exec" /\ pos'[c] = 1
        /\ \A d \in Conns \ {c} : pc'[d] = pc[d] /\ pos'[d] = pos[d]
    BY <1>2, <1>6 DEF TypeInv, States
  <2>2. TypeInv'
    BY <1>1, <1>2, <1>6, <2>1 DEF TypeInv
  <2>3. Others(c) /\ OtherTxns(c)
    BY <1>1, <1>4, <1>6, <2>1 DEF Others, OtherTxns
  <2>4. 1 \in 1..Size[u]
    BY <1>2, <1>3, ConstantsAssumption
  <2>5. AtConn(c)'
    BY <1>1, <1>2, <1>3, <1>6, <2>1, <2>4 DEF AtConn
  <2> QED
    BY <1>1, <1>2, <1>3, <1>5, <1>6, <2>2, <2>3, <2>5, LocalStep
<1>7. CASE /\ pc' = [pc EXCEPT ![c] = "rollback"] /\ err' = [err EXCEPT ![c] = code]
           /\ UNCHANGED <<task, pos, result>>
  <2>1. /\ pc' \in [Conns -> States] /\ err' \in [Conns -> Codes] /\ pc'[c] = "rollback"
        /\ \A d \in Conns \ {c} : pc'[d] = pc[d] /\ err'[d] = err[d]
    BY <1>2, <1>7 DEF TypeInv, States
  <2>2. TypeInv'
    BY <1>1, <1>2, <1>7, <2>1 DEF TypeInv
  <2>3. Others(c) /\ OtherTxns(c)
    BY <1>1, <1>4, <1>7, <2>1 DEF Others, OtherTxns
  <2>4. AtConn(c)'
    BY <1>1, <1>2, <1>3, <1>7, <2>1 DEF AtConn
  <2> QED
    BY <1>1, <1>2, <1>3, <1>5, <1>7, <2>2, <2>3, <2>4, LocalStep
<1>8. ASSUME NEW reported \in Codes, Returned(c, reported), UNCHANGED <<pos, err>> PROVE IInv'
  BY <1>1, <1>2, <1>3, <1>4, <1>8, ReturnedIInv DEF TypeInv
<1> QED
  BY <1>2, <1>6, <1>7, <1>8 DEF ReconnectGivesUp, Codes

LEMMA NextIInv ==
  ASSUME IInv, [Next]_vars
  PROVE  IInv'
<1>1. ASSUME UNCHANGED <<task, pc, pos, err, resume, handle, result, sess, writes, rows, touched, unconfirmed>>
      PROVE  IInv'
  <2>1. TypeInv' /\ OneConn'
    BY <1>1 DEF IInv, TypeInv, OneConn
  <2>2. ASSUME NEW c \in Conns PROVE AtConn(c)'
    <3>1. AtConn(c)
      BY DEF IInv
    <3> QED
      BY <1>1, <3>1 DEF AtConn, Without, StmtsOf
  <2>3. ASSUME NEW t \in Txns PROVE AtTxn(t)'
    <3>1. AtTxn(t)
      BY DEF IInv
    <3>2. Outcome(t)'
      BY <1>1, <3>1 DEF AtTxn, Outcome, Present, Absent
    <3>3. ASSUME NEW c \in Conns PROVE LeftOver(t, c)'
      <4>1. LeftOver(t, c)
        BY <3>1 DEF AtTxn
      <4> QED
        BY <1>1, <4>1 DEF LeftOver, Without, Absent, StmtsOf
    <3> QED
      BY <1>1, <3>1, <3>2, <3>3 DEF AtTxn
  <2> QED
    BY <2>1, <2>2, <2>3 DEF IInv
<1>2. CASE UNCHANGED vars
  BY <1>1, <1>2 DEF vars, clientVars, serverVars, history
<1>3. ASSUME NEW c \in Conns, ReconnectFails(c) \/ Abort(c) PROVE IInv'
  BY <1>1, <1>3 DEF ReconnectFails, Abort, serverVars, history
<1>4. ASSUME NEW c \in Conns, Step(c) PROVE IInv'
  BY <1>3, <1>4, EnterRetryIInv, RefuseIInv, BeginIInv, BeginErrorIInv, ExecuteOkIInv,
     ExecuteErrorIInv, ExecuteNoHandleIInv, RollbackIInv, RollbackErrorIInv, CommitIInv,
     CommitErrorIInv, LoseIInv, ReconnectIInv, ReconnectGivesUpIInv DEF Step
<1> QED
  BY <1>2, <1>4, StartIInv DEF Next, Terminated

-----------------------------------------------------------------------------
(* The invariant holds in every reachable state. *)
THEOREM Invariance == Spec => []IInv
<1>1. Init => IInv
  BY InitIInv
<1>2. IInv /\ [Next]_vars => IInv'
  BY NextIInv
<1> QED
  BY <1>1, <1>2, PTL DEF Spec

(* As long as it keeps its connection and its START TRANSACTION and ROLLBACK
   succeed, a transaction that TransactionTask or DirectCommitTransaction
   reports as done was applied once, with all of its statements and through any
   number of deadlocks and retries, or its COMMIT failed, unnoticed, and it is
   applied whole or not at all, whatever the connection goes on to execute; one
   that is not reported yet, or given up, has left nothing behind. *)
THEOREM OutcomeCorrect == Spec => []OutcomeUnlessLost
<1>1. IInv => OutcomeUnlessLost
  BY DEF IInv, AtTxn, Outcome, OutcomeUnlessLost
<1> QED
  BY <1>1, Invariance, PTL

=============================================================================
