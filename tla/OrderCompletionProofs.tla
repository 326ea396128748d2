----------------------- MODULE OrderCompletionProofs -----------------------
(***************************************************************************)
(* However many packing requests interleave, and whatever is lost between  *)
(* them, no package is counted twice: the total a session loads is within  *)
(* the packages, and packages are only inserted, corrections as well.  The *)
(* ledger gets no more of a package than was put into the box, and because *)
(* no package is ever deleted and no completed_at cleared, what a          *)
(* completion check has read still shows at its commit.  The order's own   *)
(* steps leave all of packing alone.                                       *)
(***************************************************************************)
EXTENDS OrderCompletion, FiniteFacts

(* The idle session has read nothing.                                      *)
LEMMA IdleSession == PackIdle \in PackSession /\ SessionInv(PackIdle)
BY DEF PackIdle, PackSession, PackingStatus, SessionInv

(* A quantity is what it puts in less what it takes out.                   *)
LEMMA PositiveParts ==
  ASSUME NEW n \in Int
  PROVE  /\ Positive(n) \in Nat /\ Positive(-n) \in Nat
         /\ n = Positive(n) - Positive(-n)
         /\ n > 0 => Positive(-n) = 0
         /\ n <= 0 => Positive(n) = 0
BY DEF Positive

(* Cutting a quantity to whole pieces takes less than a piece from it.     *)
LEMMA WholePieces ==
  ASSUME NEW n \in Nat
  PROVE  /\ Whole(n) \in Nat /\ Whole(n) <= n /\ n - (Scale - 1) <= Whole(n)
         /\ n = 0 => Whole(n) = 0
BY PackingAssumption DEF Whole

(* Packages are only inserted: the sums only grow, and the total may grow  *)
(* with them.                                                              *)
LEMMA PackagesGrow ==
  ASSUME NEW p \in Packages, NEW n \in Int
  PROVE  /\ PackagesWith(p, n) \in Packages
         /\ PackagesWith(p, n).put = p.put + Positive(n)
         /\ PackagesWith(p, n).taken = p.taken + Positive(-n)
         /\ PackagesWith(p, n).puts = p.puts + (IF n > 0 THEN 1 ELSE 0)
         /\ PackagesWith(p, n).takes = p.takes + (IF n < 0 THEN 1 ELSE 0)
<1>1. Positive(n) \in Nat /\ Positive(-n) \in Nat
  BY PositiveParts
<1>2. p.put \in Nat /\ p.taken \in Nat /\ p.puts \in Nat /\ p.takes \in Nat
  BY DEF Packages
<1> QED
  BY <1>1, <1>2 DEF PackagesWith, Packages

LEMMA WithinMore ==
  ASSUME NEW p \in Packages, NEW n \in Int, NEW total \in Int, Within(total, p)
  PROVE  Within(total, PackagesWith(p, n)) /\ Within(total + n, PackagesWith(p, n))
<1>1. /\ Positive(n) \in Nat /\ Positive(-n) \in Nat
      /\ n = Positive(n) - Positive(-n)
  BY PositiveParts
<1>2. p.put \in Nat /\ p.taken \in Nat /\ -p.taken <= total /\ total <= p.put
  BY DEF Packages, Within
<1>3. /\ PackagesWith(p, n).put = p.put + Positive(n)
      /\ PackagesWith(p, n).taken = p.taken + Positive(-n)
  BY PackagesGrow
<1> QED
  BY <1>1, <1>2, <1>3 DEF Within

(* The initial state satisfies the invariant.                              *)
LEMMA InitIInv == Init => IInv
<1> SUFFICES ASSUME Init PROVE IInv
  OBVIOUS
<1>1. TypeOK
  BY IdleSession DEF Init, PackInit, TypeOK, PackTypeOK, PackRow, PackingStatus, Packages, Empty
<1>2. TaskNeverOverstates
  BY DEF Init, PackInit, TaskNeverOverstates, Within, Empty
<1>3. \A r \in Request : SessionInv(preq[r])
  BY IdleSession DEF Init, PackInit
<1> QED
  BY <1>1, <1>2, <1>3 DEF IInv

(* A packing step that writes no row keeps the invariant if the one        *)
(* session it changes is well-typed and has loaded what is within them.    *)
LEMMA ReadStep ==
  ASSUME IInv, NEW r \in Request, NEW q \in PackSession, SessionInv(q),
         preq' = [preq EXCEPT ![r] = q],
         UNCHANGED <<pack, boxed, packed, manual, orderVars>>
  PROVE  IInv'
<1>1. TypeOK'
  BY DEF IInv, TypeOK, PackTypeOK, orderVars
<1>2. TaskNeverOverstates'
  BY DEF IInv, TaskNeverOverstates
<1>3. ASSUME NEW p \in Request PROVE SessionInv(preq[p])'
  <2>1. preq'[p] = IF p = r THEN q ELSE preq[p]
    BY DEF IInv, TypeOK, PackTypeOK
  <2>2. SessionInv(preq[p])
    BY DEF IInv
  <2> QED
    BY <2>1, <2>2 DEF SessionInv
<1> QED
  BY <1>1, <1>2, <1>3 DEF IInv

(* add_package and verify_packing load a task.                             *)
LEMMA LoadsStep ==
  ASSUME IInv, NEW r \in Request, NEW t \in PackTask, NEW op \in {"add", "verify"},
         NEW n \in Int, Loads(r, op, t, n), UNCHANGED orderVars
  PROVE  IInv'
<1> DEFINE q == [ op |-> op, task |-> {t}, qty |-> n, status |-> pack[t].status,
                  total |-> pack[t].packed, target |-> pack[t].target ]
<1>1. pack[t] \in PackRow
  BY DEF IInv, TypeOK, PackTypeOK
<1>2. q \in PackSession
  BY <1>1 DEF PackSession, PackRow
<1>3. SessionInv(q)
  BY DEF SessionInv, IInv, TaskNeverOverstates
<1> QED
  BY <1>2, <1>3, ReadStep DEF Loads

LEMMA CreatePackTaskStep ==
  ASSUME IInv, NEW t \in PackTask, NEW n \in TaskTarget,
         CreatePackTask(t, n), UNCHANGED orderVars
  PROVE  IInv'
<1>1. n \in Int
  BY PackingAssumption
<1>2. TypeOK'
  BY <1>1 DEF CreatePackTask, IInv, TypeOK, PackTypeOK, PackRow, PackingStatus, orderVars
<1>3. TaskNeverOverstates'
  <2>1. \A u \in PackTask : boxed[u].put \in Nat /\ boxed[u].taken \in Nat
    BY DEF IInv, TypeOK, PackTypeOK, Packages
  <2> QED
    BY <2>1 DEF CreatePackTask, IInv, TypeOK, PackTypeOK, TaskNeverOverstates, Within
<1>4. (\A r \in Request : SessionInv(preq[r]))'
  BY DEF CreatePackTask, IInv, SessionInv
<1> QED
  BY <1>2, <1>3, <1>4 DEF IInv

(* The commit: the new total is the loaded one and the package's quantity, *)
(* which is inserted with it.                                              *)
LEMMA CommitPackStep ==
  ASSUME IInv, NEW r \in Request, CommitPack(r), UNCHANGED orderVars
  PROVE  IInv'
<1> DEFINE q == preq[r]
<1>1. q \in PackSession /\ SessionInv(q)
  BY DEF IInv, TypeOK, PackTypeOK
<1>2. q.qty \in Int /\ q.total \in Int /\ q.target \in Int /\ q.status \in PackingStatus
  BY <1>1 DEF PackSession
<1>3. Booked(q) \in Int
  <2>1. Positive(q.qty) \in Nat /\ Positive(-q.qty) \in Nat
    BY <1>2, PositiveParts
  <2>2. Whole(Positive(q.qty)) \in Nat /\ Whole(Positive(-q.qty)) \in Nat
    BY <2>1, WholePieces
  <2> QED
    BY <2>2 DEF Booked
<1>4. Assigned(q) \in PackingStatus
  BY <1>2 DEF Assigned, PackingStatus
<1>5. ASSUME NEW t \in PackTask
      PROVE  /\ pack'[t] = PackAfter(q, t)
             /\ boxed'[t] = IF t \in q.task THEN PackagesWith(boxed[t], q.qty) ELSE boxed[t]
             /\ pack[t] \in PackRow /\ boxed[t] \in Packages
  BY DEF CommitPack, IInv, TypeOK, PackTypeOK
<1>6. ASSUME NEW t \in PackTask, NEW total \in Int, Within(total, boxed[t])
      PROVE  Within(total, boxed'[t])
  BY <1>2, <1>5, <1>6, WithinMore
<1>7. ASSUME NEW t \in PackTask
      PROVE  /\ pack'[t] \in PackRow /\ boxed'[t] \in Packages
             /\ Within(pack'[t].packed, boxed'[t])
  <2>1. /\ Within(pack[t].packed, boxed[t]) /\ pack[t].packed \in Int
        /\ pack[t] \in PackRow /\ boxed[t] \in Packages
    BY <1>5 DEF IInv, TaskNeverOverstates, PackRow
  <2>2. Within(pack[t].packed, boxed'[t])
    BY <1>6, <2>1
  <2>3. CASE t \in q.task
    <3> DEFINE st == IF Assigned(q) # q.status THEN Assigned(q) ELSE pack[t].status
               pk == IF q.qty # 0 THEN q.total + q.qty ELSE pack[t].packed
    <3>1. st \in PackingStatus /\ pack[t].target \in Int
      BY <1>4, <2>1 DEF PackRow
    <3>2. boxed'[t] = PackagesWith(boxed[t], q.qty)
      BY <1>5, <2>3
    <3>3. Within(q.total + q.qty, boxed'[t])
      <4>1. Within(q.total, boxed[t])
        BY <1>1, <2>3 DEF SessionInv
      <4> HIDE DEF q
      <4> QED
        BY <1>2, <2>1, <3>2, <4>1, WithinMore
    <3>4. pk \in Int /\ Within(pk, boxed'[t])
      BY <1>2, <2>1, <2>2, <3>3
    <3>5. pack'[t] = [status |-> st, target |-> pack[t].target, packed |-> pk]
      BY <1>5, <2>3 DEF PackAfter
    <3> HIDE DEF st, pk
    <3>6. pack'[t] \in PackRow /\ pack'[t].packed = pk
      BY <3>1, <3>4, <3>5 DEF PackRow
    <3>7. boxed'[t] \in Packages
      BY <1>2, <2>1, <3>2, PackagesGrow
    <3> QED
      BY <3>4, <3>6, <3>7
  <2>4. CASE t \notin q.task
    <3>1. pack'[t] = pack[t] /\ boxed'[t] = boxed[t]
      <4> HIDE DEF q
      <4> QED
        BY <1>5, <2>4, Zenon DEF PackAfter
    <3> QED
      BY <2>1, <3>1
  <2> QED
    BY <2>3, <2>4
<1>8. TypeOK'
  <2>1. pack' \in [PackTask -> PackRow] /\ boxed' \in [PackTask -> Packages]
    <3>1. pack' = [t \in PackTask |-> pack'[t]] /\ boxed' = [t \in PackTask |-> boxed'[t]]
      BY DEF CommitPack
    <3> QED
      BY <1>7, <3>1
  <2>2. packed' \in Int /\ manual' \in Nat
    BY <1>3 DEF CommitPack, IInv, TypeOK, PackTypeOK
  <2>3. preq' \in [Request -> PackSession]
    BY IdleSession DEF CommitPack, IInv, TypeOK, PackTypeOK
  <2> QED
    BY <2>1, <2>2, <2>3 DEF IInv, TypeOK, PackTypeOK, orderVars
<1>9. TaskNeverOverstates'
  BY <1>7 DEF TaskNeverOverstates, Within
<1>10. ASSUME NEW p \in Request PROVE SessionInv(preq[p])'
  <2>1. preq'[p] = IF p = r THEN PackIdle ELSE preq[p]
    BY DEF CommitPack, IInv, TypeOK, PackTypeOK
  <2>2. SessionInv(preq[p]) /\ preq[p] \in PackSession /\ preq[p].total \in Int
    BY DEF IInv, TypeOK, PackTypeOK, PackSession
  <2>3. CASE p = r
    BY <2>1, <2>3 DEF SessionInv, PackIdle
  <2>4. CASE p # r
    <3>1. ASSUME NEW t \in PackTask, t \in preq[p].task
          PROVE  Within(preq[p].total, boxed'[t])
      <4>1. Within(preq[p].total, boxed[t])
        BY <2>2, <3>1 DEF SessionInv
      <4> QED
        BY <1>6, <2>2, <4>1
    <3>2. preq'[p] = preq[p]
      BY <2>1, <2>4
    <3> QED
      BY <3>1, <3>2 DEF SessionInv, Within
  <2> QED
    BY <2>3, <2>4
<1> QED
  BY <1>8, <1>9, <1>10 DEF IInv

(* The steps of packing.                                                   *)
LEMMA PackStep == IInv /\ PackNext /\ UNCHANGED orderVars => IInv'
<1> SUFFICES ASSUME IInv, PackNext, UNCHANGED orderVars PROVE IInv'
  OBVIOUS
<1>1. ASSUME NEW t \in PackTask, NEW n \in TaskTarget, CreatePackTask(t, n) PROVE IInv'
  BY <1>1, CreatePackTaskStep
<1>2. ASSUME NEW r \in Request, NEW t \in PackTask, BeginVerify(r, t) PROVE IInv'
  BY <1>2, LoadsStep DEF BeginVerify
<1>3. ASSUME NEW r \in Request, NEW t \in PackTask, NEW n \in Quantity, BeginPack(r, t, n)
      PROVE  IInv'
  BY <1>3, LoadsStep, PackingAssumption DEF BeginPack
<1>4. ASSUME NEW r \in Request, CommitPack(r) PROVE IInv'
  BY <1>4, CommitPackStep
<1>5. ASSUME NEW r \in Request, RollbackPack(r) PROVE IInv'
  BY <1>5, IdleSession, ReadStep DEF RollbackPack
<1>6. ASSUME NEW n \in ByHand, BookByHand(n) PROVE IInv'
  <2>1. n \in Nat /\ packed \in Int /\ manual \in Nat
    BY <1>6, PackingAssumption DEF BookByHand, IInv, TypeOK, PackTypeOK
  <2>2. packed' \in Int /\ manual' \in Nat
    BY <1>6, <2>1 DEF BookByHand
  <2> QED
    BY <1>6, <2>2 DEF BookByHand, IInv, TypeOK, PackTypeOK, TaskNeverOverstates, SessionInv, orderVars
<1> QED
  BY <1>1, <1>2, <1>3, <1>4, <1>5, <1>6 DEF PackNext

(* The steps of the order, which leave packing alone.                      *)
LEMMA OrderStep ==
  ASSUME IInv, UNCHANGED packVars, TypeOK'
  PROVE  IInv'
BY DEF IInv, packVars, TaskNeverOverstates, SessionInv

LEMMA NextIInv == IInv /\ [Next]_vars => IInv'
<1> SUFFICES ASSUME IInv, [Next]_vars PROVE IInv'
  OBVIOUS
<1> USE DEF packVars
<1>1. ASSUME NEW s \in Step, CompleteStep(s) \/ UndoStep(s) PROVE IInv'
  <2>1. TypeOK' /\ UNCHANGED packVars
    BY <1>1 DEF CompleteStep, UndoStep, IInv, TypeOK, PackTypeOK
  <2> QED
    BY <2>1, OrderStep
<1>2. CASE Reopen
  <2>1. TypeOK' /\ UNCHANGED packVars
    BY <1>2 DEF Reopen, IInv, TypeOK, PackTypeOK
  <2> QED
    BY <2>1, OrderStep
<1>3. ASSUME NEW c \in Clerk, Check(c) \/ GiveUp(c) PROVE IInv'
  <2>1. TypeOK' /\ UNCHANGED packVars
    BY <1>3 DEF Check, GiveUp, CheckWorkflows, CheckPacking, CheckQuantities, Moves,
                CommitCompletion, IInv, TypeOK, PackTypeOK
  <2> QED
    BY <2>1, OrderStep
<1>4. CASE UNCHANGED vars
  BY <1>4 DEF vars, orderVars, IInv, TypeOK, PackTypeOK, TaskNeverOverstates, SessionInv
<1> QED
  BY <1>1, <1>2, <1>3, <1>4, PackStep DEF Next

THEOREM InductiveInvariant == Spec => []IInv
BY InitIInv, NextIInv, PTL DEF Spec

(* Every row of packing and of the order, and every session, keeps its     *)
(* type.                                                                   *)
THEOREM TypeCorrect == Spec => []TypeOK
<1>1. IInv => TypeOK
  BY DEF IInv
<1> QED
  BY <1>1, InductiveInvariant, PTL

(* No interleaving of add_package requests makes a packing task claim more *)
(* than was put into its packages, or lose more than was taken out again:  *)
(* updates are lost, never invented.                                       *)
THEOREM TasksNeverOverstate == Spec => []TaskNeverOverstates
<1>1. IInv => TaskNeverOverstates
  BY DEF IInv
<1> QED
  BY <1>1, InductiveInvariant, PTL

-----------------------------------------------------------------------------
(* The ledger. A session packs into at most one task, so a commit adds the *)
(* package's quantity to one box, and its whole pieces to the ledger.      *)
OneTask(q) == q.op # "idle" => \E t \in PackTask : q.task = {t}
IdleIsEmpty(q) == q.op = "idle" => q = PackIdle

Leasts == SumFunction([t \in PackTask |-> Least(boxed[t])])
Mosts == SumFunction([t \in PackTask |-> Most(boxed[t])])
Puts == SumFunction([t \in PackTask |-> boxed[t].put])

LedgerInv ==
    /\ Leasts <= packed - manual /\ packed - manual <= Mosts
    /\ packed - manual <= Puts
    /\ \A r \in Request : OneTask(preq[r]) /\ IdleIsEmpty(preq[r])

(* What a package adds to the bounds.                                      *)
LeastAdded(n) == n - (IF n > 0 THEN Scale - 1 ELSE 0)
MostAdded(n) == n + (IF n < 0 THEN Scale - 1 ELSE 0)

LEMMA BoundsGrow ==
  ASSUME NEW p \in Packages, NEW n \in Int
  PROVE  /\ Least(p) \in Int /\ Most(p) \in Int /\ p.put \in Int
         /\ LeastAdded(n) \in Int /\ MostAdded(n) \in Int /\ Positive(n) \in Int
         /\ Least(PackagesWith(p, n)) = Least(p) + LeastAdded(n)
         /\ Most(PackagesWith(p, n)) = Most(p) + MostAdded(n)
<1> DEFINE w == PackagesWith(p, n)
           s == Scale - 1
           i == IF n > 0 THEN 1 ELSE 0
           o == IF n < 0 THEN 1 ELSE 0
           u == Positive(n)
           d == Positive(-n)
<1>1. /\ s \in Nat /\ u \in Nat /\ d \in Nat /\ n = u - d /\ i \in Nat /\ o \in Nat
      /\ p.put \in Nat /\ p.taken \in Nat /\ p.puts \in Nat /\ p.takes \in Nat
  BY PackingAssumption, PositiveParts DEF Packages
<1>2. /\ w.put = p.put + u /\ w.taken = p.taken + d
      /\ w.puts = p.puts + i /\ w.takes = p.takes + o
  BY PackagesGrow
<1>3. LeastAdded(n) = n - s * i /\ MostAdded(n) = n + s * o
  BY <1>1 DEF LeastAdded, MostAdded
<1>4. /\ s * i \in Nat /\ s * o \in Nat /\ s * p.puts \in Nat /\ s * p.takes \in Nat
      /\ s * (p.puts + i) = s * p.puts + s * i
      /\ s * (p.takes + o) = s * p.takes + s * o
  <2> DEFINE a == p.puts
             b == p.takes
  <2> HIDE DEF s, i, o, a, b
  <2>1. s * (a + i) = s * a + s * i /\ s * (b + o) = s * b + s * o
    BY <1>1 DEF a, b
  <2>2. s * i \in Nat /\ s * o \in Nat /\ s * a \in Nat /\ s * b \in Nat
    BY <1>1 DEF a, b
  <2> QED
    BY <2>1, <2>2 DEF a, b
<1>5. /\ Least(p) = p.put - p.taken - s * p.puts
      /\ Most(p) = p.put - p.taken + s * p.takes
      /\ Least(w) = w.put - w.taken - s * w.puts
      /\ Most(w) = w.put - w.taken + s * w.takes
  BY DEF Least, Most
<1> DEFINE x == s * p.puts
           y == s * p.takes
           si == s * i
           so == s * o
           pp == p.put
           pt == p.taken
<1>6. /\ Least(p) = pp - pt - x /\ Most(p) = pp - pt + y
      /\ Least(w) = (pp + u) - (pt + d) - (x + si)
      /\ Most(w) = (pp + u) - (pt + d) + (y + so)
      /\ x \in Nat /\ y \in Nat /\ si \in Nat /\ so \in Nat /\ pp \in Nat /\ pt \in Nat
      /\ u \in Nat /\ d \in Nat /\ n = u - d
      /\ LeastAdded(n) = n - si /\ MostAdded(n) = n + so
  BY <1>1, <1>2, <1>3, <1>4, <1>5
<1> HIDE DEF w, x, y, si, so, u, d, pp, pt
<1>7. /\ Least(p) \in Int /\ Most(p) \in Int
      /\ LeastAdded(n) \in Int /\ MostAdded(n) \in Int
      /\ Least(w) = Least(p) + LeastAdded(n) /\ Most(w) = Most(p) + MostAdded(n)
  BY <1>6
<1> QED
  BY <1>1, <1>7 DEF w, u

(* The ledger's whole pieces are between them.                             *)
LEMMA BookedBetween ==
  ASSUME NEW q, q.qty \in Int
  PROVE  /\ Booked(q) \in Int /\ Booked(q) <= Positive(q.qty)
         /\ LeastAdded(q.qty) <= Booked(q) /\ Booked(q) <= MostAdded(q.qty)
<1> DEFINE n == q.qty
           u == Positive(n)
           d == Positive(-n)
<1>1. /\ u \in Nat /\ d \in Nat /\ n = u - d
      /\ n > 0 => d = 0
      /\ n <= 0 => u = 0
  BY PositiveParts
<1>2. /\ Whole(u) \in Nat /\ Whole(u) <= u /\ u - (Scale - 1) <= Whole(u)
      /\ Whole(d) \in Nat /\ Whole(d) <= d /\ d - (Scale - 1) <= Whole(d)
      /\ u = 0 => Whole(u) = 0
      /\ d = 0 => Whole(d) = 0
  BY <1>1, WholePieces
<1>3. Booked(q) = Whole(u) - Whole(d)
  BY DEF Booked
<1>4. n \in Int /\ Scale \in Nat /\ Scale > 0
  BY PackingAssumption
<1> HIDE DEF n, u, d
<1>5. /\ Booked(q) \in Int /\ Booked(q) <= u
      /\ LeastAdded(n) <= Booked(q) /\ Booked(q) <= MostAdded(n)
  <2>1. CASE n > 0
    BY <1>1, <1>2, <1>3, <1>4, <2>1 DEF LeastAdded, MostAdded
  <2>2. CASE n = 0
    BY <1>1, <1>2, <1>3, <1>4, <2>2 DEF LeastAdded, MostAdded
  <2>3. CASE n < 0
    BY <1>1, <1>2, <1>3, <1>4, <2>3 DEF LeastAdded, MostAdded
  <2> QED
    BY <1>4, <2>1, <2>2, <2>3
<1> QED
  BY <1>5 DEF n, u

(* The sums over the boxes grow with one of them.                          *)
LEMMA BoxesTyped ==
  ASSUME IInv PROVE Leasts \in Int /\ Mosts \in Int /\ Puts \in Int
<1>1. ASSUME NEW t \in PackTask
      PROVE  Least(boxed[t]) \in Int /\ Most(boxed[t]) \in Int /\ boxed[t].put \in Int
  <2>1. boxed[t] \in Packages /\ 0 \in Int
    BY DEF IInv, TypeOK, PackTypeOK
  <2> QED
    BY <2>1, BoundsGrow
<1> QED
  BY <1>1, SumType, PackingAssumption DEF Leasts, Mosts, Puts, SumFunction

LEMMA BoxesSum ==
  ASSUME IInv, NEW t \in PackTask, NEW n \in Int,
         \A u \in PackTask :
            boxed'[u] = IF u = t THEN PackagesWith(boxed[u], n) ELSE boxed[u]
  PROVE  /\ Leasts' = Leasts + LeastAdded(n)
         /\ Mosts' = Mosts + MostAdded(n)
         /\ Puts' = Puts + Positive(n)
<1> DEFINE f == [u \in PackTask |-> Least(boxed[u])]
           F == [u \in PackTask |-> Least(boxed'[u])]
           g == [u \in PackTask |-> Most(boxed[u])]
           G == [u \in PackTask |-> Most(boxed'[u])]
           h == [u \in PackTask |-> boxed[u].put]
           H == [u \in PackTask |-> boxed'[u].put]
           x == LeastAdded(n)
           y == MostAdded(n)
           z == Positive(n)
<1>1. ASSUME NEW u \in PackTask
      PROVE  /\ f[u] \in Int /\ g[u] \in Int /\ h[u] \in Int
             /\ x \in Int /\ y \in Int /\ z \in Int
             /\ F[u] = IF u = t THEN f[u] + x ELSE f[u]
             /\ G[u] = IF u = t THEN g[u] + y ELSE g[u]
             /\ H[u] = IF u = t THEN h[u] + z ELSE h[u]
  <2>1. boxed[u] \in Packages
    BY DEF IInv, TypeOK, PackTypeOK
  <2>2. /\ Least(boxed[u]) \in Int /\ Most(boxed[u]) \in Int /\ boxed[u].put \in Int
        /\ x \in Int /\ y \in Int /\ z \in Int
        /\ Least(PackagesWith(boxed[u], n)) = Least(boxed[u]) + x
        /\ Most(PackagesWith(boxed[u], n)) = Most(boxed[u]) + y
        /\ PackagesWith(boxed[u], n).put = boxed[u].put + z
    BY <2>1, BoundsGrow, PackagesGrow
  <2> QED
    BY <2>2
<1>2. f \in [PackTask -> Int] /\ g \in [PackTask -> Int] /\ h \in [PackTask -> Int]
  BY <1>1
<1>3. F \in [PackTask -> Int] /\ G \in [PackTask -> Int] /\ H \in [PackTask -> Int]
  <2>1. /\ F = [u \in PackTask |-> F[u]] /\ G = [u \in PackTask |-> G[u]]
        /\ H = [u \in PackTask |-> H[u]]
    OBVIOUS
  <2> HIDE DEF f, F, g, G, h, H, x, y, z
  <2> QED
    BY <1>1, <2>1
<1>4. x \in Int /\ y \in Int /\ z \in Int /\ IsFiniteSet(PackTask) /\ t \in PackTask
  BY <1>1, PackingAssumption
<1>5. AddsAt(PackTask, f, F, t, x) /\ AddsAt(PackTask, g, G, t, y) /\ AddsAt(PackTask, h, H, t, z)
  BY <1>1 DEF AddsAt
<1>6. /\ Leasts = SumFunction(f) /\ Leasts' = SumFunction(F)
      /\ Mosts = SumFunction(g) /\ Mosts' = SumFunction(G)
      /\ Puts = SumFunction(h) /\ Puts' = SumFunction(H)
  BY DEF Leasts, Mosts, Puts
<1> HIDE DEF f, F, g, G, h, H, x, y, z
<1>7. SumFunction(F) = SumFunction(f) + x
  <2>1. /\ IsFiniteSet(PackTask) /\ t \in PackTask /\ x \in Int
        /\ f \in [PackTask -> Int] /\ F \in [PackTask -> Int]
        /\ AddsAt(PackTask, f, F, t, x)
    BY <1>2, <1>3, <1>4, <1>5
  <2> QED
    BY <2>1, SumAdds
<1>8. SumFunction(G) = SumFunction(g) + y
  <2>1. /\ IsFiniteSet(PackTask) /\ t \in PackTask /\ y \in Int
        /\ g \in [PackTask -> Int] /\ G \in [PackTask -> Int]
        /\ AddsAt(PackTask, g, G, t, y)
    BY <1>2, <1>3, <1>4, <1>5
  <2> QED
    BY <2>1, SumAdds
<1>9. SumFunction(H) = SumFunction(h) + z
  <2>1. /\ IsFiniteSet(PackTask) /\ t \in PackTask /\ z \in Int
        /\ h \in [PackTask -> Int] /\ H \in [PackTask -> Int]
        /\ AddsAt(PackTask, h, H, t, z)
    BY <1>2, <1>3, <1>4, <1>5
  <2> QED
    BY <2>1, SumAdds
<1> QED
  BY <1>6, <1>7, <1>8, <1>9 DEF x, y, z

LEMMA InitLedgerInv == Init => LedgerInv
<1> SUFFICES ASSUME Init PROVE LedgerInv
  OBVIOUS
<1>1. /\ [t \in PackTask |-> Least(boxed[t])] = [t \in PackTask |-> 0]
      /\ [t \in PackTask |-> Most(boxed[t])] = [t \in PackTask |-> 0]
      /\ [t \in PackTask |-> boxed[t].put] = [t \in PackTask |-> 0]
  BY PackingAssumption DEF Init, PackInit, Least, Most, Empty
<1>2. Leasts = 0 /\ Mosts = 0 /\ Puts = 0
  BY <1>1, SumZero, PackingAssumption DEF Leasts, Mosts, Puts
<1> QED
  BY <1>2 DEF Init, PackInit, LedgerInv, OneTask, IdleIsEmpty, PackIdle

LEMMA CommitPackBooks ==
  ASSUME IInv, LedgerInv, NEW r \in Request, CommitPack(r)
  PROVE  LedgerInv'
<1> DEFINE q == preq[r]
           n == q.qty
<1>1. q \in PackSession /\ n \in Int
  BY DEF IInv, TypeOK, PackTypeOK, PackSession
<1>2. PICK t \in PackTask : q.task = {t}
  BY DEF LedgerInv, OneTask, IdleIsEmpty, CommitPack
<1>3. \A u \in PackTask : boxed'[u] = IF u = t THEN PackagesWith(boxed[u], n) ELSE boxed[u]
  BY <1>2 DEF CommitPack
<1>4. /\ Booked(q) \in Int /\ Booked(q) <= Positive(n) /\ Positive(n) \in Int
      /\ LeastAdded(n) <= Booked(q) /\ Booked(q) <= MostAdded(n)
      /\ LeastAdded(n) \in Int /\ MostAdded(n) \in Int
  <2>1. Scale \in Nat
    BY PackingAssumption
  <2> QED
    BY <1>1, <2>1, BookedBetween, PositiveParts DEF LeastAdded, MostAdded
<1>5. /\ Leasts' = Leasts + LeastAdded(n) /\ Mosts' = Mosts + MostAdded(n)
      /\ Puts' = Puts + Positive(n)
      /\ Leasts \in Int /\ Mosts \in Int /\ Puts \in Int
  <2> HIDE DEF q, n
  <2> QED
    BY <1>1, <1>3, BoxesSum, BoxesTyped
<1>6. /\ packed' = packed + Booked(q) /\ manual' = manual /\ packed \in Int /\ manual \in Nat
      /\ Leasts <= packed - manual /\ packed - manual <= Mosts /\ packed - manual <= Puts
  BY DEF CommitPack, IInv, TypeOK, PackTypeOK, LedgerInv
<1>7. \A p \in Request : OneTask(preq'[p]) /\ IdleIsEmpty(preq'[p])
  BY DEF CommitPack, IInv, TypeOK, PackTypeOK, LedgerInv, OneTask, IdleIsEmpty, PackIdle
<1> HIDE DEF q, n
<1>8. /\ Leasts' <= packed' - manual' /\ packed' - manual' <= Mosts'
      /\ packed' - manual' <= Puts'
  BY <1>4, <1>5, <1>6
<1> QED
  BY <1>7, <1>8 DEF LedgerInv, OneTask, IdleIsEmpty

LEMMA PackStepBooks == IInv /\ LedgerInv /\ PackNext => LedgerInv'
<1> SUFFICES ASSUME IInv, LedgerInv, PackNext PROVE LedgerInv'
  OBVIOUS
<1> USE DEF LedgerInv, OneTask, IdleIsEmpty
<1>1. ASSUME NEW t \in PackTask, NEW n \in TaskTarget, CreatePackTask(t, n) PROVE LedgerInv'
  BY <1>1 DEF CreatePackTask, Leasts, Mosts, Puts
<1>2. ASSUME NEW r \in Request, NEW t \in PackTask, NEW op \in {"add", "verify"}, NEW n,
             Loads(r, op, t, n)
      PROVE  LedgerInv'
  BY <1>2 DEF Loads, Leasts, Mosts, Puts, IInv, TypeOK, PackTypeOK
<1>3. ASSUME NEW r \in Request, CommitPack(r) PROVE LedgerInv'
  BY <1>3, CommitPackBooks
<1>4. ASSUME NEW r \in Request, RollbackPack(r) PROVE LedgerInv'
  BY <1>4 DEF RollbackPack, PackIdle, Leasts, Mosts, Puts, IInv, TypeOK, PackTypeOK
<1>5. ASSUME NEW n \in ByHand, BookByHand(n) PROVE LedgerInv'
  <2>1. n \in Int /\ packed \in Int /\ manual \in Nat
    BY PackingAssumption DEF IInv, TypeOK, PackTypeOK
  <2>2. packed' - manual' = packed - manual
    BY <1>5, <2>1 DEF BookByHand
  <2> QED
    BY <1>5, <2>2 DEF BookByHand, Leasts, Mosts, Puts
<1> QED
  BY <1>1, <1>2, <1>3, <1>4, <1>5 DEF PackNext, BeginVerify, BeginPack

(* The steps of the order touch no row of packing.                         *)
LEMMA OrderStepKeepsPacking ==
  ASSUME Next, ~(PackNext /\ UNCHANGED orderVars)
  PROVE  UNCHANGED packVars
BY DEF Next, CompleteStep, UndoStep, Reopen, Check, GiveUp, CheckWorkflows,
       CheckPacking, CheckQuantities, Moves, CommitCompletion

LEMMA NextLedgerInv == IInv /\ LedgerInv /\ [Next]_vars => LedgerInv'
<1> SUFFICES ASSUME IInv, LedgerInv, [Next]_vars PROVE LedgerInv'
  OBVIOUS
<1>1. CASE UNCHANGED packVars
  BY <1>1 DEF packVars, LedgerInv, Leasts, Mosts, Puts, OneTask, IdleIsEmpty
<1> QED
  BY <1>1, PackStepBooks, OrderStepKeepsPacking DEF vars

(* The PACKED sum has every whole piece of every package, put in or taken  *)
(* out, and what was booked by hand, whatever requests interleave and      *)
(* however fractions are cut (packing/service.py, add_package;             *)
(* quantities/service.py).                                                 *)
THEOREM LedgerStaysBacked == Spec => []LedgerIsBacked
<1>1. LedgerInv => LedgerIsBacked
  BY DEF LedgerInv, LedgerIsBacked, Leasts, Mosts
<1> QED
  BY <1>1, InitLedgerInv, NextLedgerInv, InductiveInvariant, PTL DEF Spec

-----------------------------------------------------------------------------
(* Completion. What each SELECT of a check found leaves a trace that stays *)
(* until the order is committed: no completed_at is cleared, and what was  *)
(* put into boxes or booked by hand, which the PACKED sum cannot exceed,   *)
(* never falls.                                                            *)
Enough == manual + Puts >= Ordered

CompletionInv ==
    /\ order = "COMPLETED" => Step \subseteq ended /\ Enough
    /\ \A c \in Clerk :
          /\ clerk[c] # "idle" => Step \subseteq ended
          /\ clerk[c] = "commit" => Enough

LEMMA InitCompletionInv == Init => CompletionInv
BY DEF Init, CompletionInv

LEMMA EnoughStays == IInv /\ LedgerInv /\ PackNext /\ Enough => Enough'
<1> SUFFICES ASSUME IInv, LedgerInv, PackNext, Enough PROVE Enough'
  OBVIOUS
<1>0. Puts \in Int /\ manual \in Nat /\ Ordered \in Int
  BY BoxesTyped, CompletionAssumption DEF IInv, TypeOK, PackTypeOK
<1>1. ASSUME NEW r \in Request, CommitPack(r) PROVE Enough'
  <2> DEFINE q == preq[r]
             n == q.qty
  <2>1. n \in Int /\ Positive(n) \in Nat
    BY PositiveParts DEF IInv, TypeOK, PackTypeOK, PackSession
  <2>2. PICK t \in PackTask : q.task = {t}
    BY <1>1 DEF LedgerInv, OneTask, IdleIsEmpty, CommitPack
  <2>3. \A u \in PackTask : boxed'[u] = IF u = t THEN PackagesWith(boxed[u], n) ELSE boxed[u]
    BY <1>1, <2>2 DEF CommitPack
  <2>4. manual' = manual
    BY <1>1 DEF CommitPack
  <2> HIDE DEF q, n
  <2>5. Puts' = Puts + Positive(n)
    BY <2>1, <2>3, BoxesSum
  <2> QED
    BY <1>0, <2>1, <2>4, <2>5 DEF Enough
<1>2. ASSUME NEW n \in ByHand, BookByHand(n) PROVE Enough'
  <2>1. n \in Nat /\ manual' = manual + n /\ Puts' = Puts
    BY <1>2, PackingAssumption DEF BookByHand, Puts
  <2> QED
    BY <1>0, <2>1 DEF Enough
<1> QED
  BY <1>1, <1>2
     DEF PackNext, CreatePackTask, BeginVerify, BeginPack, Loads, RollbackPack, Enough, Puts

LEMMA NextCompletionInv == IInv /\ LedgerInv /\ CompletionInv /\ [Next]_vars => CompletionInv'
<1> SUFFICES ASSUME IInv, LedgerInv, CompletionInv, [Next]_vars PROVE CompletionInv'
  OBVIOUS
<1>0. clerk \in [Clerk -> {"idle", "packing", "quantities", "commit"}]
  BY DEF IInv, TypeOK
<1>1. CASE PackNext /\ UNCHANGED orderVars
  <2>1. Enough => Enough'
    BY <1>1, EnoughStays
  <2> QED
    BY <1>1, <2>1 DEF CompletionInv, orderVars
<1>2. ASSUME UNCHANGED packVars PROVE Enough' <=> Enough
  BY <1>2 DEF packVars, Enough, Puts
<1>3. ASSUME NEW s \in Step, CompleteStep(s) \/ UndoStep(s) PROVE CompletionInv'
  <2>1. UNCHANGED <<packVars, order, clerk>> /\ (Step \subseteq ended => Step \subseteq ended')
    BY <1>3 DEF CompleteStep, UndoStep
  <2> QED
    BY <1>2, <2>1 DEF CompletionInv
<1>4. CASE Reopen
  BY <1>2, <1>4 DEF Reopen, CompletionInv
<1>5. ASSUME NEW c \in Clerk, Check(c) \/ GiveUp(c) PROVE CompletionInv'
  <2>1. CASE CheckWorkflows(c)
    <3>1. Step \subseteq ended
      BY <2>1 DEF CheckWorkflows, IInv, TypeOK
    <3> QED
      BY <1>0, <1>2, <2>1, <3>1 DEF CheckWorkflows, Moves, CompletionInv
  <2>2. CASE CheckPacking(c)
    BY <1>0, <1>2, <2>2 DEF CheckPacking, Moves, CompletionInv
  <2>3. CASE CheckQuantities(c)
    <3>1. packed >= Ordered /\ UNCHANGED packVars
      BY <2>3 DEF CheckQuantities, Moves
    <3>2. /\ packed \in Int /\ manual \in Nat /\ Puts \in Int /\ Ordered \in Int
          /\ packed - manual <= Puts
      BY BoxesTyped, CompletionAssumption DEF IInv, TypeOK, PackTypeOK, LedgerInv
    <3>3. Enough
      BY <3>1, <3>2 DEF Enough
    <3> QED
      BY <1>0, <1>2, <2>3, <3>3 DEF CheckQuantities, Moves, CompletionInv
  <2>4. CASE CommitCompletion(c)
    BY <1>0, <1>2, <2>4 DEF CommitCompletion, CompletionInv
  <2>5. CASE GiveUp(c)
    BY <1>0, <1>2, <2>5 DEF GiveUp, Moves, CompletionInv
  <2> QED
    BY <1>5, <2>1, <2>2, <2>3, <2>4, <2>5 DEF Check
<1>6. CASE UNCHANGED vars
  BY <1>2, <1>6 DEF vars, orderVars, CompletionInv
<1> QED
  BY <1>1, <1>3, <1>4, <1>5, <1>6 DEF Next

(* An order is COMPLETED only when every step was completed and packages   *)
(* for its whole quantity were packed or booked by hand, however many      *)
(* clerks check it while it is packed, packages are corrected and steps    *)
(* undone (billing/service.py, check_order_completion_conditions).         *)
THEOREM CompletedStaysPacked == Spec => []CompletedOrderIsPacked
<1>1. CompletionInv => CompletedOrderIsPacked
  BY DEF CompletionInv, CompletedOrderIsPacked, Enough, Puts
<1>2. Spec => []LedgerInv
  BY InitLedgerInv, NextLedgerInv, InductiveInvariant, PTL DEF Spec
<1>3. Spec => []CompletionInv
  BY <1>2, InitCompletionInv, NextCompletionInv, InductiveInvariant, PTL DEF Spec
<1> QED
  BY <1>1, <1>3, PTL
=============================================================================
