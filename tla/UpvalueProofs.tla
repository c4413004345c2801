--------------------------- MODULE UpvalueProofs ----------------------------
(* What the upvalue operations of func.rs and coroutine_lib.rs keep true of  *)
(* the variables, their cells and the slots they live in, for any number of  *)
(* threads and variables: lemmas about the operators of Coroutine.           *)
EXTENDS Coroutine, FiniteSetTheorems, SequenceTheorems, WellFoundedInduction, TLAPS

-----------------------------------------------------------------------------
(* The invariant: variables, cells and lists.                                *)

Cells == [st : {"none", "open", "closed"}, idx : Nat, tbc : BOOLEAN, val : Value]
VarRecs == [live : BOOLEAN, home : Threads, idx : Nat, ver : {0, 1}, tbc : BOOLEAN,
            closed : Nat, via : Vars]
Machines == [stack : [Threads -> Seq(Value)], cell : [Vars -> Cells],
             list : [Threads -> SUBSET Vars], var : [Vars -> VarRecs]]

Is(m, v, st) == m.cell[v].st = st
Content(m, v) == <<v, m.var[v].ver>>

(* A variable has a slot of its own while it lives, and at most one cell.    *)
VarOK(m, v) ==
    /\ m.var[v].via = v
    /\ m.var[v].idx = 0 =>
         /\ m.cell[v] = NoCell
         /\ ~m.var[v].live /\ ~m.var[v].tbc /\ m.var[v].ver = 0
    /\ m.var[v].live =>
         /\ m.var[v].idx \in 1..Len(m.stack[m.var[v].home])
         /\ \A w \in Vars : (/\ m.var[w].live /\ m.var[w].home = m.var[v].home
                             /\ m.var[w].idx = m.var[v].idx) => w = v
    /\ Is(m, v, "open") => m.var[v].live /\ m.cell[v] = OpenCell(m.var[v].idx, m.var[v].tbc)

(* Its value is in the cell, once that is closed, and in the slot before.    *)
ValueOK(m, v) ==
    /\ m.var[v].live /\ (m.var[v].tbc \/ ~Is(m, v, "closed")) =>
         m.stack[m.var[v].home][m.var[v].idx] = Content(m, v)
    /\ Is(m, v, "closed") /\ ~m.var[v].tbc => m.cell[v].val = Content(m, v)

(* A to-be-closed variable was closed as often as its cell.                  *)
TbcOK(m, v) ==
    IF m.var[v].tbc THEN /\ ~Is(m, v, "none")
                         /\ m.var[v].closed = IF Is(m, v, "open") THEN 0 ELSE 1
    ELSE m.var[v].closed = 0

ListOK(m, t) == m.list[t] = {v \in Vars : Is(m, v, "open") /\ m.var[v].home = t}

MachineInv(m) ==
    /\ m \in Machines
    /\ \A v \in Vars : VarOK(m, v) /\ ValueOK(m, v) /\ TbcOK(m, v)
    /\ \A t \in Threads : ListOK(m, t)

-----------------------------------------------------------------------------
(* What the operators on machines do.                                        *)

LEMMA MachineFields ==
  ASSUME NEW m \in Machines
  PROVE  /\ m = [stack |-> m.stack, cell |-> m.cell, list |-> m.list, var |-> m.var]
         /\ m.stack \in [Threads -> Seq(Value)] /\ m.cell \in [Vars -> Cells]
         /\ m.list \in [Threads -> SUBSET Vars] /\ m.var \in [Vars -> VarRecs]
  BY DEF Machines

(* A machine is known by its parts.                                          *)
MachineOf(s, k, l, x) == [stack |-> s, cell |-> k, list |-> l, var |-> x]

(* Cells DOMAIN val of thread t close with the values val; or open at at.    *)
IsClosing(m, t, val, r) ==
    /\ r \in Machines
    /\ r.stack = m.stack /\ r.var = m.var
    /\ \A u \in Vars :
         r.cell[u] = IF u \in DOMAIN val THEN ClosedCell(val[u]) ELSE m.cell[u]
    /\ \A s \in Threads :
         r.list[s] = IF s = t THEN m.list[t] \ DOMAIN val ELSE m.list[s]
IsOpening(m, t, at, r) ==
    /\ r \in Machines
    /\ r.stack = m.stack /\ r.var = m.var
    /\ \A u \in Vars :
         r.cell[u] = IF u \in DOMAIN at THEN OpenCell(at[u], FALSE) ELSE m.cell[u]
    /\ \A s \in Threads :
         r.list[s] = IF s = t THEN m.list[t] \cup DOMAIN at ELSE m.list[s]

LEMMA CloseByRefFields ==
  ASSUME NEW m \in Machines, NEW t \in Threads, NEW val,
         DOMAIN val \subseteq Vars, \A u \in DOMAIN val : val[u] \in Value
  PROVE  IsClosing(m, t, val, CloseByRef(m, t, val))
  <1> DEFINE k == [u \in Vars |-> IF u \in DOMAIN val THEN ClosedCell(val[u]) ELSE m.cell[u]]
             l == [m.list EXCEPT ![t] = m.list[t] \ DOMAIN val]
  <1>1. CloseByRef(m, t, val) = MachineOf(m.stack, k, l, m.var)
    <2>1. CloseByRef(m, t, val) = [m EXCEPT !.cell = k, !.list = l]
      BY DEF CloseByRef
    <2> HIDE DEF k, l
    <2> QED
      BY <2>1, MachineFields DEF MachineOf
  <1>2. k \in [Vars -> Cells]
    BY MachineFields DEF Cells, ClosedCell
  <1>3. l \in [Threads -> SUBSET Vars]
    BY MachineFields
  <1>4. \A s \in Threads : l[s] = IF s = t THEN m.list[t] \ DOMAIN val ELSE m.list[s]
    BY MachineFields
  <1>5. \A u \in Vars : k[u] = IF u \in DOMAIN val THEN ClosedCell(val[u]) ELSE m.cell[u]
    OBVIOUS
  <1> DEFINE r == CloseByRef(m, t, val)
  <1>0. r = CloseByRef(m, t, val)
    OBVIOUS
  <1> HIDE DEF k, l, r
  <1>6. MachineOf(m.stack, k, l, m.var) \in Machines
    BY <1>2, <1>3, MachineFields DEF MachineOf, Machines
  <1>7. r.stack = m.stack /\ r.cell = k /\ r.list = l /\ r.var = m.var
    BY <1>0, <1>1 DEF MachineOf
  <1>8. r \in Machines
    BY <1>0, <1>1, <1>6
  <1>9. IsClosing(m, t, val, r)
    BY <1>4, <1>5, <1>7, <1>8 DEF IsClosing
  <1> QED
    BY <1>0, <1>9

LEMMA RelinkFields ==
  ASSUME NEW m \in Machines, NEW t \in Threads, NEW at,
         DOMAIN at \subseteq Vars, \A u \in DOMAIN at : at[u] \in Nat
  PROVE  IsOpening(m, t, at, Relink(m, t, at))
  <1> DEFINE k == [u \in Vars |-> IF u \in DOMAIN at THEN OpenCell(at[u], FALSE) ELSE m.cell[u]]
             l == [m.list EXCEPT ![t] = m.list[t] \cup DOMAIN at]
  <1>1. Relink(m, t, at) = MachineOf(m.stack, k, l, m.var)
    <2>1. Relink(m, t, at) = [m EXCEPT !.cell = k, !.list = l]
      BY DEF Relink
    <2> HIDE DEF k, l
    <2> QED
      BY <2>1, MachineFields DEF MachineOf
  <1>2. k \in [Vars -> Cells]
    BY MachineFields DEF Cells, OpenCell, Value
  <1>3. l \in [Threads -> SUBSET Vars]
    BY MachineFields
  <1>4. \A s \in Threads : l[s] = IF s = t THEN m.list[t] \cup DOMAIN at ELSE m.list[s]
    BY MachineFields
  <1>5. \A u \in Vars : k[u] = IF u \in DOMAIN at THEN OpenCell(at[u], FALSE) ELSE m.cell[u]
    OBVIOUS
  <1> DEFINE r == Relink(m, t, at)
  <1>0. r = Relink(m, t, at)
    OBVIOUS
  <1> HIDE DEF k, l, r
  <1>6. MachineOf(m.stack, k, l, m.var) \in Machines
    BY <1>2, <1>3, MachineFields DEF MachineOf, Machines
  <1>7. r.stack = m.stack /\ r.cell = k /\ r.list = l /\ r.var = m.var
    BY <1>0, <1>1 DEF MachineOf
  <1>8. r \in Machines
    BY <1>0, <1>1, <1>6
  <1>9. IsOpening(m, t, at, r)
    BY <1>4, <1>5, <1>7, <1>8 DEF IsOpening
  <1> QED
    BY <1>0, <1>9

(* The slot of a variable that is not closed holds its value.                *)
LEMMA SlotContent ==
  ASSUME NEW m, MachineInv(m), NEW v \in Vars, Is(m, v, "open")
  PROVE  /\ m.cell[v].idx = m.var[v].idx /\ m.cell[v].tbc = m.var[v].tbc
         /\ m.var[v].live /\ m.var[v].home \in Threads
         /\ m.var[v].idx \in DOMAIN m.stack[m.var[v].home]
         /\ SlotOf(m, m.var[v].home, m.cell[v].idx) = Content(m, v)
         /\ Content(m, v) \in Value
  <1>1. m \in Machines /\ VarOK(m, v) /\ ValueOK(m, v)
    BY DEF MachineInv
  <1>2. /\ m.var[v].live /\ m.cell[v] = OpenCell(m.var[v].idx, m.var[v].tbc)
        /\ m.var[v].idx \in 1..Len(m.stack[m.var[v].home])
    BY <1>1 DEF VarOK
  <1>3. m.var[v] \in VarRecs
    BY <1>1, MachineFields
  <1>4. /\ m.var[v].home \in Threads /\ m.var[v].ver \in {0, 1}
        /\ m.stack[m.var[v].home] \in Seq(Value)
    BY <1>1, <1>3, MachineFields DEF VarRecs
  <1>5. m.cell[v].idx = m.var[v].idx /\ m.cell[v].tbc = m.var[v].tbc
    BY <1>2 DEF OpenCell
  <1>6. m.var[v].idx \in DOMAIN m.stack[m.var[v].home]
    BY <1>2, <1>4
  <1>7. m.stack[m.var[v].home][m.var[v].idx] = Content(m, v)
    BY <1>1, <1>2 DEF ValueOK, Is
  <1>8. Content(m, v) \in Value
    BY <1>4 DEF Content, Value
  <1> QED
    BY <1>2, <1>4, <1>5, <1>6, <1>7, <1>8 DEF SlotOf

(* A cell on a list is an open cell of a variable of that thread.            *)
LEMMA ListMember ==
  ASSUME NEW m, MachineInv(m), NEW t \in Threads, NEW v
  PROVE  v \in m.list[t] <=> v \in Vars /\ Is(m, v, "open") /\ m.var[v].home = t
  BY DEF MachineInv, ListOK

(* The cells of origins are variables of thread t, closed or open.           *)
MayReopen(m, t, origins) ==
    /\ DOMAIN origins \subseteq Vars
    /\ \A u \in DOMAIN origins :
         /\ m.var[u].live /\ ~m.var[u].tbc /\ m.var[u].home = t
         /\ origins[u] = m.var[u].idx
         /\ ~Is(m, u, "none")

(* Nothing changes but cells and the contents of slots.                      *)
SameShape(m, r) ==
    /\ r.var = m.var
    /\ \A s \in Threads : Len(r.stack[s]) = Len(m.stack[s])

(* Closing cells with the values of their variables.                         *)
LEMMA CloseByRefInv ==
  ASSUME NEW m, MachineInv(m), NEW t \in Threads, NEW val, DOMAIN val \subseteq m.list[t],
         \A u \in DOMAIN val : val[u] = Content(m, u) /\ ~m.var[u].tbc
  PROVE  LET r == CloseByRef(m, t, val) IN
         /\ MachineInv(r) /\ SameShape(m, r)
         /\ \A u \in Vars : r.cell[u].st = IF u \in DOMAIN val THEN "closed" ELSE m.cell[u].st
  <1> DEFINE r == CloseByRef(m, t, val)
             D == DOMAIN val
  <1>0. r = CloseByRef(m, t, val)
    OBVIOUS
  <1> HIDE DEF r
  <1>1. m \in Machines
    BY DEF MachineInv
  <1>2. DOMAIN val \subseteq Vars
    BY ListMember
  <1>3. \A u \in DOMAIN val : val[u] \in Value
    BY <1>2, SlotContent, ListMember
  <1>4. IsClosing(m, t, val, r)
    BY <1>0, <1>1, <1>2, <1>3, CloseByRefFields
  <1>. USE DEF IsClosing
  <1>5. ASSUME NEW v \in Vars PROVE VarOK(r, v) /\ ValueOK(r, v) /\ TbcOK(r, v)
    <2>1. VarOK(m, v) /\ ValueOK(m, v) /\ TbcOK(m, v)
      BY DEF MachineInv
    <2>2. CASE v \in D
      <3>1. /\ r.cell[v] = ClosedCell(Content(m, v)) /\ ~m.var[v].tbc
            /\ Is(m, v, "open")
        BY <1>4, <2>2, ListMember
      <3>2. VarOK(r, v)
        BY <1>4, <2>1, <3>1, SMTT(30) DEF VarOK, Is, ClosedCell, OpenCell, NoCell
      <3>3. ValueOK(r, v)
        BY <1>4, <2>1, <3>1 DEF ValueOK, Is, ClosedCell, Content
      <3>4. TbcOK(r, v)
        BY <1>4, <2>1, <3>1, SMTT(30) DEF TbcOK
      <3> QED
        BY <3>2, <3>3, <3>4
    <2>3. CASE v \notin D
      <3>1. r.cell[v] = m.cell[v]
        BY <1>4, <2>3
      <3> QED
        BY <1>4, <2>1, <3>1 DEF VarOK, ValueOK, TbcOK, Is, Content
    <2> QED
      BY <2>2, <2>3
  <1>6. ASSUME NEW s \in Threads PROVE ListOK(r, s)
    <2>1. ASSUME NEW v \in Vars PROVE Is(r, v, "open") <=> Is(m, v, "open") /\ v \notin D
      <3>1. CASE v \in D
        <4>1. r.cell[v] = ClosedCell(val[v])
          BY <1>4, <3>1
        <4> QED
          BY <4>1, <3>1 DEF Is, ClosedCell
      <3>2. CASE v \notin D
        BY <1>4, <3>2 DEF Is
      <3> QED
        BY <3>1, <3>2
    <2>2. ListOK(m, s)
      BY DEF MachineInv
    <2>3. \A v \in D : m.var[v].home = t
      BY ListMember
    <2> QED
      BY <1>4, <2>1, <2>2, <2>3 DEF ListOK
  <1>7. ASSUME NEW u \in Vars
        PROVE  r.cell[u].st = IF u \in DOMAIN val THEN "closed" ELSE m.cell[u].st
    <2>1. r.cell[u] = IF u \in D THEN ClosedCell(val[u]) ELSE m.cell[u]
      BY <1>4
    <2> QED
      BY <2>1 DEF ClosedCell
  <1>8. SameShape(m, r)
    BY <1>4 DEF SameShape
  <1>9. MachineInv(r)
    BY <1>4, <1>5, <1>6 DEF MachineInv
  <1> QED
    BY <1>7, <1>8, <1>9 DEF r
(* Writing the closed ones back and opening them again.                      *)
LEMMA SyncBackInv ==
  ASSUME NEW m, MachineInv(m), NEW t \in Threads, NEW origins, MayReopen(m, t, origins)
  PROVE  LET r == SyncBack(m, t, origins) IN
         /\ MachineInv(r) /\ SameShape(m, r)
         /\ \A u \in Vars : r.cell[u].st = IF u \in DOMAIN origins THEN "open" ELSE m.cell[u].st
  <1> DEFINE S == ClosedAmong(m, origins)
             of(i) == {u \in S : origins[u] = i}
             at == [u \in S |-> origins[u]]
             q == Relink(m, t, at)
             new == [i \in DOMAIN q.stack[t] |->
                       IF of(i) = {} THEN q.stack[t][i]
                       ELSE m.cell[CHOOSE u \in of(i) : TRUE].val]
             stk == [m.stack EXCEPT ![t] = new]
             r == SyncBack(m, t, origins)
  <1>1. m \in Machines
    BY DEF MachineInv
  <1>2. \A u \in S : /\ u \in Vars /\ u \in DOMAIN origins /\ ~Is(m, u, "open")
                     /\ m.var[u].live /\ ~m.var[u].tbc /\ m.var[u].home = t
                     /\ origins[u] = m.var[u].idx /\ Is(m, u, "closed")
    <2>1. \A u \in Vars : m.cell[u].st \in {"none", "open", "closed"}
      BY <1>1, MachineFields DEF Cells
    <2> QED
      BY <2>1 DEF MayReopen, ClosedAmong, IsOpen, Is
  <1>3. \A u \in S : /\ origins[u] \in 1..Len(m.stack[t])
                     /\ m.cell[u].val = Content(m, u) /\ m.cell[u].val \in Value
    <2>1. \A u \in S : VarOK(m, u) /\ ValueOK(m, u)
      BY <1>2 DEF MachineInv
    <2>2. \A u \in S : m.cell[u].val \in Value
      BY <1>1, <1>2, MachineFields DEF Cells
    <2> QED
      BY <1>2, <2>1, <2>2 DEF VarOK, ValueOK
  <1>4. \A u, w \in S : origins[u] = origins[w] => u = w
    <2>1. \A u \in S : VarOK(m, u)
      BY <1>2 DEF MachineInv
    <2> QED
      BY <1>2, <2>1 DEF VarOK
  <1>5. IsOpening(m, t, at, q)
    BY <1>1, <1>2, <1>3, RelinkFields
  <1>5a. q.stack = m.stack
    BY <1>5 DEF IsOpening
  <1>6. /\ m.stack[t] \in Seq(Value) /\ DOMAIN m.stack[t] = 1..Len(m.stack[t])
        /\ Len(m.stack[t]) \in Nat
    BY <1>1, MachineFields
  <1>7. \A i \in 1..Len(m.stack[t]) :
          /\ of(i) = {} => new[i] = m.stack[t][i]
          /\ \A u \in of(i) : new[i] = m.cell[u].val
          /\ new[i] \in Value
    <2> SUFFICES ASSUME NEW i \in 1..Len(m.stack[t])
                 PROVE  /\ of(i) = {} => new[i] = m.stack[t][i]
                        /\ \A u \in of(i) : new[i] = m.cell[u].val
                        /\ new[i] \in Value
      OBVIOUS
    <2>1. CASE of(i) = {}
      BY <1>5a, <1>6, <2>1
    <2>2. ASSUME NEW u \in of(i) PROVE new[i] = m.cell[u].val /\ new[i] \in Value
      <3>1. (CHOOSE w \in of(i) : TRUE) \in of(i)
        BY <2>2
      <3>2. (CHOOSE w \in of(i) : TRUE) = u
        BY <3>1, <1>4
      <3> QED
        BY <1>3, <1>5a, <1>6, <3>2, <2>2
    <2> QED
      BY <2>1, <2>2
  <1>8. new \in Seq(Value) /\ Len(new) = Len(m.stack[t])
    <2>1. new \in [1..Len(m.stack[t]) -> Value]
      BY <1>5a, <1>6, <1>7
    <2> HIDE DEF new
    <2> QED
      BY <1>6, <2>1, SeqDef
  <1>9. r = MachineOf(stk, q.cell, q.list, m.var)
    <2>1. q = MachineOf(m.stack, q.cell, q.list, m.var)
      BY <1>5, MachineFields DEF IsOpening, MachineOf
    <2>2. r = [q EXCEPT !.stack[t] = new]
      BY DEF SyncBack
    <2> HIDE DEF q, new
    <2> QED
      BY <1>5a, <2>1, <2>2 DEF MachineOf
  <1> HIDE DEF r
  <1>10. /\ r.cell = q.cell /\ r.list = q.list /\ r.var = m.var
         /\ r.stack = stk
    BY <1>9 DEF MachineOf
  <1>11. stk \in [Threads -> Seq(Value)]
    <2> HIDE DEF new
    <2> QED
      BY <1>1, <1>8, MachineFields
  <1>12. r \in Machines
    <2>1. r = [stack |-> stk, cell |-> q.cell, list |-> q.list, var |-> m.var]
      BY <1>9 DEF MachineOf
    <2> HIDE DEF stk, q
    <2> QED
      BY <1>1, <1>5, <1>11, <2>1, MachineFields DEF Machines, IsOpening
  <1>13. \A v \in Vars : r.cell[v] = IF v \in S THEN OpenCell(m.var[v].idx, FALSE) ELSE m.cell[v]
    BY <1>2, <1>5, <1>10 DEF IsOpening
  <1>14. \A s \in Threads : r.list[s] = IF s = t THEN m.list[t] \cup S ELSE m.list[s]
    BY <1>5, <1>10 DEF IsOpening
  <1>15. SameShape(m, r)
    <2> HIDE DEF new
    <2> QED
      BY <1>1, <1>8, <1>10, MachineFields DEF SameShape
  <1>16. /\ \A v \in S : r.stack[t][m.var[v].idx] = Content(m, v)
         /\ \A i \in 1..Len(m.stack[t]) :
              (\A v \in S : m.var[v].idx # i) => r.stack[t][i] = m.stack[t][i]
         /\ \A s \in Threads \ {t} : r.stack[s] = m.stack[s]
    <2>1. r.stack[t] = new /\ \A s \in Threads \ {t} : r.stack[s] = m.stack[s]
      <3> HIDE DEF new
      <3> QED
        BY <1>1, <1>10, MachineFields
    <2>2. ASSUME NEW v \in S PROVE new[m.var[v].idx] = Content(m, v)
      <3>1. v \in of(m.var[v].idx) /\ m.var[v].idx \in 1..Len(m.stack[t])
        BY <1>2, <1>3
      <3> HIDE DEF new, of, S
      <3> QED
        BY <1>3, <1>7, <3>1
    <2>3. ASSUME NEW i \in 1..Len(m.stack[t]), \A v \in S : m.var[v].idx # i
          PROVE  new[i] = m.stack[t][i]
      <3>1. of(i) = {}
        BY <1>2, <2>3
      <3> HIDE DEF new, of, S
      <3> QED
        BY <1>7, <3>1
    <2> HIDE DEF new, of, S
    <2> QED
      BY <2>1, <2>2, <2>3
  <1> HIDE DEF S, of, at, q, new, stk
  <1>17. ASSUME NEW v \in Vars PROVE VarOK(r, v) /\ ValueOK(r, v) /\ TbcOK(r, v)
    <2>1. VarOK(m, v) /\ ValueOK(m, v) /\ TbcOK(m, v)
      BY DEF MachineInv
    <2>2. r.var = m.var /\ (m.var[v].home \in Threads => Len(r.stack[m.var[v].home]) = Len(m.stack[m.var[v].home]))
      BY <1>15 DEF SameShape
    <2>3. m.var[v].home \in Threads
      BY <1>1, MachineFields DEF VarRecs
    <2>4. CASE v \in S
      <3>1. /\ r.cell[v] = OpenCell(m.var[v].idx, FALSE) /\ ~m.var[v].tbc
            /\ m.var[v].live /\ m.var[v].home = t /\ Is(m, v, "closed")
            /\ r.stack[t][m.var[v].idx] = Content(m, v)
        BY <1>2, <1>13, <1>16, <2>4
      <3>2. VarOK(r, v)
        <4>1. m.var[v].idx # 0
          BY <2>1, <3>1 DEF VarOK, Is, NoCell
        <4>2. m.var[v].tbc = FALSE
          BY <1>1, <3>1, MachineFields DEF VarRecs
        <4> QED
          BY <2>1, <2>2, <2>3, <3>1, <4>1, <4>2 DEF VarOK, Is
      <3>3. ValueOK(r, v)
        BY <2>2, <3>1 DEF ValueOK, Is, OpenCell, Content
      <3>4. TbcOK(r, v)
        BY <2>1, <2>2, <3>1 DEF TbcOK
      <3> QED
        BY <3>2, <3>3, <3>4
    <2>5. CASE v \notin S
      <3>1. r.cell[v] = m.cell[v]
        BY <1>13, <2>5
      <3>2. VarOK(r, v) /\ TbcOK(r, v)
        BY <2>1, <2>2, <2>3, <3>1 DEF VarOK, TbcOK, Is
      <3>3. m.var[v].live => r.stack[m.var[v].home][m.var[v].idx] = m.stack[m.var[v].home][m.var[v].idx]
        <4>1. CASE m.var[v].live /\ m.var[v].home = t
          <5>1. \A w \in S : w # v /\ w \in Vars /\ m.var[w].live /\ m.var[w].home = t
            BY <1>2, <2>5
          <5>2. m.var[v].idx \in 1..Len(m.stack[t]) /\ \A w \in S : m.var[w].idx # m.var[v].idx
            BY <2>1, <4>1, <5>1 DEF VarOK
          <5> QED
            BY <1>16, <4>1, <5>2
        <4>2. CASE m.var[v].home # t
          BY <1>16, <2>3, <4>2, SMTT(30)
        <4> QED
          BY <4>1, <4>2
      <3>4. ValueOK(r, v)
        BY <2>1, <2>2, <3>1, <3>3 DEF ValueOK, Is, Content
      <3> QED
        BY <3>2, <3>4
    <2> QED
      BY <2>4, <2>5
  <1>18. ASSUME NEW s \in Threads PROVE ListOK(r, s)
    <2>1. ASSUME NEW v \in Vars PROVE Is(r, v, "open") <=> Is(m, v, "open") \/ v \in S
      <3>1. CASE v \in S
        <4>1. r.cell[v] = OpenCell(m.var[v].idx, FALSE)
          BY <1>13, <3>1
        <4> QED
          BY <3>1, <4>1 DEF Is, OpenCell
      <3>2. CASE v \notin S
        BY <1>13, <3>2 DEF Is
      <3> QED
        BY <3>1, <3>2
    <2>2. ListOK(m, s)
      BY DEF MachineInv
    <2> QED
      BY <1>2, <1>14, <1>15, <2>1, <2>2 DEF ListOK, SameShape
  <1>19. MachineInv(r)
    BY <1>12, <1>17, <1>18 DEF MachineInv
  <1>20. ASSUME NEW u \in Vars
         PROVE  r.cell[u].st = IF u \in DOMAIN origins THEN "open" ELSE m.cell[u].st
    <2>1. u \in S <=> u \in DOMAIN origins /\ m.cell[u].st # "open"
      BY DEF S, ClosedAmong, IsOpen
    <2>2. CASE u \in S
      <3>1. r.cell[u] = OpenCell(m.var[u].idx, FALSE)
        BY <1>13, <2>2
      <3> QED
        BY <2>1, <2>2, <3>1 DEF OpenCell
    <2>3. CASE u \notin S
      BY <1>13, <2>1, <2>3
    <2> QED
      BY <2>2, <2>3
  <1> QED
    BY <1>15, <1>19, <1>20 DEF r

(* Closing the cells of origins with what the stack of t holds.              *)
LEMMA CloseSharedInv ==
  ASSUME NEW m, MachineInv(m), NEW t \in Threads, NEW origins, MayReopen(m, t, origins)
  PROVE  LET r == CloseShared(m, t, origins) IN
         /\ MachineInv(r) /\ SameShape(m, r)
         /\ \A u \in Vars :
              r.cell[u].st = IF u \in DOMAIN origins THEN "closed" ELSE m.cell[u].st
  <1> DEFINE val == [u \in {w \in DOMAIN origins : IsOpen(m, w)} |-> SlotOf(m, t, origins[u])]
             r == CloseShared(m, t, origins)
  <1>1. r = CloseByRef(m, t, val)
    BY DEF CloseShared
  <1>2. ASSUME NEW u \in DOMAIN val
        PROVE  /\ u \in m.list[t] /\ val[u] = Content(m, u) /\ ~m.var[u].tbc
               /\ u \in DOMAIN origins /\ u \in Vars /\ Is(m, u, "open")
    <2>1. /\ u \in DOMAIN origins /\ Is(m, u, "open") /\ u \in Vars
          /\ m.var[u].home = t /\ origins[u] = m.var[u].idx /\ ~m.var[u].tbc
      BY DEF IsOpen, Is, MayReopen
    <2>2. val[u] = Content(m, u)
      BY <2>1, SlotContent
    <2> QED
      BY <2>1, <2>2, ListMember
  <1> HIDE DEF r
  <1>3. DOMAIN val = {w \in DOMAIN origins : IsOpen(m, w)}
    OBVIOUS
  <1> HIDE DEF val
  <1>4. /\ MachineInv(r) /\ SameShape(m, r)
        /\ \A u \in Vars : r.cell[u].st = IF u \in DOMAIN val THEN "closed" ELSE m.cell[u].st
    <2>1. DOMAIN val \subseteq m.list[t]
      BY <1>2
    <2> QED
      BY <1>1, <1>2, <2>1, CloseByRefInv
  <1>5. ASSUME NEW u \in Vars
        PROVE  r.cell[u].st = IF u \in DOMAIN origins THEN "closed" ELSE m.cell[u].st
    <2>1. m.cell[u].st \in {"none", "open", "closed"}
      BY MachineFields DEF MachineInv, Cells
    <2>2. u \in DOMAIN origins => m.cell[u].st # "none"
      BY DEF MayReopen, Is
    <2> QED
      BY <1>3, <1>4, <2>1, <2>2 DEF IsOpen
  <1> QED
    BY <1>4, <1>5 DEF r

(* coroutine.wrap: closing what was open when it was called.                 *)
LEMMA ClosePendingInv ==
  ASSUME NEW m, MachineInv(m), NEW t \in Threads, NEW pending,
         MayReopen(m, t, [u \in DOMAIN pending |-> pending[u].idx]),
         \A u \in DOMAIN pending : Is(m, u, "open")
  PROVE  LET r == ClosePending(m, t, pending, TRUE) IN
         /\ MachineInv(r) /\ SameShape(m, r)
         /\ \A u \in Vars :
              r.cell[u].st = IF u \in DOMAIN pending THEN "closed" ELSE m.cell[u].st
  <1> DEFINE val == [u \in DOMAIN pending |->
                       IF TRUE /\ pending[u].idx \in DOMAIN m.stack[t]
                       THEN m.stack[t][pending[u].idx] ELSE pending[u].val]
             r == ClosePending(m, t, pending, TRUE)
  <1>1. r = CloseByRef(m, t, val)
    BY DEF ClosePending
  <1>2. ASSUME NEW u \in DOMAIN pending
        PROVE  u \in m.list[t] /\ val[u] = Content(m, u) /\ ~m.var[u].tbc
    <2>1. /\ Is(m, u, "open") /\ u \in Vars
          /\ m.var[u].home = t /\ pending[u].idx = m.var[u].idx /\ ~m.var[u].tbc
      BY DEF MayReopen
    <2>2. /\ m.var[u].idx \in DOMAIN m.stack[t]
          /\ SlotOf(m, t, m.var[u].idx) = Content(m, u)
      BY <2>1, SlotContent
    <2>3. val[u] = Content(m, u)
      BY <2>1, <2>2 DEF SlotOf
    <2> QED
      BY <2>1, <2>3, ListMember
  <1>3. DOMAIN val = DOMAIN pending
    OBVIOUS
  <1> HIDE DEF r, val
  <1>4. DOMAIN val \subseteq m.list[t]
    BY <1>2, <1>3
  <1>5. /\ MachineInv(r) /\ SameShape(m, r)
        /\ \A u \in Vars : r.cell[u].st = IF u \in DOMAIN val THEN "closed" ELSE m.cell[u].st
    BY <1>1, <1>2, <1>3, <1>4, CloseByRefInv
  <1> QED
    BY <1>3, <1>5 DEF r
(* The record of a variable with one field changed.                          *)
LEMMA VarLive ==
  ASSUME NEW x \in VarRecs
  PROVE  LET y == [x EXCEPT !.live = FALSE] IN
         /\ y \in VarRecs /\ y.live = FALSE /\ y.home = x.home /\ y.idx = x.idx
         /\ y.ver = x.ver /\ y.tbc = x.tbc /\ y.closed = x.closed /\ y.via = x.via
  BY DEF VarRecs

LEMMA VarClosed ==
  ASSUME NEW x \in VarRecs, NEW n \in Nat
  PROVE  LET y == Called(x, n) IN
         /\ y \in VarRecs /\ y.live = x.live /\ y.home = x.home /\ y.idx = x.idx
         /\ y.ver = x.ver /\ y.tbc = x.tbc /\ y.closed = x.closed + n /\ y.via = x.via
  BY DEF VarRecs, Called

(* The end of a frame: the slots of thread t from b on are gone, and cells   *)
(* are as they were.                                                         *)
IsCut(m, t, b, r) ==
    /\ r.cell = m.cell
    /\ \A s \in Threads : Len(r.stack[s]) = IF s = t THEN b - 1 ELSE Len(m.stack[s])
    /\ \A v \in Vars :
         /\ r.var[v].home = m.var[v].home /\ r.var[v].idx = m.var[v].idx
         /\ r.var[v].tbc = m.var[v].tbc /\ r.var[v].closed = m.var[v].closed
         /\ r.var[v].live <=> m.var[v].live /\ ~(m.var[v].home = t /\ m.var[v].idx >= b)

LEMMA TruncateInv ==
  ASSUME NEW m, MachineInv(m), NEW t \in Threads,
         NEW b \in Nat \ {0}, b <= Len(m.stack[t]) + 1,
         \A v \in Vars : Is(m, v, "open") /\ m.var[v].home = t => m.var[v].idx < b
  PROVE  LET r == Truncate(m, t, b) IN MachineInv(r) /\ IsCut(m, t, b, r) /\ r.list = m.list
  <1> DEFINE new == SubSeq(m.stack[t], 1, b - 1)
             stk == [m.stack EXCEPT ![t] = new]
             Gone(v) == m.var[v].home = t /\ m.var[v].idx >= b
             x == [v \in Vars |-> IF Gone(v) THEN [m.var[v] EXCEPT !.live = FALSE] ELSE m.var[v]]
             r == Truncate(m, t, b)
  <1>1. m \in Machines
    BY DEF MachineInv
  <1>2. /\ m.stack[t] \in Seq(Value) /\ Len(m.stack[t]) \in Nat
        /\ \A v \in Vars : m.var[v] \in VarRecs
    BY <1>1, MachineFields
  <1>3. r = MachineOf(stk, m.cell, m.list, x)
    <2>1. r = [m EXCEPT !.stack = stk, !.var = x]
      BY DEF Truncate
    <2> HIDE DEF stk, x
    <2> QED
      BY <1>1, <2>1, MachineFields DEF MachineOf
  <1> HIDE DEF r
  <1>4. r.stack = stk /\ r.cell = m.cell /\ r.list = m.list /\ r.var = x
    BY <1>3 DEF MachineOf
  <1>5. /\ new \in Seq(Value) /\ Len(new) = b - 1
        /\ \A i \in 1..(b - 1) : new[i] = m.stack[t][i]
    BY <1>2
  <1>6. stk \in [Threads -> Seq(Value)]
    BY <1>1, <1>5, MachineFields
  <1>7. \A v \in Vars :
          /\ x[v] \in VarRecs
          /\ x[v].home = m.var[v].home /\ x[v].idx = m.var[v].idx /\ x[v].ver = m.var[v].ver
          /\ x[v].tbc = m.var[v].tbc /\ x[v].closed = m.var[v].closed /\ x[v].via = m.var[v].via
          /\ x[v].live <=> m.var[v].live /\ ~Gone(v)
    BY <1>2, VarLive
  <1>8. x \in [Vars -> VarRecs]
    BY <1>7
  <1> HIDE DEF x, new
  <1>9. r \in Machines
    <2>1. r = [stack |-> stk, cell |-> m.cell, list |-> m.list, var |-> x]
      BY <1>3 DEF MachineOf
    <2> HIDE DEF stk
    <2> QED
      BY <1>1, <1>6, <1>8, <2>1, MachineFields DEF Machines
  <1>10. IsCut(m, t, b, r)
    BY <1>1, <1>4, <1>5, <1>7, MachineFields DEF IsCut
  <1>11. ASSUME NEW v \in Vars PROVE VarOK(r, v) /\ ValueOK(r, v) /\ TbcOK(r, v)
    <2>1. VarOK(m, v) /\ ValueOK(m, v) /\ TbcOK(m, v)
      BY DEF MachineInv
    <2>2. /\ m.var[v].home \in Threads /\ m.var[v].idx \in Nat
          /\ \A s \in Threads : Len(m.stack[s]) \in Nat
      <3>1. \A s \in Threads : m.stack[s] \in Seq(Value)
        BY <1>1, MachineFields
      <3>2. m.var[v].home \in Threads /\ m.var[v].idx \in Nat
        BY <1>2 DEF VarRecs
      <3> QED
        BY <3>1, <3>2
    <2>3. \A s \in Threads \ {t} : r.stack[s] = m.stack[s]
      BY <1>1, <1>4, MachineFields
    <2>4. r.stack[t] = new
      BY <1>1, <1>4, MachineFields
    <2>5. r.var[v].live =>
            /\ m.var[v].live /\ m.var[v].idx \in 1..Len(r.stack[m.var[v].home])
            /\ r.stack[m.var[v].home][m.var[v].idx] = m.stack[m.var[v].home][m.var[v].idx]
      BY <1>4, <1>5, <1>7, <2>1, <2>2, <2>3, <2>4, SMTT(30) DEF VarOK
    <2>6. Is(m, v, "open") => r.var[v].live
      BY <1>4, <1>7, <2>1, <2>2 DEF VarOK
    <2>7. VarOK(r, v)
      <3>1. r.var[v].live => \A w \in Vars : (/\ r.var[w].live /\ r.var[w].home = r.var[v].home
                                              /\ r.var[w].idx = r.var[v].idx) => w = v
        BY <1>4, <1>7, <2>1 DEF VarOK
      <3> QED
        BY <1>4, <1>7, <2>1, <2>5, <2>6, <3>1 DEF VarOK, Is
    <2>8. ValueOK(r, v)
      BY <1>4, <1>7, <2>1, <2>5 DEF ValueOK, Is, Content
    <2>9. TbcOK(r, v)
      BY <1>4, <1>7, <2>1 DEF TbcOK, Is
    <2> QED
      BY <2>7, <2>8, <2>9
  <1>12. ASSUME NEW s \in Threads PROVE ListOK(r, s)
    <2>1. ListOK(m, s)
      BY DEF MachineInv
    <2> QED
      BY <1>4, <1>7, <2>1 DEF ListOK, Is
  <1> QED
    BY <1>4, <1>9, <1>10, <1>11, <1>12 DEF MachineInv, r

(* A dead coroutine: no cell is left open on its stack.                      *)
LEMMA DroppedInv ==
  ASSUME NEW m, MachineInv(m), NEW c \in Threads,
         \A v \in Vars : ~(Is(m, v, "open") /\ m.var[v].home = c)
  PROVE  MachineInv(Dropped(m, c)) /\ IsCut(m, c, 1, Dropped(m, c))
  <1> DEFINE r == Truncate(m, c, 1)
  <1>1. m \in Machines /\ 1 <= Len(m.stack[c]) + 1
    BY MachineFields DEF MachineInv
  <1>2. MachineInv(r) /\ IsCut(m, c, 1, r) /\ r.list = m.list
    BY <1>1, TruncateInv
  <1>3. m.list[c] = {}
    BY DEF MachineInv, ListOK
  <1>4. r \in Machines
    BY <1>2 DEF MachineInv
  <1>5. Dropped(m, c) = r
    <2>1. Dropped(m, c) = [r EXCEPT !.list[c] = {}]
      BY DEF Dropped
    <2> HIDE DEF r
    <2>2. [r.list EXCEPT ![c] = {}] = r.list
      BY <1>2, <1>3, <1>4, MachineFields
    <2>3. [r EXCEPT !.list[c] = {}] = [r EXCEPT !.list = [r.list EXCEPT ![c] = {}]]
      OBVIOUS
    <2> QED
      BY <1>4, <2>1, <2>2, <2>3, MachineFields
  <1> QED
    BY <1>2, <1>5
(* find_upval for locals whose cells are not closed: they are open then.     *)
LEMMA FindUpvalsInv ==
  ASSUME NEW m, MachineInv(m), NEW t \in Threads, NEW S \in SUBSET Vars,
         \A v \in S : /\ m.var[v].live /\ m.var[v].home = t
                      /\ ~Is(m, v, "closed") /\ ~m.var[v].tbc
  PROVE  LET r == FindUpvals(m, t, S) IN
         /\ MachineInv(r) /\ SameShape(m, r) /\ r.stack = m.stack
         /\ \A u \in Vars : r.cell[u].st = IF u \in S THEN "open" ELSE m.cell[u].st
  <1> DEFINE hits(v) == OpenAt(m, t, m.var[v].idx)
             new == {v \in S : hits(v) = {}}
             via(v) == IF v \in new THEN v ELSE CHOOSE u \in hits(v) : TRUE
             x == [v \in Vars |-> IF v \in S THEN [m.var[v] EXCEPT !.via = via(v)] ELSE m.var[v]]
             k == [v \in Vars |-> IF v \in new THEN OpenCell(m.var[v].idx, FALSE) ELSE m.cell[v]]
             l == [m.list EXCEPT ![t] = m.list[t] \cup new]
             r == FindUpvals(m, t, S)
  <1>1. m \in Machines
    BY DEF MachineInv
  <1>2. \A v \in Vars : VarOK(m, v) /\ ValueOK(m, v) /\ TbcOK(m, v)
    BY DEF MachineInv
  <1>3. \A v \in Vars : m.var[v] \in VarRecs /\ m.cell[v] \in Cells
    BY <1>1, MachineFields
  <1>4. ASSUME NEW v \in S
        PROVE  /\ \A u \in hits(v) : u = v
               /\ v \in new <=> m.cell[v].st = "none"
               /\ via(v) = v
    <2>1. ASSUME NEW u PROVE u \in hits(v) <=> u = v /\ Is(m, v, "open")
      <3>1. u \in hits(v) <=> u \in Vars /\ Is(m, u, "open") /\ m.var[u].home = t
                              /\ m.cell[u].idx = m.var[v].idx
        BY ListMember DEF OpenAt, IsOpen, Is
      <3>2. CASE u \in Vars /\ Is(m, u, "open")
        <4>1. m.cell[u].idx = m.var[u].idx /\ m.var[u].live
          BY <3>2, SlotContent
        <4> QED
          BY <1>2, <3>1, <3>2, <4>1 DEF VarOK
      <3>3. CASE ~(u \in Vars /\ Is(m, u, "open"))
        BY <3>1, <3>3
      <3> QED
        BY <3>2, <3>3
    <2>2. m.cell[v].st \in {"none", "open", "closed"}
      BY <1>3 DEF Cells
    <2> HIDE DEF hits
    <2>3. v \in new <=> m.cell[v].st = "none"
      BY <2>1, <2>2 DEF Is
    <2>4. via(v) = v
      BY <2>1, <2>2, <2>3 DEF Is
    <2> QED
      BY <2>1, <2>3, <2>4
  <1>5. r = MachineOf(m.stack, k, l, x)
    <2>1. r = [m EXCEPT !.var = x, !.cell = k, !.list = l]
      BY DEF FindUpvals
    <2> HIDE DEF x, k, l
    <2> DEFINE n == [m EXCEPT !.var = x]
    <2>2. r = [n EXCEPT !.cell = k, !.list = l]
      BY <2>1
    <2>3. n = [stack |-> m.stack, cell |-> m.cell, list |-> m.list, var |-> x]
      BY <1>1, MachineFields
    <2> HIDE DEF n
    <2> QED
      BY <2>2, <2>3 DEF MachineOf
  <1> HIDE DEF r
  <1>6. r.stack = m.stack /\ r.cell = k /\ r.list = l /\ r.var = x
    BY <1>5 DEF MachineOf
  <1>7. x = m.var
    <2>1. ASSUME NEW v \in Vars PROVE x[v] = m.var[v]
      <3>1. CASE v \in S
        <4>1. x[v] = [m.var[v] EXCEPT !.via = v]
          BY <1>4, <3>1
        <4>2. m.var[v].via = v
          BY <1>2 DEF VarOK
        <4> QED
          BY <1>3, <4>1, <4>2 DEF VarRecs
      <3>2. CASE v \notin S
        BY <3>2
      <3> QED
        BY <3>1, <3>2
    <2>2. x = [v \in Vars |-> x[v]] /\ m.var = [v \in Vars |-> m.var[v]]
      BY <1>1, MachineFields
    <2> HIDE DEF x
    <2> QED
      BY <2>1, <2>2
  <1>8. k \in [Vars -> Cells]
    BY <1>3 DEF OpenCell, Cells, VarRecs, Value
  <1>9. l \in [Threads -> SUBSET Vars]
    BY <1>1, MachineFields
  <1>10. \A v \in Vars : k[v] = IF v \in new THEN OpenCell(m.var[v].idx, FALSE) ELSE m.cell[v]
    OBVIOUS
  <1>11. \A s \in Threads : l[s] = IF s = t THEN m.list[t] \cup new ELSE m.list[s]
    BY <1>1, MachineFields
  <1>12. \A v \in new : /\ v \in S /\ v \in Vars /\ m.cell[v].st = "none"
                        /\ m.var[v].live /\ m.var[v].home = t /\ m.var[v].tbc = FALSE
    BY <1>3, <1>4 DEF VarRecs
  <1>13. \A v \in S : v \in new <=> m.cell[v].st = "none"
    BY <1>4
  <1> HIDE DEF x, k, l, via, new, hits
  <1>14. r \in Machines
    <2>1. r = [stack |-> m.stack, cell |-> k, list |-> l, var |-> m.var]
      BY <1>5, <1>7 DEF MachineOf
    <2> QED
      BY <1>1, <1>8, <1>9, <2>1, MachineFields DEF Machines
  <1>15. ASSUME NEW v \in Vars PROVE VarOK(r, v) /\ ValueOK(r, v) /\ TbcOK(r, v)
    <2>1. VarOK(m, v) /\ ValueOK(m, v) /\ TbcOK(m, v)
      BY <1>2
    <2>2. CASE v \in new
      <3>1. /\ r.cell[v] = OpenCell(m.var[v].idx, FALSE)
            /\ m.cell[v].st = "none" /\ m.var[v].live /\ m.var[v].tbc = FALSE
        BY <1>6, <1>10, <1>12, <2>2
      <3>2. VarOK(r, v)
        <4>1. r.stack = m.stack /\ r.var = m.var
          BY <1>6, <1>7
        <4>2. m.var[v].idx # 0
          BY <2>1, <3>1, SMTT(30) DEF VarOK
        <4> QED
          <5>1. r.cell[v] = OpenCell(r.var[v].idx, r.var[v].tbc)
            BY <3>1, <4>1
          <5>2. r.var[v].live /\ r.var[v].idx # 0
            BY <3>1, <4>1, <4>2
          <5>3. \A w \in Vars : (/\ r.var[w].live /\ r.var[w].home = r.var[v].home
                               /\ r.var[w].idx = r.var[v].idx) => w = v
            BY <2>1, <3>1, <4>1 DEF VarOK
          <5>4. r.var[v].idx \in 1..Len(r.stack[r.var[v].home]) /\ r.var[v].via = v
            BY <2>1, <3>1, <4>1 DEF VarOK
          <5> QED
            BY <5>1, <5>2, <5>3, <5>4 DEF VarOK
      <3>3. ValueOK(r, v)
        <4>1. r.stack = m.stack /\ r.var = m.var /\ r.cell[v].st = "open"
          BY <1>6, <1>7, <3>1 DEF OpenCell
        <4>2. m.stack[m.var[v].home][m.var[v].idx] = Content(m, v)
          BY <2>1, <3>1 DEF ValueOK, Is
        <4> QED
          BY <4>1, <4>2 DEF ValueOK, Is, Content
      <3>4. TbcOK(r, v)
        BY <1>6, <1>7, <2>1, <3>1 DEF TbcOK
      <3> QED
        BY <3>2, <3>3, <3>4
    <2>3. CASE v \notin new
      BY <1>6, <1>7, <1>10, <2>1, <2>3, ZenonT(40) DEF VarOK, ValueOK, TbcOK, Is, Content
    <2> QED
      BY <2>2, <2>3
  <1>16. ASSUME NEW v \in Vars
         PROVE  r.cell[v].st = IF v \in S THEN "open" ELSE m.cell[v].st
    <2>1. m.cell[v].st \in {"none", "open", "closed"}
      BY <1>3 DEF Cells
    <2>2. v \in S => ~Is(m, v, "closed")
      OBVIOUS
    <2>3. CASE v \in new
      <3>1. r.cell[v] = OpenCell(m.var[v].idx, FALSE) /\ v \in S
        BY <1>6, <1>10, <1>12, <2>3
      <3> QED
        BY <3>1 DEF OpenCell
    <2>4. CASE v \notin new
      BY <1>6, <1>10, <1>13, <2>1, <2>2, <2>4 DEF Is
    <2> QED
      BY <2>3, <2>4
  <1>17. ASSUME NEW s \in Threads PROVE ListOK(r, s)
    <2>1. ListOK(m, s)
      BY DEF MachineInv
    <2>2. \A v \in Vars : Is(r, v, "open") <=> Is(m, v, "open") \/ v \in new
      <3> SUFFICES ASSUME NEW v \in Vars PROVE Is(r, v, "open") <=> Is(m, v, "open") \/ v \in new
        OBVIOUS
      <3>1. CASE v \in new
        <4>1. r.cell[v] = OpenCell(m.var[v].idx, FALSE)
          BY <1>6, <1>10, <3>1
        <4> QED
          BY <3>1, <4>1 DEF OpenCell, Is
      <3>2. CASE v \notin new
        BY <1>6, <1>10, <3>2 DEF Is
      <3> QED
        BY <3>1, <3>2
    <2> QED
      BY <1>6, <1>7, <1>11, <1>12, <2>1, <2>2 DEF ListOK
  <1>18. SameShape(m, r)
    BY <1>6, <1>7 DEF SameShape
  <1>19. MachineInv(r)
    BY <1>14, <1>15, <1>17 DEF MachineInv
  <1> QED
    BY <1>6, <1>16, <1>18, <1>19 DEF r
(* A bounded set of numbers, and a set of cells, has a highest member.       *)
LEMMA HighestNumber ==
  ASSUME NEW n \in Nat, NEW S \in SUBSET (0..n), S # {}
  PROVE  \E x \in S : \A y \in S : x >= y
  <1> DEFINE T == {n - x : x \in S}
             R == OpToRel(<, Nat)
  <1>0. \A x \in S : x \in Nat /\ x <= n /\ n - x \in Nat
    OBVIOUS
  <1>1. T \subseteq Nat /\ T # {}
    BY <1>0
  <1>2. PICK x \in T : \A y \in T : <<y, x>> \notin R
    <2>1. IsWellFoundedOn(R, Nat)
      BY NatLessThanWellFounded
    <2> HIDE DEF T, R
    <2> QED
      BY <1>1, <2>1, WFMin
  <1>3. \A y \in T : ~(y < x)
    BY <1>1, <1>2 DEF OpToRel
  <1>4. n - x \in S /\ x \in Nat
    BY <1>0
  <1>5. ASSUME NEW y \in S PROVE n - x >= y
    <2>1. n - y \in T /\ n - y \in Nat /\ y \in Nat
      BY <1>0
    <2>2. ~(n - y < x)
      BY <1>3, <2>1
    <2> QED
      BY <1>4, <2>1, <2>2
  <1> QED
    BY <1>4, <1>5

LEMMA HighestCell ==
  ASSUME NEW m, MachineInv(m), NEW t \in Threads, NEW S \in SUBSET m.list[t], S # {}
  PROVE  /\ Highest(m, S) \in S
         /\ \A w \in S : m.var[Highest(m, S)].idx >= m.var[w].idx
  <1> DEFINE I == {m.cell[u].idx : u \in S}
             n == Len(m.stack[t])
  <1>1. \A u \in S : m.cell[u].idx = m.var[u].idx /\ m.var[u].idx \in 1..n
    <2>1. \A u \in S : u \in Vars /\ Is(m, u, "open") /\ m.var[u].home = t
      BY ListMember
    <2>2. m.stack[t] \in Seq(Value)
      BY MachineFields DEF MachineInv
    <2> QED
      BY <2>1, <2>2, SlotContent
  <1>2. n \in Nat
    BY MachineFields DEF MachineInv
  <1>3. I \subseteq 0..n /\ I # {}
    BY <1>1, <1>2
  <1>4. PICK x \in I : \A y \in I : x >= y
    <2> HIDE DEF I, n
    <2> QED
      BY <1>2, <1>3, HighestNumber
  <1>5. PICK u \in S : \A w \in S : m.cell[u].idx >= m.cell[w].idx
    BY <1>4
  <1> QED
    BY <1>1, <1>5 DEF Highest

(* The loop of close over the open cells S of a thread.                      *)
LEMMA CloseInv ==
  ASSUME NEW m, MachineInv(m), NEW t \in Threads, NEW S \in SUBSET m.list[t]
  PROVE  LET r == Close(m, t, S) IN
         /\ MachineInv(r) /\ r.stack = m.stack
         /\ \A v \in Vars :
              /\ r.cell[v].st = IF v \in S THEN "closed" ELSE m.cell[v].st
              /\ r.var[v].live = m.var[v].live /\ r.var[v].home = m.var[v].home
              /\ r.var[v].idx = m.var[v].idx /\ r.var[v].tbc = m.var[v].tbc
              /\ r.var[v].closed = IF v \in S /\ m.var[v].tbc THEN m.var[v].closed + 1
                                   ELSE m.var[v].closed
  <1> DEFINE val == [u \in S |-> SlotOf(m, t, m.cell[u].idx)]
             q == CloseUpvals(m, t, S)
             calls(v) == Cardinality(CallsFor(m, t, S, v))
             x == [v \in Vars |-> Called(m.var[v], calls(v))]
             r == Close(m, t, S)
  <1>1. m \in Machines
    BY DEF MachineInv
  <1>2. \A u \in S : /\ u \in Vars /\ Is(m, u, "open") /\ m.var[u].home = t
                     /\ m.cell[u].tbc = m.var[u].tbc
                     /\ SlotOf(m, t, m.cell[u].idx) = Content(m, u)
                     /\ Content(m, u) \in Value
    BY ListMember, SlotContent
  <1>3. IsClosing(m, t, val, q)
    BY <1>1, <1>2, CloseByRefFields DEF CloseUpvals
  <1>4. \A v \in Vars : m.var[v] \in VarRecs
    BY <1>1, MachineFields
  <1>5. ASSUME NEW v \in Vars PROVE calls(v) = IF v \in S /\ m.var[v].tbc THEN 1 ELSE 0
    <2>1. \A u \in S : Content(m, u) # Nil /\ Content(m, u)[1] = u
      <3>1. \A u \in Vars : m.var[u].ver \in {0, 1}
        BY <1>4 DEF VarRecs
      <3> QED
        BY <1>2, <3>1, CoroutineConstants DEF Content
    <2>2. CallsFor(m, t, S, v) = {u \in S : m.var[u].tbc /\ u = v}
      BY <1>2, <2>1 DEF CallsFor
    <2>3. CASE v \in S /\ m.var[v].tbc
      <3>1. CallsFor(m, t, S, v) = {v}
        BY <2>2, <2>3
      <3> QED
        BY <2>3, <3>1, FS_Singleton
    <2>4. CASE ~(v \in S /\ m.var[v].tbc)
      <3>1. CallsFor(m, t, S, v) = {}
        BY <2>2, <2>4
      <3> QED
        BY <2>4, <3>1, FS_EmptySet
    <2> QED
      BY <2>3, <2>4
  <1>6. q.var = m.var /\ q.stack = m.stack /\ q \in Machines
    BY <1>3 DEF IsClosing
  <1>7. r = MachineOf(m.stack, q.cell, q.list, x)
    <2> DEFINE y == [v \in Vars |-> Called(q.var[v], calls(v))]
    <2>1. r = [q EXCEPT !.var = y]
      BY DEF Close
    <2>2. y = x
      BY <1>6
    <2> HIDE DEF y, x, q
    <2> QED
      BY <1>6, <2>1, <2>2, MachineFields DEF MachineOf
  <1> HIDE DEF r
  <1>8. r.stack = m.stack /\ r.cell = q.cell /\ r.list = q.list /\ r.var = x
    BY <1>7 DEF MachineOf
  <1>9. \A v \in Vars :
          /\ x[v] \in VarRecs
          /\ x[v].live = m.var[v].live /\ x[v].home = m.var[v].home /\ x[v].idx = m.var[v].idx
          /\ x[v].ver = m.var[v].ver /\ x[v].tbc = m.var[v].tbc /\ x[v].via = m.var[v].via
          /\ x[v].closed = m.var[v].closed + calls(v)
    <2> SUFFICES ASSUME NEW v \in Vars
                 PROVE  /\ x[v] \in VarRecs
                        /\ x[v].live = m.var[v].live /\ x[v].home = m.var[v].home
                        /\ x[v].idx = m.var[v].idx /\ x[v].ver = m.var[v].ver
                        /\ x[v].tbc = m.var[v].tbc /\ x[v].via = m.var[v].via
                        /\ x[v].closed = m.var[v].closed + calls(v)
      OBVIOUS
    <2>1. calls(v) \in Nat /\ m.var[v] \in VarRecs
      BY <1>4, <1>5
    <2>2. x[v] = Called(m.var[v], calls(v))
      OBVIOUS
    <2> HIDE DEF calls, x
    <2> QED
      BY <2>1, <2>2, VarClosed
  <1>10. x \in [Vars -> VarRecs]
    BY <1>9
  <1> HIDE DEF x, calls
  <1>11. r \in Machines
    <2>1. r = [stack |-> m.stack, cell |-> q.cell, list |-> q.list, var |-> x]
      BY <1>7 DEF MachineOf
    <2> HIDE DEF q
    <2> QED
      BY <1>1, <1>6, <1>10, <2>1, MachineFields DEF Machines
  <1>12. /\ \A v \in Vars : r.cell[v] = IF v \in S THEN ClosedCell(Content(m, v)) ELSE m.cell[v]
         /\ \A s \in Threads : r.list[s] = IF s = t THEN m.list[t] \ S ELSE m.list[s]
    BY <1>2, <1>3, <1>8 DEF IsClosing
  <1> HIDE DEF q, val
  <1>13. ASSUME NEW v \in Vars
         PROVE  /\ r.cell[v].st = IF v \in S THEN "closed" ELSE m.cell[v].st
                /\ r.var[v].live = m.var[v].live /\ r.var[v].home = m.var[v].home
                /\ r.var[v].idx = m.var[v].idx /\ r.var[v].tbc = m.var[v].tbc
                /\ r.var[v].ver = m.var[v].ver /\ r.var[v].via = m.var[v].via
                /\ r.var[v].closed = IF v \in S /\ m.var[v].tbc THEN m.var[v].closed + 1
                                     ELSE m.var[v].closed
    <2>1. r.cell[v].st = IF v \in S THEN "closed" ELSE m.cell[v].st
      <3>1. CASE v \in S
        <4>1. r.cell[v] = ClosedCell(Content(m, v))
          BY <1>12, <3>1
        <4> QED
          BY <3>1, <4>1 DEF ClosedCell
      <3>2. CASE v \notin S
        BY <1>12, <3>2
      <3> QED
        BY <3>1, <3>2
    <2>2. m.var[v].closed \in Nat
      BY <1>4 DEF VarRecs
    <2> QED
      BY <1>5, <1>8, <1>9, <2>1, <2>2
  <1>14. ASSUME NEW v \in Vars PROVE VarOK(r, v) /\ ValueOK(r, v) /\ TbcOK(r, v)
    <2>1. VarOK(m, v) /\ ValueOK(m, v) /\ TbcOK(m, v)
      BY DEF MachineInv
    <2>2. r.stack = m.stack
      BY <1>8
    <2>3. CASE v \in S
      <3>1. /\ r.cell[v] = ClosedCell(Content(m, v)) /\ Is(m, v, "open")
            /\ m.var[v].live /\ m.var[v].idx # 0
            /\ m.stack[m.var[v].home][m.var[v].idx] = Content(m, v)
        BY <1>2, <1>12, <2>1, <2>3 DEF VarOK, ValueOK, Is
      <3>2. ~Is(r, v, "open") /\ ~Is(r, v, "none")
        BY <3>1 DEF Is, ClosedCell
      <3>3. VarOK(r, v)
        <4>1. \A w \in Vars : (/\ r.var[w].live /\ r.var[w].home = r.var[v].home
                             /\ r.var[w].idx = r.var[v].idx) => w = v
          BY <1>13, <2>1, <3>1 DEF VarOK
        <4>2. /\ r.var[v].idx \in 1..Len(r.stack[r.var[v].home]) /\ r.var[v].via = v
              /\ r.var[v].idx # 0
          BY <1>13, <2>1, <2>2, <3>1 DEF VarOK
        <4> QED
          BY <3>2, <4>1, <4>2 DEF VarOK
      <3>4. ValueOK(r, v)
        <4>1. Content(r, v) = Content(m, v)
          BY <1>13 DEF Content
        <4>2. r.cell[v].val = Content(m, v)
          BY <3>1 DEF ClosedCell
        <4>3. r.stack[r.var[v].home][r.var[v].idx] = Content(m, v)
          BY <1>13, <2>2, <3>1
        <4> QED
          BY <4>1, <4>2, <4>3 DEF ValueOK
      <3>5. TbcOK(r, v)
        BY <1>13, <2>1, <2>3, <3>1, <3>2 DEF TbcOK
      <3> QED
        BY <3>3, <3>4, <3>5
    <2>4. CASE v \notin S
      <3>1. r.cell[v] = m.cell[v]
        BY <1>12, <2>4
      <3>2. VarOK(r, v)
        BY <1>13, <2>1, <2>2, <3>1, SMTT(30) DEF VarOK, Is
      <3>3. ValueOK(r, v)
        BY <1>13, <2>1, <2>2, <3>1 DEF ValueOK, Is, Content
      <3>4. TbcOK(r, v)
        BY <1>13, <2>1, <2>4, <3>1 DEF TbcOK, Is
      <3> QED
        BY <3>2, <3>3, <3>4
    <2> QED
      BY <2>3, <2>4
  <1>15. ASSUME NEW s \in Threads PROVE ListOK(r, s)
    <2>1. ListOK(m, s)
      BY DEF MachineInv
    <2>2. \A v \in Vars : Is(r, v, "open") <=> Is(m, v, "open") /\ v \notin S
      BY <1>13 DEF Is
    <2>3. \A v \in Vars : r.var[v].home = m.var[v].home
      BY <1>13
    <2> QED
      BY <1>2, <1>12, <2>1, <2>2, <2>3 DEF ListOK
  <1>16. MachineInv(r)
    BY <1>11, <1>14, <1>15 DEF MachineInv
  <1> QED
    BY <1>8, <1>13, <1>16 DEF r

(* Without a handler that yields, close empties the list above the level.    *)
LEMMA CloseFromAll ==
  ASSUME NEW m, MachineInv(m), NEW t \in Threads, NEW level, NEW n \in Nat,
         n >= Cardinality(Vars)
  PROVE  CloseFrom(m, t, level, n) = Close(m, t, ToClose(m, t, level))
  <1> DEFINE all == ToClose(m, t, level)
             above(u) == {w \in all : m.cell[w].tbc /\ m.cell[w].idx > m.cell[u].idx}
  <1>1. IsFiniteSet(Vars) /\ Cardinality(Vars) \in Nat
    BY CoroutineConstants, FS_CardinalityType
  <1>2. all \subseteq Vars
    BY ListMember DEF ToClose
  <1>3. \A u \in all : m.cell[u].idx \in Nat
    BY <1>2, MachineFields DEF MachineInv, Cells
  <1>4. ASSUME NEW u \in all PROVE Cardinality(above(u)) < n
    <2>1. above(u) \subseteq Vars \ {u}
      BY <1>2, <1>3
    <2>2. /\ IsFiniteSet(Vars \ {u})
          /\ Cardinality(Vars \ {u}) = Cardinality(Vars) - 1
      BY <1>1, <1>2, FS_RemoveElement
    <2> HIDE DEF above
    <2>3. /\ IsFiniteSet(above(u))
          /\ Cardinality(above(u)) <= Cardinality(Vars \ {u})
      BY <2>1, <2>2, FS_Subset
    <2>4. Cardinality(above(u)) \in Nat
      BY <2>3, FS_CardinalityType
    <2> QED
      BY <1>1, <2>2, <2>3, <2>4
  <1>5. {u \in all : Cardinality(above(u)) < n} = all
    BY <1>4
  <1> QED
    BY <1>5 DEF CloseFrom
(* The lives of the variables and their closing are as they were.            *)
SameVars(m, r) ==
    /\ \A v \in Vars : /\ r.var[v].live = m.var[v].live /\ r.var[v].home = m.var[v].home
                       /\ r.var[v].idx = m.var[v].idx /\ r.var[v].tbc = m.var[v].tbc
                       /\ r.var[v].closed = m.var[v].closed
                       /\ r.cell[v].st = m.cell[v].st
    /\ \A s \in Threads : Len(r.stack[s]) = Len(m.stack[s])

LEMMA VarVer ==
  ASSUME NEW x \in VarRecs
  PROVE  LET y == [x EXCEPT !.ver = 1 - @] IN
         /\ y \in VarRecs /\ y.live = x.live /\ y.home = x.home /\ y.idx = x.idx
         /\ y.ver = 1 - x.ver /\ y.tbc = x.tbc /\ y.closed = x.closed /\ y.via = x.via
  <1>1. 1 - x.ver \in {0, 1}
    BY DEF VarRecs
  <1> QED
    BY <1>1 DEF VarRecs

(* What Written leaves of a machine.                                         *)
LEMMA WrittenFields ==
  ASSUME NEW m \in Machines, NEW v \in Vars
  PROVE  LET r == Written(m, v) IN
         /\ r \in Machines /\ r.stack = m.stack /\ r.cell = m.cell /\ r.list = m.list
         /\ \A w \in Vars :
              /\ r.var[w].live = m.var[w].live /\ r.var[w].home = m.var[w].home
              /\ r.var[w].idx = m.var[w].idx /\ r.var[w].tbc = m.var[w].tbc
              /\ r.var[w].closed = m.var[w].closed /\ r.var[w].via = m.var[w].via
              /\ r.var[w].ver = IF w = v THEN 1 - m.var[v].ver ELSE m.var[w].ver
  <1> DEFINE y == [m.var[v] EXCEPT !.ver = 1 - @]
             x == [m.var EXCEPT ![v] = y]
             r == Written(m, v)
  <1>1. m.var[v] \in VarRecs /\ \A w \in Vars : m.var[w] \in VarRecs
    BY MachineFields
  <1>2. /\ y \in VarRecs /\ y.live = m.var[v].live /\ y.home = m.var[v].home
        /\ y.idx = m.var[v].idx /\ y.ver = 1 - m.var[v].ver /\ y.tbc = m.var[v].tbc
        /\ y.closed = m.var[v].closed /\ y.via = m.var[v].via
    BY <1>1, VarVer
  <1>3. r = MachineOf(m.stack, m.cell, m.list, x)
    <2>1. r = [m EXCEPT !.var = x]
      BY DEF Written
    <2> HIDE DEF x
    <2> QED
      BY <2>1, MachineFields DEF MachineOf
  <1> HIDE DEF y, r
  <1>4. x \in [Vars -> VarRecs] /\ \A w \in Vars : x[w] = IF w = v THEN y ELSE m.var[w]
    BY <1>2, MachineFields
  <1>5. r.stack = m.stack /\ r.cell = m.cell /\ r.list = m.list /\ r.var = x
    BY <1>3 DEF MachineOf
  <1> HIDE DEF x
  <1>6. r \in Machines
    <2>1. r = [stack |-> m.stack, cell |-> m.cell, list |-> m.list, var |-> x]
      BY <1>3 DEF MachineOf
    <2> QED
      BY <1>4, <2>1, MachineFields DEF Machines
  <1> QED
    BY <1>2, <1>4, <1>5, <1>6 DEF r

(* A new value for a variable that lives in its slot.                        *)
LEMMA WriteSlotInv ==
  ASSUME NEW m, MachineInv(m), NEW v \in Vars, m.var[v].live, ~m.var[v].tbc,
         ~Is(m, v, "closed")
  PROVE  LET r == [Written(m, v) EXCEPT
                     !.stack[m.var[v].home][m.var[v].idx] = <<v, 1 - m.var[v].ver>>] IN
         MachineInv(r) /\ SameVars(m, r)
  <1> DEFINE h == m.var[v].home
             i == m.var[v].idx
             z == <<v, 1 - m.var[v].ver>>
             q == Written(m, v)
             new == [m.stack[h] EXCEPT ![i] = z]
             stk == [m.stack EXCEPT ![h] = new]
             r == [q EXCEPT !.stack[h][i] = z]
  <1>1. m \in Machines /\ \A w \in Vars : VarOK(m, w) /\ ValueOK(m, w) /\ TbcOK(m, w)
    BY DEF MachineInv
  <1>2. /\ q \in Machines /\ q.stack = m.stack /\ q.cell = m.cell /\ q.list = m.list
        /\ \A w \in Vars :
              /\ q.var[w].live = m.var[w].live /\ q.var[w].home = m.var[w].home
              /\ q.var[w].idx = m.var[w].idx /\ q.var[w].tbc = m.var[w].tbc
              /\ q.var[w].closed = m.var[w].closed /\ q.var[w].via = m.var[w].via
              /\ q.var[w].ver = IF w = v THEN 1 - m.var[v].ver ELSE m.var[w].ver
    BY <1>1, WrittenFields
  <1>3. m.var[v] \in VarRecs /\ \A w \in Vars : m.var[w] \in VarRecs
    BY <1>1, MachineFields
  <1>4. h \in Threads /\ z \in Value /\ \A w \in Vars : m.var[w].home \in Threads
    <2>1. 1 - m.var[v].ver \in {0, 1}
      BY <1>3 DEF VarRecs
    <2> QED
      BY <1>3, <2>1 DEF VarRecs, Value
  <1>5. i \in 1..Len(m.stack[h]) /\ m.stack[h] \in Seq(Value)
    BY <1>1, <1>4, MachineFields, SMTT(30) DEF VarOK
  <1>6. /\ new \in Seq(Value) /\ Len(new) = Len(m.stack[h]) /\ new[i] = z
        /\ \A j \in 1..Len(m.stack[h]) \ {i} : new[j] = m.stack[h][j]
    BY <1>4, <1>5
  <1>7. r = MachineOf(stk, m.cell, m.list, q.var)
    <2>1. r = [q EXCEPT !.stack = [q.stack EXCEPT ![h] = [q.stack[h] EXCEPT ![i] = z]]]
      OBVIOUS
    <2>2. r = [q EXCEPT !.stack = stk]
      BY <1>2, <2>1
    <2> HIDE DEF q, stk, r
    <2> QED
      BY <1>2, <2>2, MachineFields, SMTT(30) DEF MachineOf
  <1> HIDE DEF q, new, r, z
  <1>8. r.stack = stk /\ r.cell = m.cell /\ r.list = m.list /\ r.var = q.var
    BY <1>7 DEF MachineOf
  <1>9. stk \in [Threads -> Seq(Value)] /\ \A s \in Threads : stk[s] = IF s = h THEN new ELSE m.stack[s]
    BY <1>1, <1>6, MachineFields
  <1>10. r \in Machines
    <2>1. r = [stack |-> stk, cell |-> m.cell, list |-> m.list, var |-> q.var]
      BY <1>7 DEF MachineOf
    <2> HIDE DEF stk
    <2> QED
      BY <1>1, <1>2, <1>9, <2>1, MachineFields DEF Machines
  <1> HIDE DEF stk
  <1>11. SameVars(m, r)
    <2>1. \A s \in Threads : Len(r.stack[s]) = Len(m.stack[s])
      BY <1>6, <1>8, <1>9
    <2>2. \A w \in Vars : r.cell[w].st = m.cell[w].st
      BY <1>8
    <2> QED
      BY <1>2, <1>8, <2>1, <2>2 DEF SameVars
  <1>12. ASSUME NEW w \in Vars PROVE VarOK(r, w) /\ ValueOK(r, w) /\ TbcOK(r, w)
    <2>1. VarOK(m, w) /\ ValueOK(m, w) /\ TbcOK(m, w)
      BY <1>1
    <2>2. m.var[w].home \in Threads /\ Len(r.stack[m.var[w].home]) = Len(m.stack[m.var[w].home])
      BY <1>4, <1>11 DEF SameVars
    <2>3. VarOK(r, w)
      <3>1. m.var[w].idx = 0 => w # v
        BY <2>1 DEF VarOK
      <3> QED
        BY <1>2, <1>8, <2>1, <2>2, <3>1 DEF VarOK, Is
    <2>4. TbcOK(r, w)
      BY <1>2, <1>8, <2>1 DEF TbcOK, Is
    <2>5. CASE w = v
      <3>1. Content(r, v) = z /\ r.stack[h][i] = z
        BY <1>2, <1>4, <1>6, <1>8, <1>9 DEF Content, z
      <3> QED
        BY <1>2, <1>8, <2>3, <2>4, <2>5, <3>1, SMTT(30) DEF ValueOK, Is
    <2>6. CASE w # v
      <3>1. Content(r, w) = Content(m, w)
        BY <1>2, <1>8, <2>6 DEF Content
      <3>2. m.var[w].live =>
              r.stack[m.var[w].home][m.var[w].idx] = m.stack[m.var[w].home][m.var[w].idx]
        <4>1. m.var[w].live => m.var[w].idx \in 1..Len(m.stack[m.var[w].home])
          BY <2>1 DEF VarOK
        <4>2. m.var[w].live /\ m.var[w].home = h => m.var[w].idx # i
          BY <2>1, <2>6 DEF VarOK
        <4> QED
          BY <1>6, <1>8, <1>9, <2>2, <4>1, <4>2, SMTT(30)
      <3>3. ValueOK(r, w)
        BY <1>2, <1>8, <2>1, <3>1, <3>2, SMTT(30) DEF ValueOK, Is
      <3> QED
        BY <2>3, <2>4, <3>3
    <2> QED
      BY <2>5, <2>6
  <1>13. ASSUME NEW s \in Threads PROVE ListOK(r, s)
    <2>1. ListOK(m, s)
      BY DEF MachineInv
    <2> QED
      BY <1>2, <1>8, <2>1 DEF ListOK, Is
  <1>14. MachineInv(r)
    BY <1>10, <1>12, <1>13 DEF MachineInv
  <1> QED
    BY <1>11, <1>14 DEF r, z, q

(* A new value for a variable whose cell is closed.                          *)
LEMMA WriteCellInv ==
  ASSUME NEW m, MachineInv(m), NEW v \in Vars, ~m.var[v].tbc, Is(m, v, "closed")
  PROVE  LET r == [Written(m, v) EXCEPT !.cell[v].val = <<v, 1 - m.var[v].ver>>] IN
         MachineInv(r) /\ SameVars(m, r)
  <1> DEFINE z == <<v, 1 - m.var[v].ver>>
             q == Written(m, v)
             new == [m.cell[v] EXCEPT !.val = z]
             k == [m.cell EXCEPT ![v] = new]
             r == [q EXCEPT !.cell[v].val = z]
  <1>1. m \in Machines /\ \A w \in Vars : VarOK(m, w) /\ ValueOK(m, w) /\ TbcOK(m, w)
    BY DEF MachineInv
  <1>2. /\ q \in Machines /\ q.stack = m.stack /\ q.cell = m.cell /\ q.list = m.list
        /\ \A w \in Vars :
              /\ q.var[w].live = m.var[w].live /\ q.var[w].home = m.var[w].home
              /\ q.var[w].idx = m.var[w].idx /\ q.var[w].tbc = m.var[w].tbc
              /\ q.var[w].closed = m.var[w].closed /\ q.var[w].via = m.var[w].via
              /\ q.var[w].ver = IF w = v THEN 1 - m.var[v].ver ELSE m.var[w].ver
    BY <1>1, WrittenFields
  <1>3. m.var[v] \in VarRecs /\ m.cell[v] \in Cells
    BY <1>1, MachineFields
  <1>4. z \in Value
    <2>1. 1 - m.var[v].ver \in {0, 1}
      BY <1>3 DEF VarRecs
    <2> QED
      BY <2>1 DEF Value
  <1>5. new \in Cells /\ new.st = m.cell[v].st /\ new.val = z
    BY <1>3, <1>4 DEF Cells
  <1>6. r = MachineOf(m.stack, k, m.list, q.var)
    <2>1. r = [q EXCEPT !.cell = [q.cell EXCEPT ![v] = [q.cell[v] EXCEPT !.val = z]]]
      OBVIOUS
    <2>2. r = [q EXCEPT !.cell = k]
      BY <1>2, <2>1
    <2> HIDE DEF q, k, r
    <2> QED
      BY <1>2, <2>2, MachineFields DEF MachineOf
  <1> HIDE DEF q, new, r, z
  <1>7. r.stack = m.stack /\ r.cell = k /\ r.list = m.list /\ r.var = q.var
    BY <1>6 DEF MachineOf
  <1>8. k \in [Vars -> Cells] /\ \A w \in Vars : k[w] = IF w = v THEN new ELSE m.cell[w]
    BY <1>1, <1>5, MachineFields
  <1> HIDE DEF k
  <1>9. r \in Machines
    <2>1. r = [stack |-> m.stack, cell |-> k, list |-> m.list, var |-> q.var]
      BY <1>6 DEF MachineOf
    <2> QED
      BY <1>1, <1>2, <1>8, <2>1, MachineFields DEF Machines
  <1>10. \A w \in Vars : r.cell[w].st = m.cell[w].st
    BY <1>5, <1>7, <1>8
  <1>11. SameVars(m, r)
    BY <1>2, <1>7, <1>10 DEF SameVars
  <1>12. ASSUME NEW w \in Vars PROVE VarOK(r, w) /\ ValueOK(r, w) /\ TbcOK(r, w)
    <2>1. VarOK(m, w) /\ ValueOK(m, w) /\ TbcOK(m, w)
      BY <1>1
    <2>2. TbcOK(r, w)
      BY <1>2, <1>7, <1>10, <2>1 DEF TbcOK, Is
    <2>3. CASE w = v
      <3>1. /\ ~Is(r, v, "open") /\ m.var[v].idx # 0 /\ r.cell[v].val = Content(r, v)
            /\ r.var[v].live = m.var[v].live /\ r.var[v].tbc = m.var[v].tbc
        <4>1. ~Is(r, v, "open")
          BY <1>10 DEF Is
        <4>2. m.var[v].idx # 0
          BY <1>1 DEF VarOK, Is, NoCell
        <4>3. r.cell[v].val = Content(r, v)
          BY <1>2, <1>5, <1>7, <1>8 DEF Content, z
        <4> QED
          BY <1>2, <1>7, <4>1, <4>2, <4>3
      <3>2. VarOK(r, v)
        BY <1>2, <1>7, <2>1, <2>3, <3>1 DEF VarOK
      <3>3. ValueOK(r, v)
        BY <1>10, <3>1 DEF ValueOK, Is
      <3> QED
        BY <2>2, <2>3, <3>2, <3>3
    <2>4. CASE w # v
      <3>1. Content(r, w) = Content(m, w) /\ r.cell[w] = m.cell[w]
        BY <1>2, <1>7, <1>8, <2>4 DEF Content
      <3>2. ValueOK(r, w)
        BY <1>2, <1>7, <2>1, <3>1 DEF ValueOK, Is
      <3>3. VarOK(r, w)
        BY <1>2, <1>7, <2>1, <2>4, <3>1 DEF VarOK, Is
      <3> QED
        BY <2>2, <3>2, <3>3
    <2> QED
      BY <2>3, <2>4
  <1>13. ASSUME NEW s \in Threads PROVE ListOK(r, s)
    <2>1. ListOK(m, s)
      BY DEF MachineInv
    <2> QED
      BY <1>2, <1>7, <1>10, <2>1 DEF ListOK, Is
  <1>14. MachineInv(r)
    BY <1>9, <1>12, <1>13 DEF MachineInv
  <1> QED
    BY <1>11, <1>14 DEF r, z, q
(* A local variable v, in the next slot of thread t.                         *)
IsVarDeclared(x, t, i, tbc, y) ==
    /\ y \in VarRecs /\ y.live = TRUE /\ y.home = t /\ y.idx = i
    /\ y.ver = x.ver /\ y.tbc = tbc /\ y.closed = x.closed /\ y.via = x.via

LEMMA VarDeclared ==
  ASSUME NEW x \in VarRecs, NEW t \in Threads, NEW i \in Nat, NEW tbc \in BOOLEAN
  PROVE  IsVarDeclared(x, t, i, tbc,
                       [x EXCEPT !.live = TRUE, !.home = t, !.idx = i, !.tbc = tbc])
  <1> DEFINE y1 == [x EXCEPT !.live = TRUE]
             y2 == [y1 EXCEPT !.home = t]
             y3 == [y2 EXCEPT !.idx = i]
             y4 == [y3 EXCEPT !.tbc = tbc]
             y == [x EXCEPT !.live = TRUE, !.home = t, !.idx = i, !.tbc = tbc]
  <1>0. y = y4
    OBVIOUS
  <1>1. /\ y1 \in VarRecs /\ y1.live = TRUE
        /\ y1.ver = x.ver /\ y1.closed = x.closed /\ y1.via = x.via
    BY DEF VarRecs
  <1> HIDE DEF y1
  <1>2. /\ y2 \in VarRecs /\ y2.live = TRUE /\ y2.home = t
        /\ y2.ver = x.ver /\ y2.closed = x.closed /\ y2.via = x.via
    BY <1>1 DEF VarRecs
  <1> HIDE DEF y2
  <1>3. /\ y3 \in VarRecs /\ y3.live = TRUE /\ y3.home = t /\ y3.idx = i
        /\ y3.ver = x.ver /\ y3.closed = x.closed /\ y3.via = x.via
    BY <1>2 DEF VarRecs
  <1> HIDE DEF y3
  <1>4. /\ y4 \in VarRecs /\ y4.live = TRUE /\ y4.home = t /\ y4.idx = i /\ y4.tbc = tbc
        /\ y4.ver = x.ver /\ y4.closed = x.closed /\ y4.via = x.via
    BY <1>3 DEF VarRecs
  <1> HIDE DEF y4, y
  <1>5. IsVarDeclared(x, t, i, tbc, y)
    BY <1>0, <1>4 DEF IsVarDeclared
  <1> QED
    BY <1>5 DEF y

(* The machine a declaration leaves.                                         *)
DeclaredIn(m, t, v, tbc) ==
    [m EXCEPT !.stack[t] = Append(@, <<v, 0>>),
              !.var[v] = [@ EXCEPT !.live = TRUE, !.home = t, !.idx = Len(m.stack[t]) + 1,
                                   !.tbc = tbc]]
DeclaredTbc(m, t, v) ==
    LET n == FindUpvals(DeclaredIn(m, t, v, TRUE), t, {v})
    IN  [n EXCEPT !.cell[n.var[v].via].tbc = TRUE]

IsDeclared(m, t, v, tbc, r) ==
    /\ r \in Machines
    /\ r.stack[t] = Append(m.stack[t], <<v, 0>>)
    /\ \A s \in Threads \ {t} : r.stack[s] = m.stack[s]
    /\ \A w \in Vars \ {v} : r.var[w] = m.var[w] /\ r.cell[w] = m.cell[w]
    /\ r.var[v].live = TRUE /\ r.var[v].home = t /\ r.var[v].idx = Len(m.stack[t]) + 1
    /\ r.var[v].ver = m.var[v].ver /\ r.var[v].tbc = tbc
    /\ r.var[v].closed = m.var[v].closed /\ r.var[v].via = m.var[v].via
    /\ r.cell[v] = IF tbc THEN OpenCell(Len(m.stack[t]) + 1, TRUE) ELSE m.cell[v]
    /\ \A s \in Threads : r.list[s] = IF tbc /\ s = t THEN m.list[s] \cup {v} ELSE m.list[s]

IsDeclaring(m, t, v, tbc, r) ==
    /\ r \in Machines /\ r.cell = m.cell /\ r.list = m.list
    /\ r.stack[t] = Append(m.stack[t], <<v, 0>>)
    /\ \A s \in Threads \ {t} : r.stack[s] = m.stack[s]
    /\ \A w \in Vars \ {v} : r.var[w] = m.var[w]
    /\ IsVarDeclared(m.var[v], t, Len(m.stack[t]) + 1, tbc, r.var[v])

LEMMA DeclaredFields ==
  ASSUME NEW m \in Machines, NEW t \in Threads, NEW v \in Vars, NEW tbc \in BOOLEAN
  PROVE  IsDeclaring(m, t, v, tbc, DeclaredIn(m, t, v, tbc))
  <1> DEFINE i == Len(m.stack[t]) + 1
             y == [m.var[v] EXCEPT !.live = TRUE, !.home = t, !.idx = i, !.tbc = tbc]
             x == [m.var EXCEPT ![v] = y]
             new == Append(m.stack[t], <<v, 0>>)
             stk == [m.stack EXCEPT ![t] = new]
             r == DeclaredIn(m, t, v, tbc)
  <1>1. m.var[v] \in VarRecs /\ m.stack[t] \in Seq(Value) /\ i \in Nat
    BY MachineFields
  <1>2. IsVarDeclared(m.var[v], t, i, tbc, y)
    <2> HIDE DEF i
    <2> QED
      BY <1>1, VarDeclared
  <1>3. r = MachineOf(stk, m.cell, m.list, x)
    <2>1. r = [m EXCEPT !.stack = stk, !.var = x]
      BY DEF DeclaredIn
    <2> HIDE DEF stk, x
    <2> QED
      BY <2>1, MachineFields DEF MachineOf
  <1> HIDE DEF y, r
  <1>4. x \in [Vars -> VarRecs] /\ x[v] = y /\ \A w \in Vars \ {v} : x[w] = m.var[w]
    BY <1>2, MachineFields DEF IsVarDeclared
  <1>5. new \in Seq(Value)
    BY <1>1 DEF Value
  <1> HIDE DEF new
  <1>6. stk \in [Threads -> Seq(Value)] /\ stk[t] = new /\ \A s \in Threads \ {t} : stk[s] = m.stack[s]
    BY <1>5, MachineFields
  <1> HIDE DEF stk, x
  <1>7. r \in Machines
    <2>1. r = [stack |-> stk, cell |-> m.cell, list |-> m.list, var |-> x]
      BY <1>3 DEF MachineOf
    <2> QED
      BY <1>4, <1>6, <2>1, MachineFields DEF Machines
  <1>8. r.stack = stk /\ r.cell = m.cell /\ r.list = m.list /\ r.var = x
    BY <1>3 DEF MachineOf
  <1>9. IsVarDeclared(m.var[v], t, i, tbc, r.var[v])
    BY <1>2, <1>4, <1>8
  <1>10. IsDeclaring(m, t, v, tbc, r)
    BY <1>4, <1>6, <1>7, <1>8, <1>9 DEF IsDeclaring, new
  <1> QED
    BY <1>10 DEF r

LEMMA DeclaredIsDeclared ==
  ASSUME NEW m, MachineInv(m), NEW t \in Threads, NEW v \in Vars, m.var[v].idx = 0
  PROVE  /\ IsDeclared(m, t, v, FALSE, DeclaredIn(m, t, v, FALSE))
         /\ IsDeclared(m, t, v, TRUE, DeclaredTbc(m, t, v))
  <1>1. m \in Machines /\ VarOK(m, v)
    BY DEF MachineInv
  <1>2. IsDeclared(m, t, v, FALSE, DeclaredIn(m, t, v, FALSE))
    <2> DEFINE r == DeclaredIn(m, t, v, FALSE)
    <2>1. IsDeclaring(m, t, v, FALSE, r)
      BY <1>1, DeclaredFields
    <2> HIDE DEF r
    <2>2. IsDeclared(m, t, v, FALSE, r)
      BY <2>1 DEF IsDeclaring, IsDeclared, IsVarDeclared
    <2> QED
      BY <2>2 DEF r
  <1> DEFINE p == DeclaredIn(m, t, v, TRUE)
             i == Len(m.stack[t]) + 1
             new == {w \in {v} : OpenAt(p, t, p.var[w].idx) = {}}
             via(w) == IF w \in new THEN w ELSE CHOOSE u \in OpenAt(p, t, p.var[w].idx) : TRUE
             x == [w \in Vars |-> IF w \in {v} THEN [p.var[w] EXCEPT !.via = via(w)] ELSE p.var[w]]
             k == [w \in Vars |-> IF w \in new THEN OpenCell(p.var[w].idx, FALSE) ELSE p.cell[w]]
             l == [p.list EXCEPT ![t] = p.list[t] \cup new]
             n == FindUpvals(p, t, {v})
             r == DeclaredTbc(m, t, v)
  <1>3. /\ p \in Machines /\ p.cell = m.cell /\ p.list = m.list
        /\ p.stack[t] = Append(m.stack[t], <<v, 0>>)
        /\ \A s \in Threads \ {t} : p.stack[s] = m.stack[s]
        /\ \A w \in Vars \ {v} : p.var[w] = m.var[w]
        /\ p.var[v].live = TRUE /\ p.var[v].home = t /\ p.var[v].idx = i
        /\ p.var[v].ver = m.var[v].ver /\ p.var[v].tbc = TRUE
        /\ p.var[v].closed = m.var[v].closed /\ p.var[v].via = m.var[v].via
    <2>1. IsDeclaring(m, t, v, TRUE, p)
      BY <1>1, DeclaredFields
    <2> HIDE DEF p
    <2> QED
      BY <2>1 DEF IsDeclaring, IsVarDeclared
  <1>3a. p.var \in [Vars -> VarRecs] /\ p.cell \in [Vars -> Cells]
    <2> HIDE DEF p
    <2> QED
      BY <1>3, MachineFields
  <1>4. i \in Nat /\ Len(m.stack[t]) \in Nat
    BY <1>1, MachineFields
  <1>5. r = [n EXCEPT !.cell[n.var[v].via].tbc = TRUE]
    BY DEF DeclaredTbc
  <1> HIDE DEF p, r
  <1>6. n = MachineOf(p.stack, k, l, x)
    <2>1. n = [p EXCEPT !.var = x, !.cell = k, !.list = l]
      BY DEF FindUpvals
    <2> HIDE DEF x, k, l, n
    <2> DEFINE q == [p EXCEPT !.var = x]
    <2>2. n = [q EXCEPT !.cell = k, !.list = l]
      BY <2>1
    <2>3. q = [stack |-> p.stack, cell |-> p.cell, list |-> p.list, var |-> x]
      BY <1>3, MachineFields
    <2> HIDE DEF q
    <2> QED
      BY <2>2, <2>3 DEF MachineOf
  <1>7. new = {v}
    <2>1. ASSUME NEW u \in OpenAt(p, t, p.var[v].idx) PROVE FALSE
      <3>1. u \in m.list[t] /\ m.cell[u].st = "open" /\ m.cell[u].idx = i
        BY <1>3, <2>1 DEF OpenAt, IsOpen
      <3>2. u \in Vars /\ Is(m, u, "open") /\ m.var[u].home = t
        BY <3>1, ListMember
      <3>3. m.cell[u].idx \in 1..Len(m.stack[t])
        BY <1>1, <3>2, SlotContent, MachineFields
      <3> QED
        BY <1>4, <3>1, <3>3
    <2> QED
      BY <2>1
  <1> HIDE DEF new
  <1>8. x = p.var
    <2>1. [p.var[v] EXCEPT !.via = v] = p.var[v]
      <3>1. m.var[v].via = v /\ p.var[v] \in VarRecs
        BY <1>1, <1>3a DEF VarOK
      <3> QED
        BY <1>3, <3>1 DEF VarRecs
    <2>2. \A w \in Vars : x[w] = p.var[w]
      BY <1>7, <2>1
    <2>3. x = [w \in Vars |-> x[w]] /\ p.var = [w \in Vars |-> p.var[w]]
      BY <1>3a
    <2> HIDE DEF x
    <2> QED
      BY <2>2, <2>3
  <1> HIDE DEF x
  <1>9. \A w \in Vars : k[w] = IF w = v THEN OpenCell(i, FALSE) ELSE m.cell[w]
    BY <1>3, <1>7
  <1>10. \A s \in Threads : l[s] = IF s = t THEN m.list[s] \cup {v} ELSE m.list[s]
    BY <1>1, <1>3, <1>7, MachineFields
  <1>11. k \in [Vars -> Cells]
    <2>1. OpenCell(i, FALSE) \in Cells
      BY <1>4 DEF OpenCell, Cells, Value
    <2>2. k = [w \in Vars |-> k[w]]
      OBVIOUS
    <2> HIDE DEF k
    <2>3. \A w \in Vars : k[w] \in Cells
      BY <1>1, <1>9, <2>1, MachineFields
    <2> QED
      BY <2>2, <2>3
  <1>12. l \in [Threads -> SUBSET Vars]
    BY <1>1, <1>3, <1>7, MachineFields
  <1> HIDE DEF k, l, n
  <1> DEFINE o == [k[v] EXCEPT !.tbc = TRUE]
             kk == [k EXCEPT ![v] = o]
  <1>13. r = MachineOf(p.stack, kk, l, p.var)
    <2>1. n.var[v].via = v /\ n.cell = k
      BY <1>1, <1>3, <1>6, <1>8 DEF MachineOf, VarOK
    <2>2. r = [n EXCEPT !.cell[v].tbc = TRUE]
      BY <1>5, <2>1
    <2>3. r = [n EXCEPT !.cell = [n.cell EXCEPT ![v] = [n.cell[v] EXCEPT !.tbc = TRUE]]]
      BY <2>2
    <2>4. r = [n EXCEPT !.cell = kk]
      BY <2>1, <2>3
    <2>5. n = [stack |-> p.stack, cell |-> k, list |-> l, var |-> p.var]
      BY <1>6, <1>8 DEF MachineOf
    <2>6. n \in Machines
      BY <1>3, <1>3a, <1>11, <1>12, <2>5, MachineFields DEF Machines
    <2> HIDE DEF kk
    <2>7. n.stack = p.stack /\ n.list = l /\ n.var = p.var
      BY <2>5
    <2> QED
      BY <2>4, <2>6, <2>7, MachineFields DEF MachineOf
  <1>14. o = OpenCell(i, TRUE) /\ o \in Cells
    <2>1. k[v] = OpenCell(i, FALSE)
      BY <1>9
    <2>2. k[v] \in Cells
      BY <1>11
    <2>3. o \in Cells /\ o.st = k[v].st /\ o.idx = k[v].idx /\ o.val = k[v].val /\ o.tbc = TRUE
      BY <2>2 DEF Cells
    <2> HIDE DEF o
    <2>4. o.st = "open" /\ o.idx = i /\ o.val = Nil
      BY <2>1, <2>3 DEF OpenCell
    <2> QED
      BY <2>3, <2>4 DEF Cells, OpenCell
  <1> HIDE DEF o
  <1>15. kk \in [Vars -> Cells] /\ kk[v] = o /\ \A w \in Vars \ {v} : kk[w] = m.cell[w]
    BY <1>9, <1>11, <1>14
  <1> HIDE DEF kk
  <1>16. r \in Machines
    <2>1. r = [stack |-> p.stack, cell |-> kk, list |-> l, var |-> p.var]
      BY <1>13 DEF MachineOf
    <2> QED
      BY <1>3, <1>3a, <1>12, <1>15, <2>1, MachineFields DEF Machines
  <1>17. r.stack = p.stack /\ r.cell = kk /\ r.list = l /\ r.var = p.var
    BY <1>13 DEF MachineOf
  <1>18. IsDeclared(m, t, v, TRUE, r)
    <2>1. r.cell[v] = OpenCell(i, TRUE) /\ \A w \in Vars \ {v} : r.cell[w] = m.cell[w]
      BY <1>14, <1>15, <1>17
    <2>2. \A s \in Threads : r.list[s] = IF TRUE /\ s = t THEN m.list[s] \cup {v} ELSE m.list[s]
      BY <1>10, <1>17
    <2>3. /\ r.stack[t] = Append(m.stack[t], <<v, 0>>)
          /\ \A s \in Threads \ {t} : r.stack[s] = m.stack[s]
          /\ \A w \in Vars \ {v} : r.var[w] = m.var[w]
          /\ r.var[v].live = TRUE /\ r.var[v].home = t /\ r.var[v].idx = i
          /\ r.var[v].ver = m.var[v].ver /\ r.var[v].tbc = TRUE
          /\ r.var[v].closed = m.var[v].closed /\ r.var[v].via = m.var[v].via
      BY <1>3, <1>17
    <2> QED
      BY <1>16, <2>1, <2>2, <2>3 DEF IsDeclared
  <1> QED
    BY <1>2, <1>18 DEF r

LEMMA DeclareInv ==
  ASSUME NEW m, MachineInv(m), NEW t \in Threads, NEW v \in Vars, m.var[v].idx = 0,
         NEW tbc \in BOOLEAN, NEW r, IsDeclared(m, t, v, tbc, r)
  PROVE  MachineInv(r)
  <1> DEFINE i == Len(m.stack[t]) + 1
  <1>1. m \in Machines /\ r \in Machines
    BY DEF MachineInv, IsDeclared
  <1>2. \A w \in Vars : VarOK(m, w) /\ ValueOK(m, w) /\ TbcOK(m, w)
    BY DEF MachineInv
  <1>3. /\ m.stack[t] \in Seq(Value) /\ Len(m.stack[t]) \in Nat
        /\ \A w \in Vars : m.var[w] \in VarRecs
    BY <1>1, MachineFields
  <1>4. /\ m.cell[v] = NoCell /\ ~m.var[v].live /\ ~m.var[v].tbc /\ m.var[v].ver = 0
        /\ m.var[v].via = v /\ m.var[v].closed = 0
    BY <1>2 DEF VarOK, TbcOK
  <1>5. /\ \A j \in 1..Len(m.stack[t]) : r.stack[t][j] = m.stack[t][j]
        /\ r.stack[t][i] = <<v, 0>> /\ Len(r.stack[t]) = i
    BY <1>3 DEF IsDeclared
  <1>6. ASSUME NEW w \in Vars, w # v PROVE VarOK(r, w) /\ ValueOK(r, w) /\ TbcOK(r, w)
    <2>1. VarOK(m, w) /\ ValueOK(m, w) /\ TbcOK(m, w)
      BY <1>2
    <2>2. r.var[w] = m.var[w] /\ r.cell[w] = m.cell[w]
      BY <1>6 DEF IsDeclared
    <2>3. m.var[w].home \in Threads /\ m.var[w].idx \in Nat
      BY <1>3 DEF VarRecs
    <2>4. m.var[w].live =>
            /\ m.var[w].idx \in 1..Len(m.stack[m.var[w].home])
            /\ m.var[w].idx \in 1..Len(r.stack[m.var[w].home])
            /\ r.stack[m.var[w].home][m.var[w].idx] = m.stack[m.var[w].home][m.var[w].idx]
      <3>1. m.var[w].live => m.var[w].idx \in 1..Len(m.stack[m.var[w].home])
        BY <2>1 DEF VarOK
      <3>2. CASE m.var[w].home = t
        <4>1. m.var[w].live => /\ m.var[w].idx \in 1..Len(m.stack[t])
                               /\ m.var[w].idx \in 1..Len(r.stack[t])
          BY <1>3, <1>5, <3>1, <3>2
        <4> QED
          BY <1>5, <3>2, <4>1
      <3>3. CASE m.var[w].home # t
        BY <2>3, <3>1, <3>3 DEF IsDeclared
      <3> QED
        BY <3>2, <3>3
    <2>5. m.var[w].live /\ m.var[w].home = t => m.var[w].idx # i
      BY <1>3, <2>4
    <2>6. \A u \in Vars \ {v} : r.var[u] = m.var[u]
      BY DEF IsDeclared
    <2>7. r.var[v].home = t /\ r.var[v].idx = i
      BY DEF IsDeclared
    <2>8. r.var[w].live => \A u \in Vars : (/\ r.var[u].live /\ r.var[u].home = r.var[w].home
                                            /\ r.var[u].idx = r.var[w].idx) => u = w
      BY <2>1, <2>2, <2>5, <2>6, <2>7 DEF VarOK
    <2>9. VarOK(r, w)
      BY <2>1, <2>2, <2>4, <2>8, SMTT(30) DEF VarOK, Is
    <2>10. ValueOK(r, w) /\ TbcOK(r, w)
      BY <2>1, <2>2, <2>4 DEF ValueOK, TbcOK, Is, Content
    <2> QED
      BY <2>9, <2>10
  <1>7. VarOK(r, v) /\ ValueOK(r, v) /\ TbcOK(r, v)
    <2>1. /\ r.var[v].live = TRUE /\ r.var[v].home = t /\ r.var[v].idx = i
          /\ r.var[v].ver = 0 /\ r.var[v].tbc = tbc /\ r.var[v].closed = 0 /\ r.var[v].via = v
          /\ r.cell[v] = IF tbc THEN OpenCell(i, TRUE) ELSE NoCell
      BY <1>4 DEF IsDeclared
    <2>2. /\ Is(r, v, "open") <=> tbc
          /\ Is(r, v, "none") <=> ~tbc
      <3>1. CASE tbc
        BY <2>1, <3>1 DEF Is, OpenCell
      <3>2. CASE ~tbc
        BY <2>1, <3>2 DEF Is, NoCell
      <3> QED
        BY <3>1, <3>2
    <2>3. \A u \in Vars : (/\ r.var[u].live /\ r.var[u].home = t /\ r.var[u].idx = i) => u = v
      <3>1. ASSUME NEW u \in Vars \ {v}, m.var[u].live, m.var[u].home = t PROVE m.var[u].idx # i
        BY <1>2, <1>3, <3>1 DEF VarOK
      <3>2. \A u \in Vars \ {v} : r.var[u] = m.var[u]
        BY DEF IsDeclared
      <3> QED
        BY <3>1, <3>2
    <2>4. i \in 1..Len(r.stack[t]) /\ i # 0
      BY <1>3, <1>5
    <2>5. tbc => r.cell[v] = OpenCell(r.var[v].idx, r.var[v].tbc)
      BY <2>1
    <2> HIDE DEF i
    <2>6. VarOK(r, v)
      BY <2>1, <2>2, <2>3, <2>4, <2>5 DEF VarOK
    <2>7. ValueOK(r, v)
      BY <1>5, <2>1, <2>2 DEF ValueOK, Content, Is
    <2>8. TbcOK(r, v)
      BY <2>1, <2>2 DEF TbcOK
    <2> QED
      BY <2>6, <2>7, <2>8
  <1>8. ASSUME NEW s \in Threads PROVE ListOK(r, s)
    <2>1. ListOK(m, s)
      BY DEF MachineInv
    <2>2. \A w \in Vars \ {v} : r.var[w] = m.var[w] /\ r.cell[w] = m.cell[w]
      BY DEF IsDeclared
    <2>3. /\ r.list[s] = IF tbc /\ s = t THEN m.list[s] \cup {v} ELSE m.list[s]
          /\ r.var[v].home = t
      BY DEF IsDeclared
    <2>4. (Is(r, v, "open") <=> tbc) /\ ~Is(m, v, "open")
      <3>1. CASE tbc
        BY <1>4, <3>1 DEF Is, OpenCell, NoCell, IsDeclared
      <3>2. CASE ~tbc
        BY <1>4, <3>2 DEF Is, NoCell, IsDeclared
      <3> QED
        BY <3>1, <3>2
    <2> QED
      BY <2>1, <2>2, <2>3, <2>4 DEF ListOK, Is
  <1> QED
    BY <1>1, <1>6, <1>7, <1>8 DEF MachineInv
=============================================================================
