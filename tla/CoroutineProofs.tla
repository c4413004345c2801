-------------------------- MODULE CoroutineProofs --------------------------
(* A switch of stacks is invisible, for any number of threads and variables  *)
(* and any depth of stacks and calls: what the run co checks.                *)
(*                                                                           *)
(* Every theorem assumes Habits = {}: programs that do one of the things     *)
(* Coroutine lists as habits are outside, and the code fails for most.  In   *)
(* particular nothing is said of a coroutine that is closed inside a Lua     *)
(* __close handler while the frame the handler was called for has variables  *)
(* left: close_suspended_coroutine starts at the handler's base              *)
(* (coroutine_lib.rs:1121) and does not close them (close_in_handler).       *)
EXTENDS UpvalueProofs

-----------------------------------------------------------------------------
(* The frames of a thread.                                                   *)

Frames == [base : Nat \ {0}, guard : {"none", "armed", "yielded"}]

(* The bases of the frames rise, within a stack of n slots.                  *)
FramesOK(f, n) ==
    /\ f \in Seq(Frames)
    /\ f # <<>> => f[1].base = 1
    /\ \A i \in 1..Len(f) : f[i].base <= n + 1
    /\ \A i, j \in 1..Len(f) : i <= j => f[i].base <= f[j].base

(* Handler, ErrorBase, ErrorLevel and Level of a thread with frames f.       *)
Guarded(f) == {i \in DOMAIN f : f[i].guard # "none"}
HandlerIn(f) == IF Guarded(f) = {} THEN 0 ELSE Max(Guarded(f))
BaseIn(f) == IF HandlerIn(f) = 0 THEN 1 ELSE f[HandlerIn(f)].base
ErrorLevelIn(f) ==
    IF HandlerIn(f) # 0 /\ f[HandlerIn(f)].guard = "yielded" THEN f[HandlerIn(f)].base
    ELSE Last(f).base
LevelIn(f, l) == IF l = "error" THEN ErrorLevelIn(f) ELSE Last(f).base
LeaveBaseIn(f, l) == IF l = "error" THEN BaseIn(f) ELSE Last(f).base

LEMMA FramesMember ==
  ASSUME NEW f \in Seq(Frames), NEW i \in 1..Len(f)
  PROVE  /\ f[i] \in Frames /\ f[i].base \in Nat \ {0}
         /\ f[i].guard \in {"none", "armed", "yielded"}
  <1>1. f[i] \in Frames
    OBVIOUS
  <1> QED
    BY <1>1 DEF Frames

LEMMA HandlerFacts ==
  ASSUME NEW n \in Nat, NEW f, FramesOK(f, n)
  PROVE  /\ HandlerIn(f) \in 0..Len(f) /\ Len(f) \in Nat /\ DOMAIN f = 1..Len(f)
         /\ HandlerIn(f) # 0 => f[HandlerIn(f)].guard # "none"
         /\ \A i \in 1..Len(f) : f[i].guard # "none" => i <= HandlerIn(f)
  <1>1. f \in Seq(Frames) /\ Len(f) \in Nat /\ DOMAIN f = 1..Len(f)
    BY DEF FramesOK
  <1>2. Guarded(f) \in SUBSET (0..Len(f)) /\ \A i \in Guarded(f) : i # 0
    BY <1>1 DEF Guarded
  <1>3. CASE Guarded(f) = {}
    BY <1>1, <1>3 DEF HandlerIn, Guarded
  <1>4. CASE Guarded(f) # {}
    <2>1. \E x \in Guarded(f) : \A y \in Guarded(f) : x >= y
      BY <1>1, <1>2, <1>4, HighestNumber
    <2>2. Max(Guarded(f)) \in Guarded(f) /\ \A y \in Guarded(f) : Max(Guarded(f)) >= y
      BY <2>1 DEF Max
    <2>3. HandlerIn(f) = Max(Guarded(f))
      BY <1>4 DEF HandlerIn
    <2>4. HandlerIn(f) \in Guarded(f) /\ \A y \in Guarded(f) : HandlerIn(f) >= y
      BY <2>2, <2>3
    <2>5. \A i \in 1..Len(f) : f[i].guard # "none" => i \in Guarded(f)
      BY <1>1 DEF Guarded
    <2>6. HandlerIn(f) \in 1..Len(f) /\ f[HandlerIn(f)].guard # "none"
      BY <1>1, <2>4 DEF Guarded
    <2> QED
      BY <1>1, <2>4, <2>5, <2>6
  <1> QED
    BY <1>3, <1>4

LEMMA LevelFacts ==
  ASSUME NEW n \in Nat, NEW f, FramesOK(f, n), f # <<>>, NEW l
  PROVE  /\ BaseIn(f) \in Nat \ {0} /\ LevelIn(f, l) \in Nat \ {0}
         /\ Last(f).base \in Nat \ {0} /\ LeaveBaseIn(f, l) \in Nat \ {0}
         /\ BaseIn(f) <= LevelIn(f, l) /\ LevelIn(f, l) <= Last(f).base
         /\ BaseIn(f) <= ErrorLevelIn(f) /\ ErrorLevelIn(f) <= Last(f).base
         /\ ErrorLevelIn(f) \in Nat \ {0}
         /\ Last(f).base <= n + 1 /\ LeaveBaseIn(f, l) <= LevelIn(f, l)
  <1> DEFINE h == HandlerIn(f)
             k == Len(f)
  <1>1. /\ h \in 0..k /\ k \in Nat /\ DOMAIN f = 1..k
    BY HandlerFacts
  <1>2. f \in Seq(Frames) /\ k >= 1 /\ Last(f) = f[k]
    BY <1>1 DEF FramesOK, Last
  <1>3. \A i \in 1..k : f[i].base \in Nat \ {0} /\ f[i].base <= n + 1
    BY <1>2, FramesMember DEF FramesOK
  <1>4. h # 0 => f[h].base \in Nat \ {0} /\ f[h].base <= f[k].base
    <2>1. h # 0 => h \in 1..k /\ k \in 1..k
      BY <1>1
    <2> QED
      BY <1>1, <1>2, <1>3, <2>1 DEF FramesOK
  <1>5. f[k].base \in Nat \ {0} /\ f[k].base <= n + 1
    BY <1>1, <1>2, <1>3
  <1>6. BaseIn(f) = IF h = 0 THEN 1 ELSE f[h].base
    BY DEF BaseIn
  <1>7. ErrorLevelIn(f) = f[k].base \/ (h # 0 /\ ErrorLevelIn(f) = f[h].base)
    BY <1>2 DEF ErrorLevelIn
  <1> HIDE DEF h, k
  <1>8. /\ BaseIn(f) \in Nat \ {0} /\ ErrorLevelIn(f) \in Nat \ {0}
        /\ BaseIn(f) <= ErrorLevelIn(f) /\ ErrorLevelIn(f) <= f[k].base
        /\ BaseIn(f) <= f[k].base
    BY <1>4, <1>5, <1>6, <1>7
  <1> QED
    BY <1>2, <1>5, <1>8 DEF LevelIn, LeaveBaseIn

(* A yield lets an error be closed from further down only.                   *)
LEMMA PassedLevels ==
  ASSUME NEW n \in Nat, NEW f, FramesOK(f, n), f # <<>>, NEW l,
         NEW g, g = [i \in DOMAIN f |-> PassedBy(f[i])]
  PROVE  /\ FramesOK(g, n) /\ g # <<>> /\ Len(g) = Len(f) /\ HandlerIn(g) = HandlerIn(f)
         /\ BaseIn(g) = BaseIn(f) /\ LevelIn(g, l) <= LevelIn(f, l)
         /\ LeaveBaseIn(g, l) = LeaveBaseIn(f, l) /\ g[1].guard = PassedBy(f[1]).guard
  <1> DEFINE h == HandlerIn(f)
             k == Len(f)
  <1>1. /\ h \in 0..k /\ k \in Nat /\ DOMAIN f = 1..k
        /\ h # 0 => f[h].guard # "none"
    BY HandlerFacts
  <1>2. f \in Seq(Frames) /\ k >= 1 /\ Last(f) = f[k]
    BY <1>1 DEF FramesOK, Last
  <1>3. \A i \in 1..k : f[i] \in Frames
    BY <1>2
  <1>4. \A i \in 1..k : /\ g[i] \in Frames /\ g[i].base = f[i].base
                        /\ g[i].guard = IF f[i].guard = "armed" THEN "yielded" ELSE f[i].guard
                        /\ g[i].guard # "none" <=> f[i].guard # "none"
    <2>1. ASSUME NEW x \in Frames
          PROVE  LET y == PassedBy(x) IN
                 /\ y \in Frames /\ y.base = x.base
                 /\ y.guard = IF x.guard = "armed" THEN "yielded" ELSE x.guard
                 /\ y.guard # "none" <=> x.guard # "none"
      BY DEF PassedBy, Frames
    <2> QED
      BY <1>1, <1>3, <2>1
  <1>5. /\ g \in Seq(Frames) /\ Len(g) = k /\ DOMAIN g = 1..k
    <2>1. g \in [1..k -> Frames]
      BY <1>1, <1>4
    <2> QED
      BY <1>1, <2>1, SeqDef
  <1>6. Last(g) = g[k] /\ g # <<>>
    BY <1>1, <1>2, <1>5 DEF Last
  <1>7. FramesOK(g, n)
    BY <1>1, <1>2, <1>4, <1>5 DEF FramesOK
  <1>8. Guarded(g) = Guarded(f)
    BY <1>1, <1>4, <1>5 DEF Guarded
  <1>9. HandlerIn(g) = h
    BY <1>8 DEF HandlerIn
  <1>10. h # 0 => /\ g[h].base = f[h].base /\ f[h].base <= f[k].base
                  /\ f[h].base \in Nat /\ g[h].guard = "yielded"
    <2>1. h # 0 => h \in 1..k
      BY <1>1
    <2>2. h # 0 => f[h].guard \in {"armed", "yielded"}
      BY <1>1, <1>3, <2>1 DEF Frames
    <2> QED
      BY <1>1, <1>2, <1>3, <1>4, <2>1, <2>2 DEF FramesOK, Frames
  <1>11. g[k].base = f[k].base /\ f[k].base \in Nat
    BY <1>1, <1>2, <1>3, <1>4 DEF Frames
  <1>12. BaseIn(g) = BaseIn(f)
    BY <1>9, <1>10 DEF BaseIn
  <1>13. g[1].guard = PassedBy(f[1]).guard
    BY <1>1, <1>2
  <1> HIDE DEF h, k
  <1>14. ErrorLevelIn(g) <= ErrorLevelIn(f)
    <2>1. ErrorLevelIn(g) = IF h # 0 THEN f[h].base ELSE f[k].base
      BY <1>6, <1>9, <1>10, <1>11 DEF ErrorLevelIn
    <2>2. ErrorLevelIn(f) = f[k].base \/ (h # 0 /\ ErrorLevelIn(f) = f[h].base)
      BY <1>2 DEF ErrorLevelIn, h
    <2> QED
      BY <1>10, <1>11, <2>1, <2>2
  <1>15. LevelIn(g, l) <= LevelIn(f, l)
    BY <1>2, <1>6, <1>11, <1>14 DEF LevelIn
  <1>16. LeaveBaseIn(g, l) = LeaveBaseIn(f, l)
    BY <1>2, <1>6, <1>11, <1>12 DEF LeaveBaseIn
  <1> QED
    BY <1>5, <1>6, <1>7, <1>9, <1>12, <1>13, <1>15, <1>16 DEF h, k

(* A call, a return and an error caught.                                     *)
LEMMA FramesCalled ==
  ASSUME NEW n \in Nat, NEW f, FramesOK(f, n), NEW guard \in {"none", "armed"},
         NEW g, g = Append(f, [base |-> n + 1, guard |-> guard]), f # <<>>
  PROVE  FramesOK(g, n) /\ g # <<>> /\ g[1] = f[1]
  <1>1. f \in Seq(Frames) /\ Len(f) \in Nat /\ [base |-> n + 1, guard |-> guard] \in Frames
    BY DEF FramesOK, Frames
  <1>2. g \in Seq(Frames) /\ Len(g) = Len(f) + 1 /\ g[Len(f) + 1].base = n + 1
    BY <1>1
  <1>3. \A i \in 1..Len(f) : g[i] = f[i] /\ g[i].base <= n + 1 /\ g[i].base \in Nat
    BY <1>1, FramesMember DEF FramesOK
  <1>4. Len(f) >= 1
    BY <1>1
  <1> QED
    BY <1>1, <1>2, <1>3, <1>4 DEF FramesOK

LEMMA FramesCut ==
  ASSUME NEW n \in Nat, NEW f, FramesOK(f, n), f # <<>>, NEW k \in 0..(Len(f) - 1),
         NEW g, g = SubSeq(f, 1, k)
  PROVE  /\ FramesOK(g, f[k + 1].base - 1) /\ Len(g) = k /\ f[k + 1].base \in Nat \ {0}
         /\ g # <<>> => g[1] = f[1]
  <1>1. f \in Seq(Frames) /\ Len(f) \in Nat /\ k \in Nat
    BY DEF FramesOK
  <1>2. g \in Seq(Frames) /\ Len(g) = k /\ \A i \in 1..k : g[i] = f[i]
    BY <1>1
  <1>3. k + 1 \in 1..Len(f)
    BY <1>1
  <1>4. \A i \in 1..Len(f) : f[i].base \in Nat \ {0}
    BY <1>1, FramesMember
  <1>5. \A i \in 1..k : i \in 1..Len(f) /\ f[i].base <= f[k + 1].base
    BY <1>1, <1>3 DEF FramesOK
  <1>6. (f[k + 1].base - 1) + 1 = f[k + 1].base
    BY <1>3, <1>4
  <1>7. g # <<>> => k >= 1
    BY <1>1, <1>2
  <1>8. f[1].base = 1 /\ \A i, j \in 1..Len(f) : i <= j => f[i].base <= f[j].base
    BY DEF FramesOK
  <1>9. \A i, j \in 1..k : i <= j => g[i].base <= g[j].base
    BY <1>2, <1>5, <1>8
  <1>10. g # <<>> => g[1] = f[1]
    BY <1>1, <1>2, <1>7
  <1>11. \A i \in 1..k : g[i].base <= (f[k + 1].base - 1) + 1
    BY <1>2, <1>5, <1>6
  <1> QED
    BY <1>2, <1>3, <1>4, <1>8, <1>9, <1>10, <1>11 DEF FramesOK
-----------------------------------------------------------------------------
(* The tree of creation: thread t, its creator, the creator's creator, ...   *)

Rising(par, S) == \A d \in S \cap DOMAIN par : par[d] \in S
AboveIn(par, c) == {t \in Threads : \A S \in SUBSET Threads :
                                      c \in S /\ Rising(par, S) => t \in S}

LEMMA AboveSelf ==
  ASSUME NEW par, NEW c \in Threads
  PROVE  c \in AboveIn(par, c) /\ AboveIn(par, c) \subseteq Threads
  BY DEF AboveIn

LEMMA AboveRoot ==
  ASSUME NEW par, NEW c \in Threads, c \notin DOMAIN par
  PROVE  AboveIn(par, c) = {c}
  <1>1. {c} \in SUBSET Threads /\ Rising(par, {c})
    BY DEF Rising
  <1> QED
    BY <1>1 DEF AboveIn

LEMMA AboveStep ==
  ASSUME NEW par, NEW c \in Threads, c \in DOMAIN par,
         \A d \in DOMAIN par : par[d] \in Threads
  PROVE  AboveIn(par, c) = {c} \cup AboveIn(par, par[c])
  <1> DEFINE A == AboveIn(par, par[c])
             B == {c} \cup A
  <1>1. A \subseteq Threads /\ par[c] \in A
    BY AboveSelf
  <1>2. Rising(par, A)
    <2> SUFFICES ASSUME NEW d \in A \cap DOMAIN par PROVE par[d] \in A
      BY DEF Rising
    <2>1. ASSUME NEW S \in SUBSET Threads, par[c] \in S, Rising(par, S)
          PROVE  par[d] \in S
      BY <2>1 DEF AboveIn, Rising
    <2> QED
      BY <2>1 DEF AboveIn
  <1>3. B \in SUBSET Threads /\ Rising(par, B) /\ c \in B
    BY <1>1, <1>2 DEF Rising
  <1>4. AboveIn(par, c) \subseteq B
    BY <1>3 DEF AboveIn
  <1>5. A \subseteq AboveIn(par, c)
    <2> SUFFICES ASSUME NEW t \in A, NEW S \in SUBSET Threads, c \in S, Rising(par, S)
                 PROVE  t \in S
      BY <1>1 DEF AboveIn
    <2>1. par[c] \in S
      BY DEF Rising
    <2> QED
      BY <2>1 DEF AboveIn
  <1> QED
    BY <1>4, <1>5, AboveSelf

(* A new leaf changes nothing above the others.                              *)
LeafAdded(par, c, new) ==
    /\ c \notin DOMAIN par /\ DOMAIN new = DOMAIN par \cup {c}
    /\ \A d \in DOMAIN par : par[d] # c /\ new[d] = par[d]

LEMMA AboveExtend ==
  ASSUME NEW par, NEW c \in Threads, NEW new, LeafAdded(par, c, new),
         NEW t \in Threads, t # c
  PROVE  AboveIn(new, t) = AboveIn(par, t)
  <1> USE DEF LeafAdded
  <1>1. ASSUME NEW x \in AboveIn(par, t) PROVE x \in AboveIn(new, t)
    <2>1. ASSUME NEW S \in SUBSET Threads, Rising(new, S) PROVE Rising(par, S)
      BY <2>1 DEF Rising
    <2> QED
      BY <2>1 DEF AboveIn
  <1>2. ASSUME NEW x \in AboveIn(new, t) PROVE x \in AboveIn(par, t)
    <2> SUFFICES ASSUME NEW S \in SUBSET Threads, t \in S, Rising(par, S) PROVE x \in S
      BY DEF AboveIn
    <2>1. S \ {c} \in SUBSET Threads /\ t \in S \ {c} /\ Rising(new, S \ {c})
      BY DEF Rising
    <2> QED
      BY <2>1 DEF AboveIn
  <1> QED
    BY <1>1, <1>2
-----------------------------------------------------------------------------
(* The invariant: threads.                                                   *)

Indices == UNION {[S -> Nat] : S \in SUBSET Vars}
Saved == UNION {[S -> [idx : Nat, val : Value]] : S \in SUBSET Vars}
Contexts == [st : {"none", "suspended", "normal", "ok", "error"}, started : BOOLEAN,
             wrap : BOOLEAN, creator : Threads, body : SUBSET Vars,
             origins : Indices, pending : Saved, inside : Indices,
             handler : {"no", "running", "raised"}]

ContextTypes ==
    /\ chain \in Seq(Threads)
    /\ co \in [Coroutines -> Contexts]
    /\ frames \in [Threads -> Seq(Frames)]
    /\ leaving \in [Threads -> {"no", "return", "error"}]
    /\ reach \in [Threads -> SUBSET Vars]

Alive(t) == t = Main \/ (t \in Coroutines /\ co[t].st \in {"suspended", "normal"})
Started(t) == t \in Coroutines /\ Alive(t) /\ co[t].started
Suspended(t) == t \in Coroutines /\ co[t].st = "suspended"
Parents == [c \in {d \in Coroutines : co[d].st # "none"} |-> co[c].creator]
Above(t) == AboveIn(Parents, t)

Upto(s, i) == {s[j] : j \in 1..i}

(* The threads that wait made each other, in the order of the chain.         *)
ChainInv ==
    /\ Len(chain) >= 1 /\ chain[1] = Main
    /\ \A i \in 2..Len(chain) : /\ chain[i] \in Coroutines
                                /\ co[chain[i]].st = "normal"
                                /\ co[chain[i]].creator = chain[i - 1]
    /\ \A i, j \in 1..Len(chain) : chain[i] = chain[j] => i = j
    /\ \A c \in Coroutines : co[c].st = "normal" => \E i \in 2..Len(chain) : chain[i] = c
    /\ \A i \in 1..Len(chain) : Above(chain[i]) = Upto(chain, i)

TreeInv ==
    \A c \in Coroutines :
        /\ co[c].st = "normal" => co[c].started
        /\ co[c].st # "none" /\ co[c].creator \in Coroutines =>
             /\ co[co[c].creator].st # "none"
             /\ Alive(co[c].creator) => co[co[c].creator].started

FrameInv ==
    /\ \A t \in Threads : /\ FramesOK(frames[t], Len(stack[t]))
                          /\ leaving[t] # "no" => frames[t] # <<>>
    /\ frames[Main] # <<>> => frames[Main][1].guard = "armed"
    /\ \A i \in 1..Len(frames[Main]) : frames[Main][i].guard # "yielded"
    /\ \A c \in Coroutines : frames[c] # <<>> => frames[c][1].guard = "none"
    /\ \A c \in Coroutines : Started(c) <=> frames[c] # <<>>
    /\ \A i \in 1..(Len(chain) - 1) : leaving[chain[i]] = "no" /\ frames[chain[i]] # <<>>

HomeInv == \A v \in Vars : var[v].live => Alive(var[v].home)

(* The cell of a live variable is closed in a frame that ends, or while the  *)
(* thread that shares it runs, or while its own thread does not.             *)
Going(v) == LET t == var[v].home IN
            leaving[t] # "no" /\ var[v].idx >= LevelIn(frames[t], leaving[t])
Shared(v) == \E c \in Coroutines : /\ co[c].st = "normal" /\ co[c].creator = var[v].home
                                   /\ v \in DOMAIN co[c].origins
Parked(v) == Suspended(var[v].home) /\ v \in DOMAIN co[var[v].home].inside
AwayInv == \A v \in Vars : var[v].live /\ cell[v].st = "closed" =>
               Going(v) \/ Shared(v) \/ Parked(v)

(* What a context remembers about cells of its creator, and of its own.      *)
Linked(u, t, i) ==
    u \in Vars /\ var[u].live /\ ~var[u].tbc /\ var[u].home = t /\ i = var[u].idx
LinksOK(c) ==
    LET x == co[c] IN
    /\ Alive(x.creator) =>
         /\ \A u \in DOMAIN x.origins :
              Linked(u, x.creator, x.origins[u]) /\ cell[u].st # "none"
         /\ \A u \in DOMAIN x.pending :
              Linked(u, x.creator, x.pending[u].idx) /\ cell[u].st # "none"
    /\ x.st = "normal" => \A u \in DOMAIN x.origins : cell[u].st = "closed"
    /\ x.st = "normal" => DOMAIN x.inside = {}
    /\ x.started => x.body = {} /\ DOMAIN x.pending = {}
    /\ ~x.started => DOMAIN x.origins = {} /\ DOMAIN x.inside = {}
    /\ ~x.wrap => DOMAIN x.pending = {}
    /\ \A u \in DOMAIN x.inside : Linked(u, c, x.inside[u]) /\ cell[u].st = "closed"
LinkInv == \A c \in Coroutines : Alive(c) => LinksOK(c)

(* A thread that does not run has no open upvalue but those to be closed.    *)
ParkInv == \A v \in Vars : cell[v].st = "open" /\ Suspended(var[v].home) => var[v].tbc

(* A frame that ends shares no cell with a coroutine that may still run, and *)
(* an error leaves no upvalue open.                                          *)
Apart(t) ==
    \A c \in Coroutines : Alive(c) /\ co[c].creator = t =>
        \A u \in DOMAIN co[c].origins \cup DOMAIN co[c].pending :
            var[u].idx < LeaveBaseIn(frames[t], leaving[t])
Clean(t) ==
    \A v \in Vars : (/\ var[v].home = t /\ (cell[v].st = "open" \/ Parked(v))
                     /\ var[v].idx >= BaseIn(frames[t]))
                    => var[v].idx >= ErrorLevelIn(frames[t])
LeaveInv ==
    \A t \in Threads : leaving[t] # "no" => Apart(t) /\ (leaving[t] = "error" => Clean(t))

(* What closures capture, and those in the body of a coroutine to start.  A  *)
(* thread below d reaches variables of the thread that made d through cells  *)
(* d shares alone.                                                           *)
Captured(S) == \A v \in S : cell[v].st # "none" /\ ~var[v].tbc
Given(c) ==
    \A v \in co[c].body :
        /\ v \in reach[co[c].creator] \/ var[v].home = co[c].creator
        /\ co[c].wrap /\ var[v].home = co[c].creator /\ var[v].live =>
             v \in DOMAIN co[c].pending
Below(d, t) ==
    \A v \in reach[t] : var[v].live /\ var[v].home = co[d].creator =>
                          v \in DOMAIN co[d].origins
ReachInv ==
    /\ \A t \in Threads : Captured(reach[t])
    /\ \A c \in Coroutines :
         /\ Captured(co[c].body)
         /\ Alive(c) /\ ~co[c].started /\ Alive(co[c].creator) => Given(c)
         /\ ~Started(c) => reach[c] = {}
         /\ Started(c) => \A t \in Threads : c \in Above(t) => Below(c, t)

ContextInv ==
    /\ ContextTypes /\ ChainInv /\ TreeInv /\ FrameInv /\ HomeInv
    /\ AwayInv /\ LinkInv /\ ParkInv /\ LeaveInv /\ ReachInv

CoroutineInv == MachineInv(Machine) /\ ContextInv
-----------------------------------------------------------------------------
(* What the invariant says of the thread that runs.                          *)

LEMMA MachineFacts ==
  ASSUME NEW m, MachineInv(m)
  PROVE  /\ \A v \in Vars :
              /\ m.var[v].home \in Threads /\ m.var[v].idx \in Nat
              /\ m.var[v].live \in BOOLEAN /\ m.var[v].tbc \in BOOLEAN
              /\ m.cell[v].st \in {"none", "open", "closed"}
              /\ m.cell[v].st = "open" => m.var[v].live
              /\ m.var[v].tbc => m.cell[v].st # "none"
              /\ m.var[v].via = v
              /\ m.var[v].idx = 0 => m.cell[v].st = "none" /\ ~m.var[v].live
              /\ m.var[v].live => m.var[v].idx \in 1..Len(m.stack[m.var[v].home])
         /\ \A t \in Threads : Len(m.stack[t]) \in Nat
  <1>1. m \in Machines
    BY DEF MachineInv
  <1>2. ASSUME NEW v \in Vars
        PROVE  /\ m.var[v].home \in Threads /\ m.var[v].idx \in Nat
               /\ m.var[v].live \in BOOLEAN /\ m.var[v].tbc \in BOOLEAN
               /\ m.cell[v].st \in {"none", "open", "closed"}
    BY <1>1, MachineFields DEF VarRecs, Cells
  <1>3. ASSUME NEW v \in Vars
        PROVE  /\ m.cell[v].st = "open" => m.var[v].live
               /\ m.var[v].tbc => m.cell[v].st # "none"
               /\ m.var[v].via = v
               /\ m.var[v].idx = 0 => m.cell[v].st = "none" /\ ~m.var[v].live
               /\ m.var[v].live => m.var[v].idx \in 1..Len(m.stack[m.var[v].home])
    <2>1. VarOK(m, v) /\ TbcOK(m, v)
      BY DEF MachineInv
    <2> QED
      BY <2>1 DEF VarOK, TbcOK, Is, NoCell
  <1>4. \A t \in Threads : Len(m.stack[t]) \in Nat
    BY <1>1, MachineFields
  <1> QED
    BY <1>2, <1>3, <1>4

LEMMA ContextFields ==
  ASSUME NEW x \in Contexts
  PROVE  /\ x.st \in {"none", "suspended", "normal", "ok", "error"}
         /\ x.started \in BOOLEAN /\ x.wrap \in BOOLEAN /\ x.creator \in Threads
         /\ x.body \in SUBSET Vars /\ x.origins \in Indices /\ x.pending \in Saved
         /\ x.inside \in Indices /\ x.handler \in {"no", "running", "raised"}
         /\ DOMAIN x.origins \subseteq Vars /\ DOMAIN x.pending \subseteq Vars
         /\ DOMAIN x.inside \subseteq Vars
  <1>1. /\ x.st \in {"none", "suspended", "normal", "ok", "error"}
        /\ x.started \in BOOLEAN /\ x.wrap \in BOOLEAN /\ x.creator \in Threads
        /\ x.body \in SUBSET Vars /\ x.origins \in Indices /\ x.pending \in Saved
        /\ x.inside \in Indices /\ x.handler \in {"no", "running", "raised"}
    BY DEF Contexts
  <1>2. \A f \in Indices : DOMAIN f \subseteq Vars
    BY DEF Indices
  <1>3. \A f \in Saved : DOMAIN f \subseteq Vars
    BY DEF Saved
  <1> QED
    BY <1>1, <1>2, <1>3

LEMMA RunFacts ==
  ASSUME ContextInv
  PROVE  /\ Len(chain) \in Nat \ {0} /\ Running = chain[Len(chain)]
         /\ Running \in Threads /\ Alive(Running) /\ ~Suspended(Running)
         /\ \A c \in Coroutines : co[c].st = "normal" => co[c].creator # Running
         /\ Running \in Coroutines =>
              /\ Len(chain) >= 2 /\ co[Running].st = "normal" /\ co[Running].started
              /\ Resumer = chain[Len(chain) - 1] /\ Resumer = co[Running].creator
              /\ Resumer \in Threads /\ Resumer # Running
              /\ Alive(Resumer) /\ ~Suspended(Resumer)
              /\ leaving[Resumer] = "no" /\ frames[Resumer] # <<>>
              /\ Resumer \in Coroutines => co[Resumer].st = "normal"
         /\ Running \notin Coroutines => Running = Main /\ Len(chain) = 1
  <1> DEFINE n == Len(chain)
  <1>1. /\ chain \in Seq(Threads) /\ n \in Nat \ {0} /\ chain[1] = Main
        /\ \A i \in 1..n : chain[i] \in Threads
    BY DEF ContextInv, ContextTypes, ChainInv
  <1>2. Running = chain[n]
    BY <1>1 DEF Running, Last
  <1>3. \A i \in 2..n : /\ chain[i] \in Coroutines /\ co[chain[i]].st = "normal"
                        /\ co[chain[i]].creator = chain[i - 1]
    BY DEF ContextInv, ChainInv
  <1>4. \A i, j \in 1..n : chain[i] = chain[j] => i = j
    BY DEF ContextInv, ChainInv
  <1>5. \A i \in 1..n : Alive(chain[i]) /\ ~Suspended(chain[i])
    <2> SUFFICES ASSUME NEW i \in 1..n PROVE Alive(chain[i]) /\ ~Suspended(chain[i])
      OBVIOUS
    <2>1. CASE i = 1
      BY <1>1, <2>1, CoroutineConstants DEF Alive, Suspended
    <2>2. CASE i # 1
      BY <1>1, <1>3, <2>2 DEF Alive, Suspended
    <2> QED
      BY <2>1, <2>2
  <1>6. ASSUME NEW c \in Coroutines, co[c].st = "normal" PROVE co[c].creator # Running
    <2>1. PICK i \in 2..n : chain[i] = c
      BY <1>6 DEF ContextInv, ChainInv
    <2>2. co[c].creator = chain[i - 1] /\ i - 1 \in 1..n /\ n \in 1..n /\ i - 1 # n
      BY <1>1, <1>3, <2>1
    <2> QED
      BY <1>2, <1>4, <2>2
  <1>7. CASE n = 1
    <2>1. Running = Main
      BY <1>1, <1>2, <1>7
    <2> QED
      BY <1>1, <1>2, <1>5, <1>6, <1>7, <2>1, CoroutineConstants DEF Threads
  <1>8. CASE n >= 2
    <2>1. n \in 2..n /\ n - 1 \in 1..n /\ n - 1 \in 1..(n - 1)
      BY <1>1, <1>8
    <2>2. /\ Running \in Coroutines /\ co[Running].st = "normal"
          /\ co[Running].creator = chain[n - 1] /\ Resumer = chain[n - 1]
      BY <1>2, <1>3, <2>1 DEF Resumer
    <2>3. Resumer # Running
      BY <1>1, <1>2, <1>4, <2>1, <2>2
    <2>4. Alive(Resumer) /\ ~Suspended(Resumer) /\ Resumer \in Threads
      BY <1>1, <1>5, <2>1, <2>2
    <2>5. leaving[Resumer] = "no" /\ frames[Resumer] # <<>>
      BY <2>1, <2>2 DEF ContextInv, FrameInv
    <2>6. co[Running].started
      BY <2>2 DEF ContextInv, TreeInv
    <2>7. Resumer \in Coroutines => co[Resumer].st = "normal"
      <3>1. ASSUME n - 1 = 1 PROVE Resumer \notin Coroutines
        <4>1. chain[n - 1] = Main
          BY <1>1, <3>1
        <4>2. Main \notin Coroutines
          BY CoroutineConstants
        <4> QED
          BY <2>2, <4>1, <4>2
      <3>2. Resumer \in Coroutines => n - 1 \in 2..n
        <4>1. n \in Nat
          BY <1>1
        <4> HIDE DEF n
        <4>2. n - 1 # 1 => n - 1 \in 2..n
          BY <1>8, <4>1
        <4> QED
          BY <3>1, <4>2
      <3> QED
        BY <1>3, <2>2, <3>2
    <2> QED
      <3>1. Running \in Threads /\ Alive(Running) /\ ~Suspended(Running)
        BY <1>1, <1>2, <1>5, <2>1
      <3>2. Running \in Coroutines => Len(chain) >= 2
        BY <1>8
      <3> HIDE DEF n
      <3> QED
        BY <1>1, <1>2, <1>6, <2>2, <2>3, <2>4, <2>5, <2>6, <2>7, <3>1, <3>2 DEF n
  <1>9. n = 1 \/ n >= 2
    <2>1. n \in Nat \ {0}
      BY <1>1
    <2> HIDE DEF n
    <2> QED
      BY <2>1
  <1> QED
    BY <1>7, <1>8, <1>9

(* A local of the running function is closed in a frame that ends only, and  *)
(* what a closure reaches is open on its own stack only.                     *)
LEMMA OwnCells ==
  ASSUME ContextInv, MachineInv(Machine)
  PROVE  /\ \A v \in Vars : var[v].live /\ var[v].home = Running /\ cell[v].st = "closed" =>
              /\ leaving[Running] # "no"
              /\ var[v].idx >= LevelIn(frames[Running], leaving[Running])
         /\ \A v \in reach[Running] : cell[v].st = "open" => var[v].home = Running
  <1>1. ASSUME NEW v \in Vars, var[v].live, var[v].home = Running, cell[v].st = "closed"
        PROVE  Going(v)
    <2>1. ~Shared(v)
      BY <1>1, RunFacts DEF Shared
    <2>2. ~Parked(v)
      BY <1>1, RunFacts DEF Parked
    <2> QED
      BY <1>1, <2>1, <2>2 DEF ContextInv, AwayInv
  <1>2. ASSUME NEW v \in reach[Running], cell[v].st = "open" PROVE var[v].home = Running
    <2> DEFINE h == var[v].home
               n == Len(chain)
    <2>1. v \in Vars /\ ~var[v].tbc
      BY <1>2, RunFacts DEF ContextInv, ContextTypes, ReachInv, Captured
    <2>2. var[v].live /\ h \in Threads
      BY <1>2, <2>1, MachineFacts DEF Machine
    <2>3. Alive(h) /\ ~Suspended(h)
      BY <1>2, <2>1, <2>2 DEF ContextInv, HomeInv, ParkInv
    <2>4. n \in Nat \ {0} /\ Running = chain[n] /\ Running \in Threads
      BY RunFacts
    <2>5. PICK i \in 1..n : chain[i] = h
      <3>1. CASE h = Main
        <4>1. 1 \in 1..n /\ chain[1] = h
          BY <2>4, <3>1 DEF ContextInv, ChainInv
        <4> QED
          BY <4>1
      <3>2. CASE h # Main
        <4>1. h \in Coroutines /\ co[h].st = "normal"
          BY <2>3, <3>2 DEF Alive, Suspended
        <4>2. \E i \in 2..n : chain[i] = h
          BY <4>1 DEF ContextInv, ChainInv
        <4> QED
          BY <2>4, <4>2
      <3> QED
        BY <3>1, <3>2
    <2>6. CASE i = n
      BY <2>4, <2>5, <2>6
    <2>7. CASE i # n
      <3> DEFINE d == chain[i + 1]
      <3>1. i + 1 \in 2..n /\ i + 1 \in 1..n /\ n \in 1..n /\ (i + 1) - 1 = i
        BY <2>4, <2>7
      <3>2. d \in Coroutines /\ co[d].st = "normal" /\ co[d].creator = h
        BY <2>5, <3>1 DEF ContextInv, ChainInv
      <3>3. d \in Above(Running)
        <4>1. Above(chain[n]) = {chain[j] : j \in 1..n}
          BY <3>1 DEF ContextInv, ChainInv, Upto
        <4> QED
          BY <2>4, <3>1, <4>1
      <3>4. Started(d)
        BY <3>2 DEF ContextInv, TreeInv, Started, Alive
      <3>5. v \in DOMAIN co[d].origins
        BY <1>2, <2>2, <2>4, <3>2, <3>3, <3>4 DEF ContextInv, ReachInv, Below
      <3>6. cell[v].st = "closed"
        BY <3>2, <3>5 DEF ContextInv, LinkInv, LinksOK, Alive
      <3> QED
        BY <1>2, <3>6
    <2> QED
      BY <2>6, <2>7
  <1> QED
    BY <1>1, <1>2 DEF Going
-----------------------------------------------------------------------------
(* Steps, by what they do to the variables and cells.                        *)

SameVar(v) ==
    /\ var'[v].live = var[v].live /\ var'[v].home = var[v].home
    /\ var'[v].idx = var[v].idx /\ var'[v].tbc = var[v].tbc
Steady(v) == SameVar(v) /\ cell'[v].st = cell[v].st
Fresh(v) ==
    /\ cell[v].st = "none" /\ ~var[v].live /\ var'[v].live /\ var'[v].home = Running
    /\ cell'[v].st = "none" \/ (cell'[v].st = "open" /\ var'[v].tbc)

LEMMA VarFacts ==
  ASSUME MachineInv(Machine)
  PROVE  /\ \A v \in Vars :
              /\ var[v].home \in Threads /\ var[v].idx \in Nat
              /\ var[v].live \in BOOLEAN /\ var[v].tbc \in BOOLEAN
              /\ cell[v].st \in {"none", "open", "closed"}
              /\ cell[v].st = "open" => var[v].live
              /\ var[v].tbc => cell[v].st # "none"
              /\ var[v].via = v
              /\ var[v].idx = 0 => cell[v].st = "none" /\ ~var[v].live
              /\ var[v].live => var[v].idx \in 1..Len(stack[var[v].home])
         /\ \A t \in Threads : Len(stack[t]) \in Nat
  BY MachineFacts DEF Machine

LEMMA CoFacts ==
  ASSUME ContextInv
  PROVE  \A c \in Coroutines :
           /\ co[c].st \in {"none", "suspended", "normal", "ok", "error"}
           /\ co[c].started \in BOOLEAN /\ co[c].wrap \in BOOLEAN
           /\ co[c].creator \in Threads /\ co[c].body \in SUBSET Vars
           /\ DOMAIN co[c].origins \subseteq Vars /\ DOMAIN co[c].pending \subseteq Vars
           /\ DOMAIN co[c].inside \subseteq Vars
           /\ co[c].handler \in {"no", "running", "raised"}
  BY ContextFields DEF ContextInv, ContextTypes

LEMMA LeavingAlive ==
  ASSUME ContextInv
  PROVE  \A t \in Threads : leaving[t] # "no" => Alive(t) /\ frames[t] # <<>>
  <1>1. \A t \in Threads : leaving[t] # "no" => frames[t] # <<>>
    BY DEF ContextInv, FrameInv
  <1>2. \A c \in Coroutines : Started(c) <=> frames[c] # <<>>
    BY DEF ContextInv, FrameInv
  <1> QED
    BY <1>1, <1>2 DEF Threads, Started, Alive

LEMMA FramesGrow ==
  ASSUME NEW f, NEW n \in Nat, NEW k \in Nat, n <= k, FramesOK(f, n)
  PROVE  FramesOK(f, k)
  <1>1. \A i \in 1..Len(f) : f[i].base \in Nat
    BY FramesMember DEF FramesOK
  <1> QED
    BY <1>1 DEF FramesOK

(* A declaration or a write leaves every thread where it is.                 *)
LEMMA QuietStep ==
  ASSUME MachineInv(Machine), MachineInv(Machine'), ContextInv,
         chain' = chain, co' = co, frames' = frames, leaving' = leaving, reach' = reach,
         leaving[Running] = "no",
         \A v \in Vars : Steady(v) \/ Fresh(v),
         \A t \in Threads : Len(stack'[t]) >= Len(stack[t])
  PROVE  ContextInv'
  <1>1. /\ ContextTypes /\ ChainInv /\ TreeInv /\ FrameInv /\ HomeInv
        /\ AwayInv /\ LinkInv /\ ParkInv /\ LeaveInv /\ ReachInv
    BY DEF ContextInv
  <1>2. ContextTypes' /\ TreeInv'
    BY <1>1 DEF ContextTypes, TreeInv, Alive
  <1>3. Parents' = Parents
    BY DEF Parents
  <1>4. ChainInv'
    <2>1. \A i \in 1..Len(chain) : Above(chain[i])' = Above(chain[i])
      BY <1>3 DEF Above
    <2> QED
      BY <1>1, <2>1 DEF ChainInv
  <1>5. FrameInv'
    <2>1. \A t \in Threads : Len(stack[t]) \in Nat /\ Len(stack'[t]) \in Nat
      BY MachineFacts DEF Machine
    <2>2. \A t \in Threads : FramesOK(frames'[t], Len(stack'[t]))
      BY <1>1, <2>1, FramesGrow DEF FrameInv
    <2> QED
      BY <1>1, <2>2 DEF FrameInv, Started, Alive
  <1>6. HomeInv'
    BY <1>1, RunFacts DEF HomeInv, Steady, SameVar, Fresh, Alive
  <1>7. AwayInv'
    BY <1>1 DEF AwayInv, Steady, SameVar, Fresh, Going, Shared, Parked, Suspended
  <1>8. \A v \in Vars : var[v].live \/ cell[v].st # "none" => Steady(v)
    BY DEF Fresh
  <1>9. LinkInv'
    <2> SUFFICES ASSUME NEW c \in Coroutines, Alive(c)
                 PROVE  LinksOK(c)'
      BY DEF LinkInv, Alive
    <2>1. LinksOK(c)
      BY <1>1 DEF LinkInv
    <2>2. /\ DOMAIN co[c].origins \subseteq Vars /\ DOMAIN co[c].pending \subseteq Vars
          /\ DOMAIN co[c].inside \subseteq Vars
      BY CoFacts
    <2> QED
      BY <1>8, <2>1, <2>2 DEF LinksOK, Linked, Steady, SameVar, Alive
  <1>10. ParkInv'
    BY <1>1 DEF ParkInv, Steady, SameVar, Fresh, Suspended
  <1>11. LeaveInv'
    <2> SUFFICES ASSUME NEW t \in Threads, leaving[t] # "no"
                 PROVE  Apart(t)' /\ (leaving[t] = "error" => Clean(t)')
      BY DEF LeaveInv
    <2>1. Apart(t) /\ (leaving[t] = "error" => Clean(t))
      BY <1>1 DEF LeaveInv
    <2>2. Apart(t)'
      <3> SUFFICES ASSUME NEW c \in Coroutines, Alive(c), co[c].creator = t,
                          NEW u \in DOMAIN co[c].origins \cup DOMAIN co[c].pending
                   PROVE  var'[u].idx < LeaveBaseIn(frames[t], leaving[t])
        BY DEF Apart, Alive
      <3>1. Steady(u)
        BY <1>1, <1>8, LeavingAlive DEF LinkInv, LinksOK, Linked
      <3> QED
        BY <2>1, <3>1 DEF Apart, Steady, SameVar
    <2>3. ASSUME leaving[t] = "error" PROVE Clean(t)'
      <3>1. \A v \in Vars : var'[v].home = t => Steady(v)
        BY <2>3 DEF Fresh
      <3> QED
        BY <2>1, <2>3, <3>1 DEF Clean, Steady, SameVar, Parked, Suspended
    <2> QED
      BY <2>2, <2>3
  <1>12. ReachInv'
    <2>1. \A t : Above(t)' = Above(t)
      BY <1>3 DEF Above
    <2>2. /\ \A t \in Threads : reach[t] \subseteq Vars
          /\ \A c \in Coroutines : co[c].body \subseteq Vars
      BY <1>1, CoFacts DEF ContextTypes
    <2> QED
      BY <1>1, <1>8, <2>1, <2>2
      DEF ReachInv, Captured, Given, Below, Steady, SameVar, Alive, Started
  <1> QED
    BY <1>2, <1>4, <1>5, <1>6, <1>7, <1>9, <1>10, <1>11, <1>12 DEF ContextInv

(* A call changes the frames of the running thread, which does not leave.    *)
LEMMA CallStep ==
  ASSUME MachineInv(Machine), ContextInv, NEW g, frames' = [frames EXCEPT ![Running] = g],
         FramesOK(g, Len(stack[Running])), g # <<>>, frames[Running] # <<>>,
         g[1].guard = frames[Running][1].guard, leaving[Running] = "no",
         Running \notin Coroutines => \A i \in 1..Len(g) : g[i].guard # "yielded",
         chain' = chain, co' = co, stack' = stack, leaving' = leaving,
         var' = var, cell' = cell, reach' = reach
  PROVE  ContextInv'
  <1>1. /\ ContextTypes /\ ChainInv /\ TreeInv /\ FrameInv /\ HomeInv
        /\ AwayInv /\ LinkInv /\ ParkInv /\ LeaveInv /\ ReachInv
    BY DEF ContextInv
  <1>2. Running \in Threads /\ frames \in [Threads -> Seq(Frames)]
    BY <1>1, RunFacts DEF ContextTypes
  <1>3. frames'[Running] = g /\ \A t \in Threads : t # Running => frames'[t] = frames[t]
    BY <1>2
  <1>4. ContextTypes' /\ TreeInv'
    BY <1>1, <1>2 DEF ContextTypes, TreeInv, Alive, FramesOK
  <1>5. Parents' = Parents
    BY DEF Parents
  <1>6. ChainInv'
    <2>1. \A i \in 1..Len(chain) : Above(chain[i])' = Above(chain[i])
      BY <1>5 DEF Above
    <2> QED
      BY <1>1, <2>1 DEF ChainInv
  <1>7. FrameInv'
    <2>1. \A t \in Threads : /\ FramesOK(frames'[t], Len(stack[t]))
                             /\ frames'[t] # <<>> <=> frames[t] # <<>>
                             /\ frames[t] # <<>> => frames'[t][1].guard = frames[t][1].guard
      BY <1>1, <1>3 DEF FrameInv
    <2>2. \A i \in 1..Len(chain) : chain[i] \in Threads
      BY <1>1 DEF ContextTypes
    <2>3. Len(chain) \in Nat
      BY RunFacts
    <2>4. \A i \in 1..Len(frames'[Main]) : frames'[Main][i].guard # "yielded"
      BY <1>1, <1>2, <1>3, CoroutineConstants DEF FrameInv, Threads
    <2> QED
      BY <1>1, <2>1, <2>2, <2>3, <2>4 DEF FrameInv, Started, Alive, Threads
  <1>8. HomeInv' /\ ParkInv'
    BY <1>1 DEF HomeInv, Alive, ParkInv, Suspended
  <1>9. AwayInv'
    <2>1. \A v \in Vars : var[v].home \in Threads
      BY VarFacts
    <2> QED
      BY <1>1, <1>3, <2>1 DEF AwayInv, Going, Shared, Parked, Suspended
  <1>10. LinkInv'
    BY <1>1 DEF LinkInv, LinksOK, Linked, Alive
  <1>11. LeaveInv'
    BY <1>1, <1>3 DEF LeaveInv, Apart, Clean, Alive, Parked, Suspended
  <1>12. ReachInv'
    <2>1. \A t : Above(t)' = Above(t)
      BY <1>5 DEF Above
    <2> QED
      BY <1>1, <2>1 DEF ReachInv, Captured, Given, Below, Alive, Started
  <1> QED
    BY <1>4, <1>6, <1>7, <1>8, <1>9, <1>10, <1>11, <1>12 DEF ContextInv

(* A coroutine is made by the thread that made it alone.                     *)
LEMMA OnlyChild ==
  ASSUME ContextInv, NEW c \in Coroutines, NEW d \in Coroutines,
         co[c].st = "normal", co[d].st = "normal", co[c].creator = co[d].creator
  PROVE  c = d
  <1>1. PICK i \in 2..Len(chain) : chain[i] = c
    BY DEF ContextInv, ChainInv
  <1>2. PICK j \in 2..Len(chain) : chain[j] = d
    BY DEF ContextInv, ChainInv
  <1>3. chain[i - 1] = chain[j - 1]
    BY <1>1, <1>2 DEF ContextInv, ChainInv
  <1>4. Len(chain) \in Nat /\ i - 1 \in 1..Len(chain) /\ j - 1 \in 1..Len(chain)
    BY RunFacts
  <1>5. i - 1 = j - 1
    BY <1>3, <1>4 DEF ContextInv, ChainInv
  <1> QED
    BY <1>1, <1>2, <1>5

(* The creator of a thread that waits or runs waits itself.                  *)
LEMMA CreatorWaits ==
  ASSUME ContextInv, NEW c \in Coroutines, co[c].st = "normal"
  PROVE  /\ Alive(co[c].creator) /\ ~Suspended(co[c].creator) /\ co[c].creator \in Threads
         /\ co[c].creator # Running
  <1>1. PICK i \in 2..Len(chain) : chain[i] = c
    BY DEF ContextInv, ChainInv
  <1>2. Len(chain) \in Nat /\ i - 1 \in 1..Len(chain)
    BY RunFacts
  <1>3. co[c].creator = chain[i - 1]
    BY <1>1 DEF ContextInv, ChainInv
  <1>4. CASE i - 1 = 1
    <2>1. co[c].creator = Main /\ Main \notin Coroutines
      BY <1>3, <1>4, CoroutineConstants DEF ContextInv, ChainInv
    <2> QED
      BY <2>1, RunFacts DEF Alive, Suspended, Threads
  <1>5. CASE i - 1 # 1
    <2>1. i - 1 \in 2..Len(chain)
      BY <1>2, <1>5
    <2>2. co[c].creator \in Coroutines /\ co[co[c].creator].st = "normal"
      BY <1>3, <2>1 DEF ContextInv, ChainInv
    <2> QED
      BY <2>2, RunFacts DEF Alive, Suspended, Threads
  <1> QED
    BY <1>4, <1>5

LEMMA ToCloseMember ==
  ASSUME NEW m, MachineInv(m), NEW t \in Threads, NEW b, NEW v
  PROVE  v \in ToClose(m, t, b) <=> /\ v \in Vars /\ Is(m, v, "open") /\ m.var[v].home = t
                                    /\ m.var[v].idx >= b
  <1>1. v \in m.list[t] <=> v \in Vars /\ Is(m, v, "open") /\ m.var[v].home = t
    BY ListMember
  <1>2. v \in Vars /\ Is(m, v, "open") => m.cell[v].idx = m.var[v].idx
    BY SlotContent
  <1> QED
    BY <1>1, <1>2 DEF ToClose, IsOpen, Is

(* What the guards of BeginReturn and MayRaise say of variables.             *)
LEMMA ApartFrom ==
  ASSUME NEW x, NEW m, MachineInv(m), NEW t \in Threads, NEW b \in Nat,
         ~SharesFrame(x, m, t, b),
         NEW c \in Coroutines, x[c].st \in {"suspended", "normal"},
         NEW u \in Vars, u \in DOMAIN x[c].origins \cup DOMAIN x[c].pending,
         m.var[u].home = t, Is(m, u, "open")
  PROVE  m.var[u].idx < b
  <1>1. u \notin ToClose(m, t, b)
    BY DEF SharesFrame
  <1>2. m.var[u].idx \in Nat
    BY MachineFacts
  <1> QED
    BY <1>1, <1>2, ToCloseMember

LEMMA CleanFrom ==
  ASSUME NEW m, MachineInv(m), NEW t \in Threads, NEW b, NEW l,
         ToClose(m, t, b) \ ToClose(m, t, l) = {},
         NEW v \in Vars, m.var[v].home = t, Is(m, v, "open"), m.var[v].idx >= b
  PROVE  m.var[v].idx >= l
  <1>1. v \in ToClose(m, t, b)
    BY ToCloseMember
  <1>2. v \in ToClose(m, t, l)
    BY <1>1
  <1> QED
    BY <1>2, ToCloseMember

(* The links to a thread that runs and does not leave are open.              *)
LEMMA OpenLinks ==
  ASSUME MachineInv(Machine), ContextInv, NEW c \in Coroutines, Alive(c),
         co[c].creator = Running,
         NEW u \in DOMAIN co[c].origins \cup DOMAIN co[c].pending
  PROVE  /\ u \in Vars /\ var[u].live /\ var[u].home = Running /\ ~var[u].tbc
         /\ cell[u].st = "open" \/ (/\ cell[u].st = "closed" /\ leaving[Running] # "no"
                                    /\ var[u].idx >= LevelIn(frames[Running], leaving[Running]))
  <1>1. LinksOK(c) /\ Alive(co[c].creator)
    BY RunFacts DEF ContextInv, LinkInv
  <1>2. u \in Vars /\ var[u].live /\ var[u].home = Running /\ ~var[u].tbc /\ cell[u].st # "none"
    BY <1>1 DEF LinksOK, Linked
  <1> QED
    BY <1>2, OwnCells, VarFacts

(* No frame of a program without the habits has lost its callers.            *)
LEMMA LeaveTerms ==
  ASSUME NEW t, frames[t] \in Seq(Frames)
  PROVE  /\ Guards(t) = Guarded(frames[t]) /\ Handler(t) = HandlerIn(frames[t])
         /\ HasYielded(t) <=> /\ HandlerIn(frames[t]) # 0
                              /\ frames[t][HandlerIn(frames[t])].guard = "yielded"
         /\ ErrorLevel(t) = ErrorLevelIn(frames[t])
         /\ Level(t) = LevelIn(frames[t], leaving[t])
         /\ Innermost(t) = Last(frames[t])
  <1> DEFINE f == frames[t]
  <1>1. \A i \in DOMAIN f : f[i].guard \in {"armed", "yielded"} <=> f[i].guard # "none"
    BY FramesMember
  <1>2. Guards(t) = Guarded(f)
    BY <1>1 DEF Guards, Guarded
  <1>3. Handler(t) = HandlerIn(f)
    BY <1>2 DEF Handler, HandlerIn
  <1>4. HasYielded(t) <=> HandlerIn(f) # 0 /\ f[HandlerIn(f)].guard = "yielded"
    BY <1>3 DEF HasYielded
  <1>5. Innermost(t) = Last(f)
    BY DEF Innermost
  <1>6. ErrorLevel(t) = ErrorLevelIn(f)
    BY <1>3, <1>4, <1>5 DEF ErrorLevel, ErrorLevelIn
  <1> QED
    BY <1>2, <1>3, <1>4, <1>5, <1>6 DEF Level, LevelIn

LEMMA LowestNumber ==
  ASSUME NEW n \in Nat, NEW S \in SUBSET (0..n), S # {}
  PROVE  Min(S) \in S /\ \A y \in S : Min(S) <= y
  <1> DEFINE T == {n - x : x \in S}
  <1>1. \A x \in S : x \in Nat /\ n - x \in 0..n
    OBVIOUS
  <1>2. PICK x \in T : \A y \in T : x >= y
    <2>1. T \in SUBSET (0..n) /\ T # {}
      BY <1>1
    <2> HIDE DEF T
    <2> QED
      BY <2>1, HighestNumber
  <1>3. PICK z \in S : x = n - z
    BY <1>2
  <1>4. \A y \in S : n - y \in T /\ y \in Nat /\ z \in Nat
    BY <1>1, <1>3
  <1> HIDE DEF T
  <1>5. \A y \in S : z <= y
    BY <1>2, <1>3, <1>4
  <1> QED
    BY <1>3, <1>5 DEF Min

(* Where the stack is cut by an error: below the innermost protected call,   *)
(* and there when no yield has passed through it.                            *)
LEMMA ErrorBases ==
  ASSUME NEW n \in Nat, NEW t, FramesOK(frames[t], n), frames[t] # <<>>
  PROVE  /\ ErrorBase(t) \in Nat \ {0} /\ ErrorBase(t) <= BaseIn(frames[t])
         /\ ~HasYielded(t) => ErrorBase(t) = BaseIn(frames[t])
         /\ HasYielded(t) => Catcher(t) \in Guarded(frames[t])
  <1> DEFINE f == frames[t]
             h == HandlerIn(f)
             k == Len(f)
  <1>1. f \in Seq(Frames) /\ k \in Nat /\ h \in 0..k /\ DOMAIN f = 1..k
    BY HandlerFacts DEF FramesOK
  <1>2. Guards(t) = Guarded(f) /\ Handler(t) = h
    BY <1>1, LeaveTerms
  <1>3. ErrorBase(t) = IF h = 0 THEN 1 ELSE f[Catcher(t)].base
    BY <1>2 DEF ErrorBase
  <1>4. BaseIn(f) = IF h = 0 THEN 1 ELSE f[h].base
    BY DEF BaseIn
  <1>5. CASE h = 0
    BY <1>2, <1>3, <1>4, <1>5 DEF HasYielded
  <1>6. CASE h # 0 /\ ~HasYielded(t)
    <2>1. h \in 1..k /\ Catcher(t) = h
      BY <1>1, <1>2, <1>6 DEF Catcher
    <2>2. f[h].base \in Nat \ {0}
      BY <1>1, <2>1, FramesMember
    <2> QED
      BY <1>3, <1>4, <1>6, <2>1, <2>2
  <1>7. CASE h # 0 /\ HasYielded(t)
    <2>1. Guarded(f) \in SUBSET (0..k) /\ Guarded(f) \subseteq 1..k
      BY <1>1 DEF Guarded
    <2>2. Guarded(f) # {}
      BY <1>7 DEF HandlerIn
    <2>3. Min(Guarded(f)) \in Guarded(f) /\ \A y \in Guarded(f) : Min(Guarded(f)) <= y
      BY <1>1, <2>1, <2>2, LowestNumber
    <2>4. Catcher(t) = Min(Guarded(f))
      BY <1>2, <1>7 DEF Catcher
    <2>5. h \in Guarded(f)
      <3>1. h \in 1..k /\ f[h].guard # "none"
        BY <1>1, <1>7, HandlerFacts
      <3> QED
        BY <1>1, <3>1 DEF Guarded
    <2>6. Catcher(t) \in 1..k /\ h \in 1..k /\ Catcher(t) <= h
      BY <2>1, <2>3, <2>4, <2>5
    <2>7. f[Catcher(t)].base \in Nat \ {0} /\ f[Catcher(t)].base <= f[h].base
      BY <1>1, <2>6, FramesMember DEF FramesOK
    <2> QED
      BY <1>3, <1>4, <1>7, <2>3, <2>4, <2>7
  <1> QED
    BY <1>5, <1>6, <1>7

(* The running thread starts to leave its frame, or more of them.            *)
LEMMA BeginStep ==
  ASSUME MachineInv(Machine), ContextInv, NEW why \in {"return", "error"},
         leaving' = [leaving EXCEPT ![Running] = why],
         leaving[Running] = "no", frames[Running] # <<>>,
         ~SharesFrame(co, Machine, Running, LeaveBaseIn(frames[Running], why)),
         why = "error" => ToClose(Machine, Running, BaseIn(frames[Running]))
                            \ ToClose(Machine, Running, ErrorLevelIn(frames[Running])) = {},
         chain' = chain, co' = co, stack' = stack, frames' = frames,
         var' = var, cell' = cell, reach' = reach
  PROVE  ContextInv'
  <1>1. /\ ContextTypes /\ ChainInv /\ TreeInv /\ FrameInv /\ HomeInv
        /\ AwayInv /\ LinkInv /\ ParkInv /\ LeaveInv /\ ReachInv
    BY DEF ContextInv
  <1>2. Running \in Threads /\ leaving \in [Threads -> {"no", "return", "error"}]
    BY <1>1, RunFacts DEF ContextTypes
  <1>3. leaving'[Running] = why /\ \A t \in Threads : t # Running => leaving'[t] = leaving[t]
    BY <1>2
  <1>4. ContextTypes' /\ TreeInv'
    BY <1>1, <1>2 DEF ContextTypes, TreeInv, Alive
  <1>5. Parents' = Parents
    BY DEF Parents
  <1>6. ChainInv'
    <2>1. \A i \in 1..Len(chain) : Above(chain[i])' = Above(chain[i])
      BY <1>5 DEF Above
    <2> QED
      BY <1>1, <2>1 DEF ChainInv
  <1>7. FrameInv'
    <2>1. \A i \in 1..(Len(chain) - 1) : chain[i] \in Threads /\ chain[i] # Running
      <3>1. Len(chain) \in Nat /\ Running = chain[Len(chain)]
        BY RunFacts
      <3>2. \A i \in 1..(Len(chain) - 1) : /\ i \in 1..Len(chain) /\ i # Len(chain)
                                           /\ Len(chain) \in 1..Len(chain)
        BY <3>1
      <3>3. \A i \in 1..Len(chain) : chain[i] \in Threads
        BY <1>1 DEF ContextTypes
      <3>4. \A i, j \in 1..Len(chain) : chain[i] = chain[j] => i = j
        BY <1>1 DEF ChainInv
      <3> QED
        BY <3>1, <3>2, <3>3, <3>4
    <2> QED
      BY <1>1, <1>3, <2>1 DEF FrameInv, Started, Alive
  <1>8. HomeInv' /\ ParkInv'
    BY <1>1 DEF HomeInv, Alive, ParkInv, Suspended
  <1>9. AwayInv'
    <2>1. \A v \in Vars : var[v].home \in Threads
      BY VarFacts
    <2> QED
      BY <1>1, <1>3, <2>1 DEF AwayInv, Going, Shared, Parked, Suspended
  <1>10. LinkInv'
    BY <1>1 DEF LinkInv, LinksOK, Linked, Alive
  <1>11. LeaveInv'
    <2> SUFFICES ASSUME NEW t \in Threads, leaving'[t] # "no"
                 PROVE  Apart(t)' /\ (leaving'[t] = "error" => Clean(t)')
      BY DEF LeaveInv
    <2>1. CASE t # Running
      BY <1>1, <1>3, <2>1 DEF LeaveInv, Apart, Clean, Alive, Parked, Suspended
    <2>2. CASE t = Running
      <3> DEFINE f == frames[Running]
                 b == LeaveBaseIn(f, why)
      <3>1. b \in Nat
        BY <1>1, <1>2, LevelFacts, VarFacts DEF FrameInv
      <3>2. Apart(t)'
        <4> SUFFICES ASSUME NEW c \in Coroutines, Alive(c), co[c].creator = Running,
                            NEW u \in DOMAIN co[c].origins \cup DOMAIN co[c].pending
                     PROVE  var[u].idx < b
          BY <1>3, <2>2 DEF Apart, Alive
        <4>1. u \in Vars /\ var[u].home = Running /\ cell[u].st = "open"
          BY OpenLinks
        <4>2. Machine.var = var /\ Machine.cell = cell
          BY DEF Machine
        <4>3. co[c].st \in {"suspended", "normal"}
          BY CoroutineConstants DEF Alive
        <4> HIDE DEF b, f
        <4>4. ~SharesFrame(co, Machine, Running, b)
          BY DEF b, f
        <4> QED
          BY <1>2, <3>1, <4>1, <4>2, <4>3, <4>4, ApartFrom DEF Is
      <3>3. ASSUME why = "error" PROVE Clean(t)'
        <4> SUFFICES ASSUME NEW v \in Vars, var[v].home = Running,
                            cell[v].st = "open" \/ Parked(v), var[v].idx >= BaseIn(f)
                     PROVE  var[v].idx >= ErrorLevelIn(f)
          BY <2>2 DEF Clean, Parked, Suspended
        <4>1. ~Parked(v)
          BY RunFacts DEF Parked
        <4>2. Machine.var = var /\ Machine.cell = cell
          BY DEF Machine
        <4> QED
          BY <1>2, <3>3, <4>1, <4>2, CleanFrom DEF Is
      <3> QED
        BY <1>3, <2>2, <3>2, <3>3
    <2> QED
      BY <2>1, <2>2
  <1>12. ReachInv'
    <2>1. \A t : Above(t)' = Above(t)
      BY <1>5 DEF Above
    <2> QED
      BY <1>1, <2>1 DEF ReachInv, Captured, Given, Below, Alive, Started
  <1> QED
    BY <1>4, <1>6, <1>7, <1>8, <1>9, <1>10, <1>11, <1>12 DEF ContextInv

(* Upvalues of a frame that ends are closed; a handler may raise, and may    *)
(* begin or end.                                                             *)
Untouched(d) ==
    /\ co'[d].st = co[d].st /\ co'[d].started = co[d].started /\ co'[d].wrap = co[d].wrap
    /\ co'[d].creator = co[d].creator /\ co'[d].body = co[d].body
    /\ co'[d].origins = co[d].origins /\ co'[d].pending = co[d].pending
    /\ co'[d].inside = co[d].inside

LEMMA CloseSomeStep ==
  ASSUME MachineInv(Machine), MachineInv(Machine'), ContextInv,
         NEW why \in {"return", "error"}, leaving' = [leaving EXCEPT ![Running] = why],
         leaving[Running] # "no",
         \/ why = leaving[Running]
         \/ /\ why = "error"
            /\ ~SharesFrame(co, Machine, Running, BaseIn(frames[Running]))
            /\ ToClose(Machine, Running, BaseIn(frames[Running]))
                 \ ToClose(Machine, Running, ErrorLevelIn(frames[Running])) = {},
         NEW K \in SUBSET Vars,
         \A u \in K : /\ var[u].home = Running /\ cell[u].st = "open"
                      /\ var[u].idx >= LevelIn(frames[Running], leaving[Running]),
         \A v \in Vars : SameVar(v) /\ cell'[v].st = IF v \in K THEN "closed" ELSE cell[v].st,
         \A t \in Threads : Len(stack'[t]) = Len(stack[t]),
         co' \in [Coroutines -> Contexts], \A d \in Coroutines : Untouched(d),
         chain' = chain, frames' = frames, reach' = reach
  PROVE  ContextInv'
  <1>1. /\ ContextTypes /\ ChainInv /\ TreeInv /\ FrameInv /\ HomeInv
        /\ AwayInv /\ LinkInv /\ ParkInv /\ LeaveInv /\ ReachInv
    BY DEF ContextInv
  <1>2. Running \in Threads /\ leaving \in [Threads -> {"no", "return", "error"}]
    BY <1>1, RunFacts DEF ContextTypes
  <1>3. leaving'[Running] = why /\ \A t \in Threads : t # Running => leaving'[t] = leaving[t]
    BY <1>2
  <1>0. /\ \A d \in Coroutines :
              /\ co'[d].st = co[d].st /\ co'[d].started = co[d].started
              /\ co'[d].wrap = co[d].wrap /\ co'[d].creator = co[d].creator
              /\ co'[d].body = co[d].body /\ co'[d].origins = co[d].origins
              /\ co'[d].pending = co[d].pending /\ co'[d].inside = co[d].inside
        /\ \A t : /\ Alive(t)' <=> Alive(t)
                  /\ Started(t)' <=> Started(t)
                  /\ Suspended(t)' <=> Suspended(t)
    <2>1. \A d \in Coroutines :
            /\ co'[d].st = co[d].st /\ co'[d].started = co[d].started
            /\ co'[d].wrap = co[d].wrap /\ co'[d].creator = co[d].creator
            /\ co'[d].body = co[d].body /\ co'[d].origins = co[d].origins
            /\ co'[d].pending = co[d].pending /\ co'[d].inside = co[d].inside
      BY DEF Untouched
    <2> QED
      BY <2>1 DEF Alive, Started, Suspended
  <1>4. ContextTypes' /\ TreeInv'
    <2>1. ContextTypes'
      BY <1>1, <1>2 DEF ContextTypes
    <2>2. TreeInv'
      BY <1>0, <1>1 DEF TreeInv
    <2> QED
      BY <2>1, <2>2
  <1>5. Parents' = Parents
    <2>1. {d \in Coroutines : co'[d].st # "none"} = {d \in Coroutines : co[d].st # "none"}
      BY <1>0
    <2>2. \A d \in Coroutines : co'[d].creator = co[d].creator
      BY <1>0
    <2> QED
      BY <2>1, <2>2 DEF Parents
  <1>6. ChainInv'
    <2>1. \A i \in 1..Len(chain) : Above(chain[i])' = Above(chain[i])
      BY <1>5 DEF Above
    <2> QED
      BY <1>0, <1>1, <2>1 DEF ChainInv
  <1>7. FrameInv'
    <2>1. \A i \in 1..(Len(chain) - 1) : chain[i] \in Threads
      <3>1. \A i \in 1..Len(chain) : chain[i] \in Threads
        BY <1>1 DEF ContextTypes
      <3> QED
        BY <3>1, RunFacts
    <2>2. frames[Running] # <<>>
      BY <1>2, LeavingAlive
    <2> QED
      BY <1>0, <1>1, <1>3, <2>1, <2>2 DEF FrameInv
  <1>8. HomeInv' /\ ParkInv'
    BY <1>0, <1>1 DEF HomeInv, ParkInv, SameVar
  <1> DEFINE f == frames[Running]
  <1>9. /\ \A l : LevelIn(f, l) \in Nat /\ LeaveBaseIn(f, l) \in Nat
        /\ ErrorLevelIn(f) <= LevelIn(f, leaving[Running])
        /\ LevelIn(f, why) <= LevelIn(f, leaving[Running])
        /\ ErrorLevelIn(f) \in Nat /\ BaseIn(f) \in Nat
    <2>1. FramesOK(f, Len(stack[Running])) /\ f # <<>> /\ Len(stack[Running]) \in Nat
      BY <1>1, <1>2, LeavingAlive, VarFacts DEF FrameInv
    <2>2. leaving[Running] \in {"return", "error"}
      BY <1>2
    <2> HIDE DEF f
    <2> QED
      <3>1. /\ \A l : LevelIn(f, l) \in Nat /\ LeaveBaseIn(f, l) \in Nat
            /\ ErrorLevelIn(f) \in Nat /\ BaseIn(f) \in Nat
            /\ ErrorLevelIn(f) <= Last(f).base /\ Last(f).base \in Nat
        BY <2>1, LevelFacts
      <3>2. ErrorLevelIn(f) <= LevelIn(f, leaving[Running])
        BY <3>1 DEF LevelIn
      <3>3. CASE why = leaving[Running]
        BY <3>1, <3>2, <3>3
      <3>4. CASE why = "error"
        <4>1. LevelIn(f, why) = ErrorLevelIn(f)
          BY <3>4 DEF LevelIn
        <4> QED
          BY <3>1, <3>2, <4>1
      <3> QED
        BY <3>3, <3>4
  <1>10. \A v \in Vars : var[v].idx \in Nat /\ var[v].home \in Threads
    BY VarFacts
  <1>11. AwayInv'
    <2> SUFFICES ASSUME NEW v \in Vars, var[v].live, cell'[v].st = "closed"
                 PROVE  Going(v)' \/ Shared(v)' \/ Parked(v)'
      BY DEF AwayInv, SameVar
    <2>1. ASSUME Going(v) PROVE Going(v)'
      <3>1. CASE var[v].home = Running
        <4>1. var[v].idx >= LevelIn(f, leaving[Running])
          BY <2>1, <3>1 DEF Going
        <4>2. var[v].idx >= LevelIn(f, why)
          BY <1>9, <1>10, <4>1
        <4> QED
          BY <1>3, <3>1, <4>2 DEF Going, SameVar
      <3>2. CASE var[v].home # Running
        BY <1>3, <1>10, <2>1, <3>2 DEF Going, SameVar
      <3> QED
        BY <3>1, <3>2
    <2>2. Shared(v) => Shared(v)'
      BY <1>0 DEF Shared, SameVar
    <2>3. Parked(v) => Parked(v)'
      BY <1>0 DEF Parked, Suspended, SameVar
    <2>4. v \in K => Going(v)
      BY DEF Going
    <2>5. v \notin K => Going(v) \/ Shared(v) \/ Parked(v)
      BY <1>1 DEF AwayInv
    <2> QED
      BY <2>1, <2>2, <2>3, <2>4, <2>5
  <1>12. LinkInv'
    <2> SUFFICES ASSUME NEW c \in Coroutines, Alive(c) PROVE LinksOK(c)'
      BY <1>0 DEF LinkInv
    <2>1. LinksOK(c)
      BY <1>1 DEF LinkInv
    <2>2. /\ DOMAIN co[c].origins \subseteq Vars /\ DOMAIN co[c].pending \subseteq Vars
          /\ DOMAIN co[c].inside \subseteq Vars
      BY CoFacts
    <2> QED
      BY <1>0, <2>1, <2>2 DEF LinksOK, Linked, SameVar
  <1>13. LeaveInv'
    <2> SUFFICES ASSUME NEW t \in Threads, leaving'[t] # "no"
                 PROVE  Apart(t)' /\ (leaving'[t] = "error" => Clean(t)')
      BY DEF LeaveInv
    <2>1. \A v \in Vars : /\ cell'[v].st = "open" => cell[v].st = "open"
                          /\ Parked(v)' => Parked(v)
      BY <1>0 DEF Parked, Suspended, SameVar
    <2>2. ASSUME leaving[t] # "no", leaving'[t] = leaving[t]
          PROVE  Apart(t)' /\ (leaving'[t] = "error" => Clean(t)')
      <3>1. Apart(t) /\ (leaving[t] = "error" => Clean(t))
        BY <1>1, <2>2 DEF LeaveInv
      <3>2. Apart(t)'
        BY <1>0, <2>2, <3>1, CoFacts DEF Apart, SameVar
      <3>3. leaving[t] = "error" => Clean(t)'
        BY <2>1, <3>1 DEF Clean, SameVar
      <3> QED
        BY <2>2, <3>2, <3>3
    <2>3. CASE leaving'[t] # leaving[t]
      <3>1. t = Running /\ why = "error" /\ why # leaving[Running] /\ leaving[Running] = "return"
        BY <1>2, <1>3, <2>3
      <3> DEFINE b == BaseIn(f)
      <3>2. Apart(t)'
        <4> SUFFICES ASSUME NEW c \in Coroutines, Alive(c), co[c].creator = Running,
                            NEW w \in DOMAIN co[c].origins \cup DOMAIN co[c].pending
                     PROVE  var[w].idx < b
          BY <1>0, <1>3, <3>1, CoFacts DEF Apart, SameVar, LeaveBaseIn
        <4>1. /\ w \in Vars /\ var[w].home = Running
              /\ cell[w].st = "open" \/ var[w].idx >= LevelIn(f, "return")
          BY <3>1, OpenLinks
        <4>2. var[w].idx < LeaveBaseIn(f, "return")
          BY <1>1, <1>2, <3>1 DEF LeaveInv, Apart
        <4>3. cell[w].st = "open"
          <5> HIDE DEF f
          <5>1. LevelIn(f, "return") = LeaveBaseIn(f, "return")
            BY DEF LevelIn, LeaveBaseIn
          <5>2. LevelIn(f, "return") \in Nat /\ var[w].idx \in Nat
            BY <1>9, <1>10, <4>1
          <5> QED
            BY <4>1, <4>2, <5>1, <5>2
        <4>4. Machine.var = var /\ Machine.cell = cell
          BY DEF Machine
        <4>5. co[c].st \in {"suspended", "normal"}
          BY CoroutineConstants DEF Alive
        <4>6. b \in Nat /\ ~SharesFrame(co, Machine, Running, b)
          BY <1>9, <3>1
        <4> HIDE DEF b, f
        <4> QED
          BY <1>2, <4>1, <4>3, <4>4, <4>5, <4>6, ApartFrom DEF Is
      <3>3. Clean(t)'
        <4> SUFFICES ASSUME NEW v \in Vars, var[v].home = Running,
                            cell'[v].st = "open" \/ Parked(v)', var[v].idx >= BaseIn(f)
                     PROVE  var[v].idx >= ErrorLevelIn(f)
          BY <3>1 DEF Clean, SameVar
        <4>1. ~Parked(v) /\ cell[v].st = "open"
          BY <2>1, RunFacts DEF Parked
        <4>2. Machine.var = var /\ Machine.cell = cell
          BY DEF Machine
        <4> QED
          BY <1>2, <3>1, <4>1, <4>2, CleanFrom DEF Is
      <3> QED
        BY <3>2, <3>3
    <2> QED
      BY <2>2, <2>3
  <1>14. ReachInv'
    <2>1. \A t : Above(t)' = Above(t)
      BY <1>5 DEF Above
    <2>2. /\ \A t \in Threads : reach[t] \subseteq Vars
          /\ \A c \in Coroutines : co[c].body \subseteq Vars
      BY <1>1, CoFacts DEF ContextTypes
    <2> QED
      BY <1>0, <1>1, <2>1, <2>2
      DEF ReachInv, Captured, Given, Below, SameVar
  <1> QED
    BY <1>4, <1>6, <1>7, <1>8, <1>11, <1>12, <1>13, <1>14 DEF ContextInv

(* The running thread has left some of its frames, and goes on.              *)
LEMMA LeftStep ==
  ASSUME MachineInv(Machine), MachineInv(Machine'), ContextInv,
         NEW k \in 0..(Len(frames[Running]) - 1), Running \in Coroutines => k # 0,
         frames' = [frames EXCEPT ![Running] = SubSeq(frames[Running], 1, k)],
         leaving' = [leaving EXCEPT ![Running] = "no"], leaving[Running] # "no",
         NEW b, b = frames[Running][k + 1].base,
         b = LeaveBaseIn(frames[Running], leaving[Running]),
         IsCut(Machine, Running, b, Machine'),
         chain' = chain, co' = co, reach' = reach
  PROVE  ContextInv'
  <1>1. /\ ContextTypes /\ ChainInv /\ TreeInv /\ FrameInv /\ HomeInv
        /\ AwayInv /\ LinkInv /\ ParkInv /\ LeaveInv /\ ReachInv
    BY DEF ContextInv
  <1>2. /\ Running \in Threads /\ leaving \in [Threads -> {"no", "return", "error"}]
        /\ frames \in [Threads -> Seq(Frames)]
    BY <1>1, RunFacts DEF ContextTypes
  <1>3. /\ leaving'[Running] = "no" /\ frames'[Running] = SubSeq(frames[Running], 1, k)
        /\ \A t \in Threads : t # Running => leaving'[t] = leaving[t] /\ frames'[t] = frames[t]
    BY <1>2
  <1>4. /\ \A v \in Vars : /\ var'[v].home = var[v].home /\ var'[v].idx = var[v].idx
                           /\ var'[v].tbc = var[v].tbc
                           /\ var'[v].live <=> var[v].live /\ ~(/\ var[v].home = Running
                                                                /\ var[v].idx >= b)
        /\ cell' = cell
        /\ \A t \in Threads : Len(stack'[t]) = IF t = Running THEN b - 1 ELSE Len(stack[t])
    BY DEF IsCut, Machine
  <1> DEFINE f == frames[Running]
  <1>5. /\ FramesOK(f, Len(stack[Running])) /\ Len(stack[Running]) \in Nat /\ f # <<>>
    BY <1>1, <1>2, VarFacts, LeavingAlive DEF FrameInv
  <1>6. /\ FramesOK(frames'[Running], b - 1) /\ Len(frames'[Running]) = k /\ b \in Nat \ {0}
        /\ frames'[Running] # <<>> => frames'[Running][1] = f[1]
    <2> HIDE DEF f
    <2>1. k \in 0..(Len(f) - 1) /\ b = f[k + 1].base /\ frames'[Running] = SubSeq(f, 1, k)
      BY <1>3 DEF f
    <2> DEFINE g == frames'[Running]
    <2>2. g = SubSeq(f, 1, k)
      BY <2>1
    <2> HIDE DEF g
    <2>3. /\ FramesOK(g, f[k + 1].base - 1) /\ Len(g) = k /\ f[k + 1].base \in Nat \ {0}
          /\ g # <<>> => g[1] = f[1]
      BY <1>5, <2>1, <2>2, FramesCut, ZenonT(40)
    <2> QED
      BY <2>1, <2>3 DEF g
  <1>7. k \in Nat
    BY <1>5, HandlerFacts
  <1>8. ContextTypes' /\ TreeInv'
    BY <1>1, <1>2, <1>6 DEF ContextTypes, TreeInv, Alive, FramesOK
  <1>9. Parents' = Parents
    BY DEF Parents
  <1>10. ChainInv'
    <2>1. \A i \in 1..Len(chain) : Above(chain[i])' = Above(chain[i])
      BY <1>9 DEF Above
    <2> QED
      BY <1>1, <2>1 DEF ChainInv
  <1>11. FrameInv'
    <2>1. \A i \in 1..(Len(chain) - 1) : chain[i] \in Threads /\ chain[i] # Running
      <3>1. Len(chain) \in Nat /\ Running = chain[Len(chain)]
        BY RunFacts
      <3>2. \A i \in 1..(Len(chain) - 1) : /\ i \in 1..Len(chain) /\ i # Len(chain)
                                           /\ Len(chain) \in 1..Len(chain)
        BY <3>1
      <3>3. \A i \in 1..Len(chain) : chain[i] \in Threads
        BY <1>1 DEF ContextTypes
      <3>4. \A i, j \in 1..Len(chain) : chain[i] = chain[j] => i = j
        BY <1>1 DEF ChainInv
      <3> QED
        BY <3>1, <3>2, <3>3, <3>4
    <2>2. \A t \in Threads : /\ FramesOK(frames'[t], Len(stack'[t]))
                             /\ leaving'[t] # "no" => frames'[t] # <<>>
      BY <1>1, <1>3, <1>4, <1>6 DEF FrameInv
    <2>3. \A c \in Coroutines : Started(c)' <=> frames'[c] # <<>>
      <3>1. \A c \in Coroutines : c \in Threads /\ (Started(c)' <=> Started(c))
        BY DEF Threads, Started, Alive
      <3>2. Running \in Coroutines => frames'[Running] # <<>>
        <4>1. k # 0 => frames'[Running] # <<>>
          BY <1>6
        <4> QED
          BY <4>1
      <3> QED
        BY <1>1, <1>3, <1>5, <3>1, <3>2 DEF FrameInv
    <2>4. \A t \in Threads : frames'[t] # <<>> => frames'[t][1] = frames[t][1] /\ frames[t] # <<>>
      BY <1>3, <1>5, <1>6
    <2>5. /\ frames'[Main] # <<>> => frames'[Main][1].guard = "armed"
          /\ \A c \in Coroutines : frames'[c] # <<>> => frames'[c][1].guard = "none"
      BY <1>1, <2>4 DEF FrameInv, Threads
    <2>6. \A i \in 1..(Len(chain) - 1) : leaving'[chain[i]] = "no" /\ frames'[chain[i]] # <<>>
      BY <1>1, <1>3, <2>1 DEF FrameInv
    <2>7. \A i \in 1..Len(frames'[Main]) : frames'[Main][i].guard # "yielded"
      <3>1. Len(frames'[Running]) = k /\ \A i \in 1..k : frames'[Running][i] = f[i]
        BY <1>3, <1>5
      <3>2. \A i \in 1..k : i \in 1..Len(f)
        BY <1>5
      <3> QED
        BY <1>1, <1>3, <3>1, <3>2 DEF FrameInv, Threads
    <2> QED
      BY <2>2, <2>3, <2>5, <2>6, <2>7 DEF FrameInv
  <1>12. HomeInv' /\ ParkInv'
    BY <1>1, <1>4 DEF HomeInv, Alive, ParkInv, Suspended
  <1>13. \A v \in Vars : var[v].idx \in Nat /\ var[v].home \in Threads
    BY VarFacts
  <1>14. LevelIn(f, leaving[Running]) \in Nat /\ b <= LevelIn(f, leaving[Running])
    BY <1>5, LevelFacts
  <1>15. AwayInv'
    <2> SUFFICES ASSUME NEW v \in Vars, var'[v].live, cell[v].st = "closed"
                 PROVE  Going(v)' \/ Shared(v)' \/ Parked(v)'
      BY <1>4 DEF AwayInv
    <2>1. Going(v) => Going(v)'
      <3>1. CASE var[v].home = Running
        <4>1. ~Going(v)
          BY <1>4, <1>6, <1>13, <1>14, <3>1 DEF Going
        <4> QED
          BY <4>1
      <3>2. CASE var[v].home # Running
        BY <1>3, <1>4, <1>13, <3>2 DEF Going
      <3> QED
        BY <3>1, <3>2
    <2>2. Shared(v) => Shared(v)'
      BY <1>4 DEF Shared
    <2>3. Parked(v) => Parked(v)'
      BY <1>4 DEF Parked, Suspended
    <2>4. Going(v) \/ Shared(v) \/ Parked(v)
      BY <1>1, <1>4 DEF AwayInv
    <2> QED
      BY <2>1, <2>2, <2>3, <2>4
  <1>16. LinkInv'
    <2> SUFFICES ASSUME NEW c \in Coroutines, Alive(c) PROVE LinksOK(c)'
      BY DEF LinkInv, Alive
    <2>1. LinksOK(c)
      BY <1>1 DEF LinkInv
    <2>2. /\ DOMAIN co[c].origins \subseteq Vars /\ DOMAIN co[c].pending \subseteq Vars
          /\ DOMAIN co[c].inside \subseteq Vars
      BY CoFacts
    <2>3. \A u \in DOMAIN co[c].inside : var[u].live => var'[u].live
      <3>1. c = Running => DOMAIN co[c].inside = {}
        BY <2>1, RunFacts DEF LinksOK
      <3>2. \A u \in DOMAIN co[c].inside : u \in Vars /\ var[u].home = c
        BY <2>1 DEF LinksOK, Linked
      <3> QED
        BY <1>4, <3>1, <3>2
    <2>4. ASSUME Alive(co[c].creator),
                 NEW u \in DOMAIN co[c].origins \cup DOMAIN co[c].pending
          PROVE  u \in Vars /\ var'[u].live
      <3>1. u \in Vars /\ var[u].live /\ var[u].home = co[c].creator
        BY <2>1, <2>4 DEF LinksOK, Linked
      <3>2. co[c].creator = Running => var[u].idx < b
        BY <1>1, <1>2 DEF LeaveInv, Apart
      <3>3. co[c].creator = Running => ~(var[u].idx >= b)
        BY <1>6, <1>13, <3>1, <3>2
      <3> QED
        BY <1>4, <3>1, <3>3
    <2> QED
      BY <1>4, <2>1, <2>2, <2>3, <2>4 DEF LinksOK, Linked, Alive
  <1>17. LeaveInv'
    <2> SUFFICES ASSUME NEW t \in Threads, leaving'[t] # "no"
                 PROVE  Apart(t)' /\ (leaving'[t] = "error" => Clean(t)')
      BY DEF LeaveInv
    <2>1. t # Running /\ leaving'[t] = leaving[t] /\ frames'[t] = frames[t]
      BY <1>3
    <2>2. \A v \in Vars : Parked(v)' => Parked(v)
      BY <1>4 DEF Parked, Suspended
    <2>3. Apart(t) /\ (leaving[t] = "error" => Clean(t))
      BY <1>1, <2>1 DEF LeaveInv
    <2>4. Apart(t)'
      BY <1>4, <2>1, <2>3, CoFacts DEF Apart, Alive
    <2>5. leaving[t] = "error" => Clean(t)'
      BY <1>4, <2>1, <2>2, <2>3 DEF Clean
    <2> QED
      BY <2>1, <2>4, <2>5
  <1>18. ReachInv'
    <2>1. \A t : Above(t)' = Above(t)
      BY <1>9 DEF Above
    <2>2. /\ \A t \in Threads : reach[t] \subseteq Vars
          /\ \A c \in Coroutines : co[c].body \subseteq Vars
      BY <1>1, CoFacts DEF ContextTypes
    <2> QED
      BY <1>1, <1>4, <2>1, <2>2
      DEF ReachInv, Captured, Given, Below, Alive, Started
  <1> QED
    BY <1>8, <1>10, <1>11, <1>12, <1>15, <1>16, <1>17, <1>18 DEF ContextInv

(* A coroutine is left: those below it on the chain stay there.              *)
LEMMA PopFacts ==
  ASSUME ContextInv, Running \in Coroutines, chain' = Front(chain)
  PROVE  /\ chain' \in Seq(Threads) /\ Len(chain') = Len(chain) - 1
         /\ Len(chain) \in Nat /\ Len(chain) >= 2
         /\ \A i \in 1..Len(chain') :
              /\ i \in 1..Len(chain) /\ chain'[i] = chain[i] /\ chain[i] \in Threads
              /\ chain[i] # Running /\ Upto(chain', i) = Upto(chain, i)
         /\ \A i \in 1..(Len(chain') - 1) :
              i \in 1..Len(chain') /\ i \in 1..(Len(chain) - 1) /\ chain'[i] # Resumer
  <1> DEFINE n == Len(chain)
  <1>1. chain \in Seq(Threads) /\ n \in Nat /\ n >= 2 /\ Running = chain[n]
        /\ Resumer = chain[n - 1]
    BY RunFacts DEF ContextInv, ContextTypes
  <1>2. \A i, j \in 1..n : chain[i] = chain[j] => i = j
    BY DEF ContextInv, ChainInv
  <1>3. \A i \in 1..n : chain[i] \in Threads
    BY <1>1
  <1>4. Front(chain) = SubSeq(chain, 1, n - 1)
    BY DEF Front
  <1>5. /\ chain' \in Seq(Threads) /\ Len(chain') = n - 1
        /\ \A i \in 1..(n - 1) : chain'[i] = chain[i]
    BY <1>1, <1>4
  <1> HIDE DEF n
  <1>6. \A i \in 1..(n - 1) : i \in 1..n /\ i # n /\ n \in 1..n
    BY <1>1
  <1>7. \A i \in 1..(n - 1) : chain[i] # Running
    BY <1>1, <1>2, <1>6
  <1>8. \A i \in 1..((n - 1) - 1) : i \in 1..(n - 1) /\ n - 1 \in 1..n /\ i # n - 1
    BY <1>1
  <1>9. \A i \in 1..((n - 1) - 1) : chain'[i] # Resumer
    BY <1>1, <1>2, <1>5, <1>6, <1>8
  <1>10. ASSUME NEW i \in 1..(n - 1) PROVE Upto(chain', i) = Upto(chain, i)
    <2>1. \A j \in 1..i : chain'[j] = chain[j]
      BY <1>1, <1>5
    <2> QED
      BY <2>1 DEF Upto
  <1> QED
    BY <1>1, <1>3, <1>5, <1>6, <1>7, <1>8, <1>9, <1>10 DEF n

LEMMA PopChain ==
  ASSUME ContextInv, Running \in Coroutines, chain' = Front(chain), Parents' = Parents,
         \A d \in Coroutines : d # Running => co'[d] = co[d],
         co'[Running].st # "normal"
  PROVE  ChainInv'
  <1>1. ChainInv
    BY DEF ContextInv
  <1>2. Len(chain') >= 1 /\ chain'[1] = Main
    BY <1>1, PopFacts DEF ChainInv
  <1>3. ASSUME NEW i \in 2..Len(chain')
        PROVE  /\ chain'[i] \in Coroutines /\ co'[chain'[i]].st = "normal"
               /\ co'[chain'[i]].creator = chain'[i - 1]
    <2>1. i \in 1..Len(chain') /\ i - 1 \in 1..Len(chain') /\ i \in 2..Len(chain)
      BY PopFacts
    <2>2. chain'[i] = chain[i] /\ chain'[i - 1] = chain[i - 1] /\ chain[i] # Running
      BY <2>1, PopFacts
    <2> QED
      BY <1>1, <2>1, <2>2 DEF ChainInv
  <1>4. \A i, j \in 1..Len(chain') : chain'[i] = chain'[j] => i = j
    BY <1>1, PopFacts DEF ChainInv
  <1>5. ASSUME NEW c \in Coroutines, co'[c].st = "normal"
        PROVE  \E i \in 2..Len(chain') : chain'[i] = c
    <2>1. c # Running /\ co[c].st = "normal"
      BY <1>5
    <2>2. PICK i \in 2..Len(chain) : chain[i] = c
      BY <1>1, <2>1 DEF ChainInv
    <2>3. i # Len(chain)
      BY <2>1, <2>2, RunFacts
    <2>4. i \in 2..Len(chain')
      BY <2>3, PopFacts
    <2>5. chain'[i] = c
      BY <2>2, <2>4, PopFacts
    <2> QED
      BY <2>4, <2>5
  <1>6. \A i \in 1..Len(chain') : Above(chain[i])' = Upto(chain', i)
    <2>1. \A i \in 1..Len(chain') : Above(chain[i]) = Upto(chain', i)
      BY <1>1, PopFacts DEF ChainInv
    <2> QED
      BY <2>1, PopFacts DEF Above
  <1> QED
    BY <1>2, <1>3, <1>4, <1>5, <1>6 DEF ChainInv

(* A coroutine ends: its variables are gone, and the upvalues it shared are  *)
(* open again; coroutine.wrap may raise its error in the resumer.            *)
LEMMA FinishStep ==
  ASSUME MachineInv(Machine), MachineInv(Machine'), ContextInv, Running \in Coroutines,
         NEW status \in {"ok", "error"},
         co' = [co EXCEPT ![Running] = Dead(Running, status)],
         reach' = [reach EXCEPT ![Running] = {}], chain' = Front(chain),
         frames' = [frames EXCEPT ![Running] = <<>>],
         NEW why \in {"no", "error"},
         leaving' = [leaving EXCEPT ![Running] = "no", ![Resumer] = why],
         why = "error" =>
           /\ ~SharesFrame(co', Machine', Resumer, BaseIn(frames[Resumer]))
           /\ ToClose(Machine', Resumer, BaseIn(frames[Resumer]))
                \ ToClose(Machine', Resumer, ErrorLevelIn(frames[Resumer])) = {},
         \A v \in Vars :
           /\ var'[v].home = var[v].home /\ var'[v].idx = var[v].idx
           /\ var'[v].tbc = var[v].tbc
           /\ var'[v].live <=> var[v].live /\ var[v].home # Running
           /\ cell'[v].st = IF v \in DOMAIN co[Running].origins THEN "open" ELSE cell[v].st,
         \A t \in Threads : Len(stack'[t]) = IF t = Running THEN 0 ELSE Len(stack[t])
  PROVE  ContextInv'
  <1> DEFINE c == Running
             p == Resumer
             O == DOMAIN co[c].origins
  <1>1. /\ ContextTypes /\ ChainInv /\ TreeInv /\ FrameInv /\ HomeInv
        /\ AwayInv /\ LinkInv /\ ParkInv /\ LeaveInv /\ ReachInv
    BY DEF ContextInv
  <1>2. /\ c \in Threads /\ p \in Threads /\ p # c /\ co[c].creator = p
        /\ co[c].st = "normal" /\ Alive(p) /\ ~Suspended(p) /\ leaving[p] = "no"
        /\ frames[p] # <<>>
    BY RunFacts
  <1>3. /\ co'[c] = Dead(c, status) /\ \A d \in Coroutines : d # c => co'[d] = co[d]
        /\ reach'[c] = {} /\ \A t \in Threads : t # c => reach'[t] = reach[t]
        /\ frames'[c] = <<>> /\ \A t \in Threads : t # c => frames'[t] = frames[t]
        /\ leaving'[c] = "no" /\ leaving'[p] = why
        /\ \A t \in Threads : t # c /\ t # p => leaving'[t] = leaving[t]
    BY <1>1, <1>2 DEF ContextTypes
  <1>4. /\ co'[c].st = status /\ co'[c].creator = p /\ ~co'[c].started /\ co'[c].body = {}
        /\ co'[c] \in Contexts
    <2>1. /\ [u \in {} |-> 0] \in [{} -> Nat]
          /\ [u \in {} |-> 0] \in [{} -> [idx : Nat, val : Value]]
      OBVIOUS
    <2>2. NoOrigins \in Indices /\ NoOrigins \in Saved
      BY <2>1 DEF NoOrigins, Indices, Saved
    <2>3. NoCo \in Contexts
      BY <2>2 DEF NoCo, Contexts, Threads
    <2> HIDE DEF c
    <2>4. Dead(c, status) = [NoCo EXCEPT !.st = status, !.creator = p]
      BY <1>2 DEF Dead
    <2>5. /\ Dead(c, status) \in Contexts /\ Dead(c, status).st = status
          /\ Dead(c, status).creator = p /\ Dead(c, status).body = NoCo.body
          /\ Dead(c, status).started = NoCo.started
      BY <1>2, <2>3, <2>4 DEF Contexts
    <2> QED
      BY <1>3, <2>5 DEF NoCo
  <1>5. \A t \in Threads : /\ Alive(t)' <=> Alive(t) /\ t # c
                           /\ Suspended(t)' <=> Suspended(t)
                           /\ Started(t)' <=> Started(t) /\ t # c
    <2>1. c # Main
      BY CoroutineConstants
    <2> QED
      BY <1>2, <1>3, <1>4, <2>1 DEF Alive, Suspended, Started, Threads
  <1>6. \A v \in Vars : var[v].home \in Threads /\ var[v].idx \in Nat
    BY VarFacts
  <1>7. LinksOK(c) /\ O \subseteq Vars
    BY <1>1, <1>2, CoFacts DEF LinkInv, Alive
  <1>8. \A u \in O : /\ var[u].live /\ var[u].home = p /\ ~var[u].tbc /\ cell[u].st = "closed"
    BY <1>2, <1>7 DEF LinksOK, Linked
  <1>9. Parents' = Parents
    <2>1. {d \in Coroutines : co'[d].st # "none"} = {d \in Coroutines : co[d].st # "none"}
      BY <1>2, <1>3, <1>4
    <2>2. \A d \in Coroutines : co'[d].creator = co[d].creator
      BY <1>2, <1>3, <1>4
    <2> QED
      BY <2>1, <2>2 DEF Parents
  <1>10. ChainInv'
    BY <1>3, <1>4, <1>9, PopChain
  <1>11. ContextTypes'
    <2>1. chain' \in Seq(Threads)
      BY PopFacts
    <2>2. co' \in [Coroutines -> Contexts]
      <3>1. Dead(Running, status) \in Contexts
        BY <1>3, <1>4
      <3>2. co \in [Coroutines -> Contexts]
        BY <1>1 DEF ContextTypes
      <3> QED
        BY <3>1, <3>2
    <2>3. frames' \in [Threads -> Seq(Frames)]
      <3>1. <<>> \in Seq(Frames) /\ frames \in [Threads -> Seq(Frames)]
        BY <1>1 DEF ContextTypes
      <3> QED
        BY <3>1
    <2>4. leaving' \in [Threads -> {"no", "return", "error"}]
      BY <1>1 DEF ContextTypes
    <2>5. reach' \in [Threads -> SUBSET Vars]
      BY <1>1 DEF ContextTypes
    <2> QED
      BY <2>1, <2>2, <2>3, <2>4, <2>5 DEF ContextTypes
  <1> HIDE DEF c, p, O
  <1>12. TreeInv'
    BY <1>1, <1>2, <1>3, <1>4, <1>5 DEF TreeInv, Threads
  <1>13. FrameInv'
    <2>1. \A t \in Threads : FramesOK(frames'[t], Len(stack'[t]))
      <3>1. FramesOK(<<>>, 0)
        BY DEF FramesOK
      <3> QED
        BY <1>1, <1>3, <3>1 DEF FrameInv, c
    <2>2. \A t \in Threads : leaving'[t] # "no" => frames'[t] # <<>>
      BY <1>1, <1>2, <1>3 DEF FrameInv
    <2>3. /\ frames'[Main] # <<>> => frames'[Main][1].guard = "armed"
          /\ \A d \in Coroutines : frames'[d] # <<>> => frames'[d][1].guard = "none"
      BY <1>1, <1>3 DEF FrameInv, Threads
    <2>4. \A d \in Coroutines : Started(d)' <=> frames'[d] # <<>>
      BY <1>1, <1>3, <1>5 DEF FrameInv, Threads
    <2>5. \A i \in 1..(Len(chain') - 1) : leaving'[chain'[i]] = "no" /\ frames'[chain'[i]] # <<>>
      <3> SUFFICES ASSUME NEW i \in 1..(Len(chain') - 1)
                   PROVE  leaving'[chain'[i]] = "no" /\ frames'[chain'[i]] # <<>>
        OBVIOUS
      <3>1. /\ i \in 1..Len(chain') /\ i \in 1..(Len(chain) - 1) /\ chain'[i] # p
            /\ chain'[i] = chain[i] /\ chain[i] \in Threads /\ chain[i] # c
        BY PopFacts DEF c, p
      <3>2. leaving[chain[i]] = "no" /\ frames[chain[i]] # <<>>
        BY <1>1, <3>1 DEF FrameInv
      <3> QED
        BY <1>3, <3>1, <3>2
    <2>6. frames'[Main] = frames[Main]
      BY <1>1, <1>3, CoroutineConstants DEF Threads, c
    <2>7. \A i \in 1..Len(frames'[Main]) : frames'[Main][i].guard # "yielded"
      BY <1>1, <2>6 DEF FrameInv
    <2> QED
      BY <2>1, <2>2, <2>3, <2>4, <2>5, <2>7 DEF FrameInv
  <1>14. HomeInv'
    BY <1>1, <1>5, <1>6 DEF HomeInv, c
  <1>15. ParkInv'
    BY <1>1, <1>2, <1>5, <1>6, <1>8 DEF ParkInv, c, O
  <1>16. AwayInv'
    <2> SUFFICES ASSUME NEW v \in Vars, var'[v].live, cell'[v].st = "closed"
                 PROVE  Going(v)' \/ Shared(v)' \/ Parked(v)'
      BY DEF AwayInv
    <2>1. v \notin O /\ cell[v].st = "closed" /\ var[v].live /\ var[v].home # c
      BY DEF c, O
    <2>2. Going(v) => Going(v)'
      <3>1. Going(v) => var[v].home # p
        BY <1>2 DEF Going
      <3>2. var'[v].home = var[v].home /\ var'[v].idx = var[v].idx
        OBVIOUS
      <3> QED
        <4> SUFFICES ASSUME Going(v) PROVE Going(v)'
          OBVIOUS
        <4>1. leaving'[var[v].home] = leaving[var[v].home]
              /\ frames'[var[v].home] = frames[var[v].home]
          BY <1>3, <1>6, <2>1, <3>1
        <4> QED
          BY <3>2, <4>1 DEF Going
    <2>3. Shared(v) => Shared(v)'
      <3> SUFFICES ASSUME NEW d \in Coroutines, co[d].st = "normal",
                          co[d].creator = var[v].home, v \in DOMAIN co[d].origins
                   PROVE  Shared(v)'
        BY DEF Shared
      <3>1. d # c
        BY <2>1 DEF O
      <3> QED
        BY <1>3, <3>1 DEF Shared
    <2>4. Parked(v) => Parked(v)'
      BY <1>3, <1>5, <1>6, <2>1 DEF Parked, Suspended
    <2> QED
      BY <1>1, <2>1, <2>2, <2>3, <2>4 DEF AwayInv
  <1>17. LinkInv'
    <2> SUFFICES ASSUME NEW d \in Coroutines, Alive(d)' PROVE LinksOK(d)'
      BY DEF LinkInv
    <2>1. /\ d # c /\ Alive(d) /\ co'[d] = co[d] /\ co[d].creator \in Threads
          /\ Alive(co[d].creator)' => co[d].creator # c /\ Alive(co[d].creator)
      BY <1>3, <1>5, CoFacts DEF Threads
    <2>2. LinksOK(d)
      BY <1>1, <2>1 DEF LinkInv
    <2>3. /\ DOMAIN co[d].origins \subseteq Vars /\ DOMAIN co[d].pending \subseteq Vars
          /\ DOMAIN co[d].inside \subseteq Vars
      BY CoFacts
    <2>4. ASSUME Alive(co[d].creator)', NEW u \in DOMAIN co[d].origins
          PROVE  Linked(u, co[d].creator, co[d].origins[u])' /\ cell'[u].st # "none"
      BY <1>6, <2>1, <2>2, <2>3, <2>4 DEF LinksOK, Linked, c
    <2>5. ASSUME Alive(co[d].creator)', NEW u \in DOMAIN co[d].pending
          PROVE  Linked(u, co[d].creator, co[d].pending[u].idx)' /\ cell'[u].st # "none"
      BY <1>6, <2>1, <2>2, <2>3, <2>5 DEF LinksOK, Linked, c
    <2>6. ASSUME co[d].st = "normal", NEW u \in DOMAIN co[d].origins
          PROVE  cell'[u].st = "closed"
      <3>1. Alive(co[d].creator)
        BY <2>6, CreatorWaits
      <3>2. var[u].home = co[d].creator /\ cell[u].st = "closed"
        BY <2>2, <2>6, <3>1 DEF LinksOK, Linked
      <3>3. u \notin O
        BY <1>2, <1>8, <2>1, <2>6, <3>2, OnlyChild DEF c
      <3> QED
        BY <2>3, <3>2, <3>3 DEF O, c
    <2>7. ASSUME NEW u \in DOMAIN co[d].inside
          PROVE  Linked(u, d, co[d].inside[u])' /\ cell'[u].st = "closed"
      <3>1. Linked(u, d, co[d].inside[u]) /\ cell[u].st = "closed"
        BY <2>2 DEF LinksOK
      <3>2. co[d].st = "suspended"
        BY <2>1, <2>2, CoroutineConstants DEF LinksOK, Alive
      <3>3. u \notin O
        BY <1>2, <1>8, <3>1, <3>2 DEF Linked, Suspended
      <3> QED
        BY <2>1, <3>1, <3>3 DEF Linked, c, O
    <2> QED
      BY <2>1, <2>2, <2>4, <2>5, <2>6, <2>7 DEF LinksOK
  <1>18. LeaveInv'
    <2> SUFFICES ASSUME NEW t \in Threads, leaving'[t] # "no"
                 PROVE  Apart(t)' /\ (leaving'[t] = "error" => Clean(t)')
      BY DEF LeaveInv
    <2>1. t # c
      BY <1>3
    <2>2. ASSUME NEW d \in Coroutines, Alive(d)' PROVE d # c /\ Alive(d) /\ co'[d] = co[d]
      BY <1>3, <1>5, <2>2 DEF Threads
    <2>3. ASSUME NEW v \in Vars, Parked(v)' PROVE Parked(v)
      BY <1>3, <1>5, <1>6, <2>3, <1>2 DEF Parked, Suspended
    <2>4. CASE t # p
      <3>1. leaving'[t] = leaving[t] /\ frames'[t] = frames[t]
        BY <1>3, <2>1, <2>4
      <3>2. Apart(t) /\ (leaving[t] = "error" => Clean(t))
        BY <1>1, <3>1 DEF LeaveInv
      <3>3. Apart(t)'
        BY <2>2, <3>1, <3>2, CoFacts DEF Apart
      <3>4. leaving[t] = "error" => Clean(t)'
        BY <1>8, <2>3, <2>4, <3>1, <3>2 DEF Clean, O, c
      <3> QED
        BY <3>1, <3>3, <3>4
    <2>5. CASE t = p
      <3> DEFINE f == frames[p]
                 b == BaseIn(f)
      <3>1. why = "error" /\ leaving'[t] = "error" /\ frames'[t] = f
        BY <1>2, <1>3, <2>5, ZenonT(40)
      <3>2. b \in Nat
        BY <1>1, <1>2, LevelFacts, VarFacts DEF FrameInv
      <3>3. Machine'.var = var' /\ Machine'.cell = cell'
        BY DEF Machine
      <3>4. Apart(t)'
        <4> SUFFICES ASSUME NEW d \in Coroutines, Alive(d)', co'[d].creator = p,
                            NEW u \in DOMAIN co'[d].origins \cup DOMAIN co'[d].pending
                     PROVE  var'[u].idx < b
          BY <2>5, <3>1 DEF Apart, LeaveBaseIn
        <4>1. d # c /\ Alive(d) /\ co'[d] = co[d]
          BY <2>2
        <4>2. co[d].st \in {"suspended", "normal"} /\ u \in Vars
          BY <4>1, CoroutineConstants, CoFacts DEF Alive
        <4>3. var'[u].home = p /\ cell[u].st # "none" /\ var[u].live /\ var[u].home = p
          BY <1>1, <1>2, <4>1, <4>2 DEF LinkInv, LinksOK, Linked
        <4>4. cell'[u].st = "open"
          <5> SUFFICES ASSUME u \notin O, cell[u].st = "closed" PROVE FALSE
            BY <4>2, <4>3, VarFacts DEF c, O
          <5>1. ~Going(u) /\ ~Parked(u)
            BY <1>2, <4>3 DEF Going, Parked
          <5>2. Shared(u)
            BY <1>1, <4>2, <4>3, <5>1 DEF AwayInv
          <5>3. PICK e \in Coroutines : /\ co[e].st = "normal" /\ co[e].creator = p
                                        /\ u \in DOMAIN co[e].origins
            BY <4>3, <5>2 DEF Shared
          <5>4. e = c
            BY <1>2, <5>3, OnlyChild DEF c
          <5> QED
            BY <5>3, <5>4 DEF O
        <4>5. co'[d].st \in {"suspended", "normal"}
          BY <4>1, <4>2
        <4> DEFINE m == Machine'
                   x == co'
        <4> HIDE DEF b, f
        <4>6. ~SharesFrame(x, m, p, b)
          BY <3>1 DEF b, f, p
        <4>7. MachineInv(m) /\ m.var = var' /\ m.cell = cell' /\ x = co'
          BY <3>3
        <4> HIDE DEF m, x
        <4>8. /\ m.var[u].home = p /\ Is(m, u, "open") /\ x[d].st \in {"suspended", "normal"}
              /\ u \in DOMAIN x[d].origins \cup DOMAIN x[d].pending
          BY <4>3, <4>4, <4>5, <4>7 DEF Is
        <4>9. m.var[u].idx < b
          BY <1>2, <3>2, <4>2, <4>6, <4>7, <4>8, ApartFrom, ZenonT(40)
        <4> QED
          BY <4>7, <4>9
      <3>5. Clean(t)'
        <4> SUFFICES ASSUME NEW v \in Vars, var'[v].home = p,
                            cell'[v].st = "open" \/ Parked(v)', var'[v].idx >= BaseIn(f)
                     PROVE  var'[v].idx >= ErrorLevelIn(f)
          BY <2>5, <3>1 DEF Clean
        <4>1. ~Parked(v)'
          BY <1>2, <1>5 DEF Parked
        <4> QED
          BY <1>2, <3>1, <3>3, <4>1, CleanFrom, ZenonT(40) DEF Is, p
      <3> QED
        BY <3>4, <3>5
    <2> QED
      BY <2>4, <2>5
  <1>19. ReachInv'
    <2>1. \A t : Above(t)' = Above(t)
      BY <1>9 DEF Above
    <2>2. /\ \A t \in Threads : reach'[t] \subseteq reach[t] /\ reach[t] \subseteq Vars
          /\ \A d \in Coroutines : co[d].body \subseteq Vars /\ co[d].creator \in Threads
      BY <1>1, <1>3, CoFacts DEF ContextTypes
    <2>3. \A t \in Threads : Captured(reach[t])'
      BY <1>1, <2>2 DEF ReachInv, Captured
    <2> SUFFICES ASSUME NEW d \in Coroutines
                 PROVE  /\ Captured(co[d].body)'
                        /\ Alive(d)' /\ ~co'[d].started /\ Alive(co[d].creator)' => Given(d)'
                        /\ ~Started(d)' => reach'[d] = {}
                        /\ Started(d)' => \A t \in Threads : d \in Above(t)' => Below(d, t)'
      BY <2>3 DEF ReachInv
    <2>4. CASE d = c
      BY <1>3, <1>4, <1>5, <2>4 DEF Captured, Threads
    <2>5. CASE d # c
      <3>1. co'[d] = co[d] /\ d \in Threads
        BY <1>3, <2>5 DEF Threads
      <3>2. Captured(co[d].body)'
        BY <1>1, <2>2, <3>1 DEF ReachInv, Captured
      <3>3. Alive(d)' /\ ~co'[d].started /\ Alive(co[d].creator)' => Given(d)'
        BY <1>1, <1>3, <1>5, <2>2, <3>1 DEF ReachInv, Given
      <3>4. ~Started(d)' => reach'[d] = {}
        BY <1>1, <1>3, <1>5, <2>5, <3>1 DEF ReachInv
      <3>5. Started(d)' => \A t \in Threads : d \in Above(t)' => Below(d, t)'
        BY <1>1, <1>5, <2>1, <2>2, <3>1 DEF ReachInv, Below
      <3> QED
        BY <3>2, <3>3, <3>4, <3>5
    <2> QED
      BY <2>4, <2>5
  <1> QED
    BY <1>10, <1>11, <1>12, <1>13, <1>14, <1>15, <1>16, <1>17, <1>18, <1>19 DEF ContextInv

(* A coroutine is made, with a body that captures the variables S.           *)
LEMMA CreateStep ==
  ASSUME MachineInv(Machine), MachineInv(Machine'), ContextInv, leaving[Running] = "no",
         NEW c \in Coroutines, co[c].st = "none", NEW S \in SUBSET Vars,
         \A v \in S : /\ v \in reach[Running] \/ (var[v].live /\ var[v].home = Running)
                      /\ ~var[v].tbc,
         NEW x \in Contexts, co' = [co EXCEPT ![c] = x],
         x.st = "suspended", ~x.started, x.creator = Running, x.body = S,
         DOMAIN x.origins = {}, DOMAIN x.inside = {},
         DOMAIN x.pending = IF x.wrap THEN {u \in S : cell'[u].st = "open"} ELSE {},
         \A u \in DOMAIN x.pending : x.pending[u].idx = var[u].idx,
         \A v \in Vars :
           /\ SameVar(v)
           /\ cell'[v].st = IF v \in S /\ var[v].live /\ var[v].home = Running
                            THEN "open" ELSE cell[v].st,
         \A t \in Threads : Len(stack'[t]) = Len(stack[t]),
         chain' = chain, frames' = frames, leaving' = leaving, reach' = reach
  PROVE  ContextInv'
  <1>1. /\ ContextTypes /\ ChainInv /\ TreeInv /\ FrameInv /\ HomeInv
        /\ AwayInv /\ LinkInv /\ ParkInv /\ LeaveInv /\ ReachInv
    BY DEF ContextInv
  <1>2. /\ Running \in Threads /\ Alive(Running) /\ ~Suspended(Running)
        /\ Running # c /\ c \in Threads /\ Main # c
        /\ Running \in Coroutines => co[Running].st = "normal" /\ co[Running].started
    BY RunFacts, CoroutineConstants DEF Threads
  <1>3. co \in [Coroutines -> Contexts]
    BY <1>1 DEF ContextTypes
  <1>4. co'[c] = x /\ \A d \in Coroutines : d # c => co'[d] = co[d]
    BY <1>3
  <1>5. \A t \in Threads : /\ Alive(t)' <=> Alive(t) \/ t = c
                           /\ Suspended(t)' <=> Suspended(t) \/ t = c
                           /\ Started(t)' <=> Started(t)
                           /\ t = c => ~Alive(t)
    BY <1>2, <1>4 DEF Alive, Suspended, Started, Threads
  <1>6. \A v \in Vars : var[v].home \in Threads /\ var[v].idx \in Nat
    BY VarFacts
  <1>7. \A v \in Vars : var[v].live => var[v].home # c
    BY <1>1, <1>2, <1>5 DEF HomeInv
  <1>8. \A d \in Coroutines : co[d].st # "none" => co[d].creator # c
    BY <1>1 DEF TreeInv
  <1>9. \A t \in Threads : t # c => Above(t)' = Above(t)
    <2> DEFINE new == Parents'
    <2>1. /\ DOMAIN Parents = {d \in Coroutines : co[d].st # "none"}
          /\ \A d \in DOMAIN Parents : Parents[d] = co[d].creator
      BY DEF Parents
    <2>2. /\ DOMAIN new = {d \in Coroutines : co'[d].st # "none"}
          /\ \A d \in DOMAIN new : new[d] = co'[d].creator
      BY DEF Parents
    <2>3. /\ c \notin DOMAIN Parents /\ DOMAIN new = DOMAIN Parents \cup {c}
          /\ \A d \in DOMAIN Parents : new[d] = Parents[d] /\ Parents[d] # c
      BY <1>4, <1>8, <2>1, <2>2
    <2> DEFINE par == Parents
    <2> HIDE DEF new, par
    <2>4. ASSUME NEW t \in Threads, t # c PROVE AboveIn(new, t) = AboveIn(par, t)
      <3>1. LeafAdded(par, c, new)
        BY <2>3 DEF par, LeafAdded
      <3>2. c \in Threads /\ t \in Threads /\ t # c
        BY <1>2, <2>4
      <3> QED
        BY <3>1, <3>2, AboveExtend
    <2> QED
      BY <2>4 DEF Above, new, par
  <1>10. ContextTypes'
    <2>1. co' \in [Coroutines -> Contexts]
      BY <1>3
    <2> QED
      BY <1>1, <2>1 DEF ContextTypes
  <1>11. ChainInv'
    <2>1. \A i \in 2..Len(chain) : chain[i] # c
      BY <1>1 DEF ChainInv
    <2>2. Len(chain) \in Nat /\ Len(chain) >= 1
      BY RunFacts
    <2>3. \A i \in 1..Len(chain) : chain[i] \in Threads
      BY <1>1 DEF ContextTypes
    <2>4. \A i \in 1..Len(chain) : chain[i] # c
      <3>1. \A i \in 1..Len(chain) : i = 1 \/ i \in 2..Len(chain)
        BY <2>2
      <3> QED
        BY <1>1, <1>2, <2>1, <3>1 DEF ChainInv
    <2>5. \A i \in 1..Len(chain) : Above(chain[i])' = Above(chain[i])
      BY <1>9, <2>3, <2>4
    <2> QED
      BY <1>1, <1>4, <2>1, <2>5 DEF ChainInv
  <1>12. TreeInv'
    <2>1. \A d \in Coroutines : co[d].creator \in Threads
      BY CoFacts
    <2> QED
      BY <1>1, <1>2, <1>4, <1>5, <1>8, <2>1 DEF TreeInv
  <1>13. FrameInv'
    <2>1. \A d \in Coroutines : Started(d)' <=> Started(d)
      BY <1>5 DEF Threads
    <2> QED
      BY <1>1, <2>1 DEF FrameInv
  <1>14. HomeInv'
    BY <1>1, <1>5, <1>6 DEF HomeInv, SameVar
  <1>15. ParkInv'
    <2>1. \A v \in Vars : cell[v].st = "open" => var[v].live
      BY VarFacts
    <2> QED
      BY <1>1, <1>2, <1>5, <1>6, <1>7, <2>1 DEF ParkInv, SameVar
  <1>16. \A v \in Vars : var[v].live => (Parked(v)' <=> Parked(v))
    BY <1>4, <1>5, <1>6, <1>7 DEF Parked, Suspended, SameVar
  <1>17. AwayInv'
    <2> SUFFICES ASSUME NEW v \in Vars, var[v].live, cell'[v].st = "closed"
                 PROVE  Going(v)' \/ Shared(v)' \/ Parked(v)'
      BY DEF AwayInv, SameVar
    <2>1. cell[v].st = "closed"
      OBVIOUS
    <2>2. Going(v) => Going(v)'
      BY DEF Going, SameVar
    <2>3. Shared(v) => Shared(v)'
      <3> SUFFICES ASSUME NEW d \in Coroutines, co[d].st = "normal",
                          co[d].creator = var[v].home, v \in DOMAIN co[d].origins
                   PROVE  Shared(v)'
        BY DEF Shared
      <3>1. co'[d] = co[d]
        BY <1>4
      <3> QED
        BY <3>1 DEF Shared, SameVar
    <2> QED
      BY <1>1, <1>16, <2>1, <2>2, <2>3 DEF AwayInv
  <1>18. LinkInv'
    <2> SUFFICES ASSUME NEW d \in Coroutines, Alive(d)' PROVE LinksOK(d)'
      BY DEF LinkInv
    <2>1. CASE d = c
      <3>1. ASSUME NEW u \in DOMAIN x.pending
            PROVE  /\ u \in Vars /\ var'[u].live /\ ~var'[u].tbc /\ var'[u].home = Running
                   /\ x.pending[u].idx = var'[u].idx /\ cell'[u].st # "none"
        <4>1. u \in S /\ cell'[u].st = "open" /\ u \in Vars /\ ~var[u].tbc
          BY <3>1
        <4>2. var[u].live /\ var[u].home = Running
          BY <4>1, OwnCells, VarFacts
        <4> QED
          BY <4>1, <4>2 DEF SameVar
      <3>2. x.wrap \in BOOLEAN
        BY ContextFields
      <3> QED
        BY <1>4, <2>1, <3>1, <3>2 DEF LinksOK, Linked
    <2>2. CASE d # c
      <3>1. /\ Alive(d) /\ co'[d] = co[d]
            /\ co[d].creator \in Threads /\ co[d].creator # c
            /\ Alive(co[d].creator)' <=> Alive(co[d].creator)
        <4>1. Alive(d) /\ co'[d] = co[d] /\ co[d].creator \in Threads
          BY <1>4, <1>5, <2>2, CoFacts DEF Threads
        <4>2. co[d].creator # c
          BY <1>8, <4>1, CoroutineConstants DEF Alive
        <4> QED
          BY <1>4, <1>5, <4>1, <4>2
      <3>2. LinksOK(d)
        BY <1>1, <3>1 DEF LinkInv
      <3>3. /\ DOMAIN co[d].origins \subseteq Vars /\ DOMAIN co[d].pending \subseteq Vars
            /\ DOMAIN co[d].inside \subseteq Vars
        BY CoFacts
      <3>4. \A u \in Vars : /\ cell[u].st # "none" => cell'[u].st # "none"
                            /\ cell[u].st = "closed" => cell'[u].st = "closed"
        <4>1. \A u \in Vars : var[u].live /\ var[u].home = Running => cell[u].st # "closed"
          BY OwnCells
        <4> QED
          BY <4>1
      <3> QED
        BY <3>1, <3>2, <3>3, <3>4 DEF LinksOK, Linked, SameVar
    <2> QED
      BY <2>1, <2>2
  <1>19. LeaveInv'
    <2> SUFFICES ASSUME NEW t \in Threads, leaving[t] # "no"
                 PROVE  Apart(t)' /\ (leaving[t] = "error" => Clean(t)')
      BY DEF LeaveInv
    <2>1. Apart(t) /\ (leaving[t] = "error" => Clean(t)) /\ t # Running
      BY <1>1 DEF LeaveInv
    <2>2. t # c
      BY <1>5, LeavingAlive
    <2>3. Apart(t)'
      <3> SUFFICES ASSUME NEW d \in Coroutines, Alive(d)', co'[d].creator = t,
                          NEW u \in DOMAIN co'[d].origins \cup DOMAIN co'[d].pending
                   PROVE  var'[u].idx < LeaveBaseIn(frames[t], leaving[t])
        BY DEF Apart
      <3>1. d # c
        BY <1>4, <2>1
      <3>2. co'[d] = co[d] /\ Alive(d)
        BY <1>4, <1>5, <3>1 DEF Threads
      <3>3. u \in Vars
        BY <3>2, CoFacts
      <3> QED
        BY <2>1, <3>2, <3>3 DEF Apart, SameVar
    <2>4. ASSUME leaving[t] = "error" PROVE Clean(t)'
      <3> SUFFICES ASSUME NEW v \in Vars, var[v].home = t,
                          cell'[v].st = "open" \/ Parked(v)', var[v].idx >= BaseIn(frames[t])
                   PROVE  var[v].idx >= ErrorLevelIn(frames[t])
        BY DEF Clean, SameVar
      <3>1. Parked(v)' => Parked(v)
        BY <1>4, <1>5, <2>2, <1>6 DEF Parked, Suspended, SameVar
      <3>2. cell'[v].st = "open" => cell[v].st = "open"
        BY <2>1
      <3> QED
        BY <2>1, <2>4, <3>1, <3>2 DEF Clean
    <2> QED
      BY <2>3, <2>4
  <1>20. ReachInv'
    <2>1. \A t \in Threads : Captured(reach[t])'
      BY <1>1, ZenonT(40) DEF ReachInv, Captured, SameVar, ContextTypes
    <2> SUFFICES ASSUME NEW d \in Coroutines
                 PROVE  /\ Captured(co[d].body)'
                        /\ Alive(d)' /\ ~co'[d].started /\ Alive(co[d].creator)' => Given(d)'
                        /\ ~Started(d)' => reach'[d] = {}
                        /\ Started(d)' => \A t \in Threads : d \in Above(t)' => Below(d, t)'
      BY <2>1 DEF ReachInv
    <2>2. /\ Captured(reach[Running]) /\ reach[Running] \subseteq Vars
          /\ d \in Threads
      BY <1>1, <1>2 DEF ReachInv, ContextTypes, Threads
    <2>3. CASE d = c
      <3>1. Captured(co[d].body)'
        BY <1>4, <2>2, <2>3 DEF Captured, SameVar
      <3>2. Given(d)'
        <4> SUFFICES ASSUME NEW v \in S
                     PROVE  /\ v \in reach[Running] \/ var'[v].home = Running
                            /\ x.wrap /\ var'[v].home = Running /\ var'[v].live =>
                                 v \in DOMAIN x.pending
          BY <1>4, <2>3 DEF Given
        <4> QED
          BY DEF SameVar
      <3>3. ~Started(d) /\ ~Started(d)'
        BY <1>5, <2>2, <2>3 DEF Started
      <3> QED
        BY <1>1, <3>1, <3>2, <3>3 DEF ReachInv
    <2>4. CASE d # c
      <3>1. co'[d] = co[d] /\ (Alive(d)' <=> Alive(d)) /\ (Started(d)' <=> Started(d))
        BY <1>4, <1>5, <2>2, <2>4
      <3>2. Captured(co[d].body)'
        BY <1>1, <3>1, CoFacts DEF ReachInv, Captured, SameVar
      <3>3. Alive(d)' /\ ~co'[d].started /\ Alive(co[d].creator)' => Given(d)'
        <4> SUFFICES ASSUME Alive(d), ~co[d].started, Alive(co[d].creator)'
                     PROVE  Given(d)'
          BY <3>1
        <4>1. co[d].creator # c /\ co[d].creator \in Threads
          BY <1>8, CoFacts, CoroutineConstants DEF Alive
        <4>2. Alive(co[d].creator)
          BY <1>4, <1>5, <3>1, <4>1
        <4>3. Given(d)
          BY <1>1, <4>2 DEF ReachInv
        <4> QED
          BY <3>1, <4>3, CoFacts DEF Given, SameVar
      <3>4. ~Started(d)' => reach'[d] = {}
        BY <1>1, <3>1 DEF ReachInv
      <3>5. ASSUME Started(d)', NEW t \in Threads, d \in Above(t)' PROVE Below(d, t)'
        <4>1. CASE t = c
          <5>1. reach[c] = {}
            BY <1>1, <1>5, <4>1 DEF ReachInv, Started
          <5> QED
            BY <4>1, <5>1 DEF Below
        <4>2. CASE t # c
          <5>1. Below(d, t)
            BY <1>1, <1>9, <3>1, <3>5, <4>2 DEF ReachInv
          <5>2. reach[t] \subseteq Vars
            BY <1>1 DEF ContextTypes
          <5> QED
            BY <3>1, <5>1, <5>2 DEF Below, SameVar
        <4> QED
          BY <4>1, <4>2
      <3> QED
        BY <3>2, <3>3, <3>4, <3>5
    <2> QED
      BY <2>3, <2>4
  <1> QED
    BY <1>10, <1>11, <1>12, <1>13, <1>14, <1>15, <1>17, <1>18, <1>19, <1>20 DEF ContextInv

(* A coroutine is resumed: it joins the chain.                               *)
LEMMA PushFacts ==
  ASSUME ContextInv, NEW c \in Coroutines, co[c].st = "suspended", chain' = Append(chain, c)
  PROVE  /\ chain' \in Seq(Threads) /\ Len(chain') = Len(chain) + 1
         /\ Len(chain) \in Nat \ {0} /\ chain'[Len(chain) + 1] = c
         /\ \A i \in 1..Len(chain) : /\ chain'[i] = chain[i] /\ chain[i] \in Threads
                                     /\ chain[i] # c /\ i \in 1..Len(chain')
                                     /\ Upto(chain', i) = Upto(chain, i)
         /\ \A i \in 1..Len(chain') : i \in 1..Len(chain) \/ i = Len(chain) + 1
         /\ Upto(chain', Len(chain) + 1) = Upto(chain, Len(chain)) \cup {c}
  <1> DEFINE n == Len(chain)
  <1>1. chain \in Seq(Threads) /\ n \in Nat \ {0} /\ c \in Threads
    BY RunFacts DEF ContextInv, ContextTypes, Threads
  <1>2. /\ chain' \in Seq(Threads) /\ Len(chain') = n + 1 /\ chain'[n + 1] = c
        /\ \A i \in 1..n : chain'[i] = chain[i]
    BY <1>1
  <1>3. \A i \in 1..n : chain[i] \in Threads
    BY <1>1
  <1>4. \A i \in 1..n : chain[i] # c
    <2> SUFFICES ASSUME NEW i \in 1..n PROVE chain[i] # c
      OBVIOUS
    <2>1. CASE i = 1
      BY <2>1, CoroutineConstants DEF ContextInv, ChainInv
    <2>2. CASE i # 1
      <3>1. i \in 2..n
        BY <1>1, <2>2
      <3> QED
        BY <3>1 DEF ContextInv, ChainInv
    <2> QED
      BY <2>1, <2>2
  <1> HIDE DEF n
  <1>5. \A i \in 1..(n + 1) : i \in 1..n \/ i = n + 1
    BY <1>1
  <1>6. \A i \in 1..n : i \in 1..(n + 1)
    BY <1>1
  <1>7. ASSUME NEW i \in 1..n PROVE Upto(chain', i) = Upto(chain, i)
    <2>1. \A j \in 1..i : chain'[j] = chain[j]
      BY <1>1, <1>2
    <2> QED
      BY <2>1 DEF Upto
  <1>8. Upto(chain', n + 1) = Upto(chain, n) \cup {c}
    <2>1. /\ \A j \in 1..n : j \in 1..(n + 1) /\ chain'[j] = chain[j]
          /\ n + 1 \in 1..(n + 1)
      BY <1>1, <1>2
    <2> QED
      BY <1>2, <1>5, <2>1 DEF Upto
  <1> QED
    BY <1>1, <1>2, <1>3, <1>4, <1>5, <1>6, <1>7, <1>8 DEF n

LEMMA PushChain ==
  ASSUME ContextInv, NEW c \in Coroutines, co[c].st = "suspended", chain' = Append(chain, c),
         co[c].creator = Running, Parents' = Parents,
         \A d \in Coroutines : d # c => co'[d] = co[d],
         co'[c].st = "normal", co'[c].creator = Running
  PROVE  ChainInv'
  <1> DEFINE n == Len(chain)
  <1>1. ChainInv /\ n \in Nat \ {0} /\ Len(chain') = n + 1 /\ chain'[n + 1] = c
    BY PushFacts DEF ContextInv
  <1>2. \A i \in 1..n : chain'[i] = chain[i] /\ chain[i] # c /\ chain[i] \in Threads
    BY PushFacts
  <1>3. Running = chain[n] /\ Running \in Threads
    BY RunFacts
  <1>4. Len(chain') >= 1 /\ chain'[1] = Main
    BY <1>1, <1>2 DEF ChainInv
  <1>5. ASSUME NEW i \in 2..(n + 1)
        PROVE  /\ chain'[i] \in Coroutines /\ co'[chain'[i]].st = "normal"
               /\ co'[chain'[i]].creator = chain'[i - 1]
    <2>1. i - 1 \in 1..n /\ (i = n + 1 \/ i \in 2..n) /\ (n + 1) - 1 = n /\ n \in 1..n
      BY <1>1
    <2>2. CASE i = n + 1
      BY <1>1, <1>2, <1>3, <2>1, <2>2
    <2>3. CASE i \in 2..n
      <3>1. i \in 1..n
        BY <2>3, <1>1
      <3>2. /\ chain'[i] = chain[i] /\ chain'[i - 1] = chain[i - 1] /\ chain[i] # c
        BY <1>2, <2>1, <3>1
      <3> QED
        BY <1>1, <2>3, <3>2 DEF ChainInv
    <2> QED
      BY <2>1, <2>2, <2>3
  <1>6. \A i, j \in 1..(n + 1) : chain'[i] = chain'[j] => i = j
    <2>1. \A i \in 1..(n + 1) : i \in 1..n \/ i = n + 1
      BY <1>1
    <2>2. \A i, j \in 1..n : chain[i] = chain[j] => i = j
      BY <1>1 DEF ChainInv
    <2> HIDE DEF n
    <2> QED
      BY <1>1, <1>2, <2>1, <2>2
  <1>7. ASSUME NEW d \in Coroutines, co'[d].st = "normal"
        PROVE  \E i \in 2..(n + 1) : chain'[i] = d
    <2>1. CASE d = c
      <3>1. n + 1 \in 2..(n + 1)
        BY <1>1
      <3> QED
        BY <1>1, <2>1, <3>1
    <2>2. CASE d # c
      <3>1. PICK i \in 2..n : chain[i] = d
        BY <1>1, <1>7, <2>2 DEF ChainInv
      <3>2. i \in 1..n /\ i \in 2..(n + 1)
        BY <1>1
      <3> QED
        BY <1>2, <3>1, <3>2
    <2> QED
      BY <2>1, <2>2
  <1>8. Above(c) = Above(Running) \cup {c}
    <2> DEFINE par == Parents
    <2>1. /\ c \in DOMAIN par /\ par[c] = Running /\ c \in Threads
          /\ \A d \in DOMAIN par : par[d] \in Threads
      BY CoFacts DEF Parents, Threads
    <2> HIDE DEF par
    <2>2. AboveIn(par, c) = {c} \cup AboveIn(par, Running)
      BY <2>1, AboveStep
    <2> QED
      BY <2>2 DEF Above, par
  <1>9. \A i \in 1..n : Above(chain[i])' = Upto(chain', i)
    <2>1. \A i \in 1..n : Above(chain[i]) = Upto(chain', i)
      BY <1>1, PushFacts DEF ChainInv
    <2> QED
      BY <1>2, <2>1 DEF Above
  <1>10. AboveIn(Parents', c) = Upto(chain', n + 1)
    <2>1. n \in 1..n
      BY <1>1
    <2>2. Above(Running) = Upto(chain, n)
      BY <1>1, <1>3, <2>1 DEF ChainInv
    <2> QED
      BY <1>8, <2>2, PushFacts DEF Above
  <1>11. \A i \in 1..(n + 1) : AboveIn(Parents', chain'[i]) = Upto(chain', i)
    <2>1. \A i \in 1..(n + 1) : i \in 1..n \/ i = n + 1
      BY <1>1
    <2>2. \A i \in 1..n : AboveIn(Parents', chain'[i]) = Upto(chain', i)
      BY <1>9 DEF Above
    <2> HIDE DEF n
    <2> QED
      BY <1>1, <1>10, <2>1, <2>2
  <1> QED
    BY <1>1, <1>4, <1>5, <1>6, <1>7, <1>11 DEF ChainInv, Above

(* Those that made the running thread wait for it.                           *)
LEMMA RunningAbove ==
  ASSUME ContextInv, NEW d \in Coroutines, d \in Above(Running)
  PROVE  co[d].st = "normal"
  <1>1. Len(chain) \in Nat \ {0} /\ Running = chain[Len(chain)]
    BY RunFacts
  <1>2. Len(chain) \in 1..Len(chain)
    BY <1>1
  <1>3. Above(Running) = Upto(chain, Len(chain))
    BY <1>1, <1>2 DEF ContextInv, ChainInv
  <1>4. PICK i \in 1..Len(chain) : chain[i] = d
    BY <1>3 DEF Upto
  <1>5. i # 1
    BY <1>4, CoroutineConstants DEF ContextInv, ChainInv
  <1>6. i \in 2..Len(chain)
    BY <1>1, <1>5
  <1> QED
    BY <1>4, <1>6 DEF ContextInv, ChainInv

(* A coroutine that did not start has made no other.                         *)
LEMMA NoneBelow ==
  ASSUME ContextInv, NEW c \in Coroutines, Alive(c), ~co[c].started, NEW t \in Threads, t # c
  PROVE  c \notin Above(t)
  <1> DEFINE S == Threads \ {c}
  <1>1. \A d \in Coroutines : co[d].st # "none" => co[d].creator # c /\ co[d].creator \in Threads
    BY CoFacts DEF ContextInv, TreeInv
  <1>2. Rising(Parents, S)
    BY <1>1 DEF Rising, Parents
  <1>3. S \in SUBSET Threads /\ t \in S
    OBVIOUS
  <1> HIDE DEF S
  <1>4. Above(t) \subseteq S
    BY <1>2, <1>3 DEF Above, AboveIn
  <1> QED
    BY <1>4 DEF S

(* A coroutine is resumed by the thread that made it: the cells they share   *)
(* close, and its own open again.                                            *)
LEMMA ResumeStep ==
  ASSUME MachineInv(Machine), MachineInv(Machine'), ContextInv,
         leaving[Running] = "no", frames[Running] # <<>>,
         NEW c \in Coroutines, co[c].st = "suspended", co[c].creator = Running,
         NEW x \in Contexts, co' = [co EXCEPT ![c] = x],
         x.st = "normal", x.started, x.creator = Running,
         DOMAIN x.inside = {}, x.body = {}, DOMAIN x.pending = {},
         \A u \in DOMAIN x.origins : Linked(u, Running, x.origins[u]),
         co[c].started => x.origins = co[c].origins,
         ~co[c].started => \A v \in co[c].body :
            var[v].live /\ var[v].home = Running => v \in DOMAIN x.origins,
         \A v \in Vars :
           /\ SameVar(v)
           /\ cell'[v].st = IF v \in DOMAIN co[c].inside THEN "open"
                            ELSE IF v \in DOMAIN x.origins THEN "closed" ELSE cell[v].st,
         \A t \in Threads : Len(stack'[t]) = Len(stack[t]),
         frames' = IF co[c].started THEN frames
                   ELSE [frames EXCEPT ![c] = <<[base |-> 1, guard |-> "none"]>>],
         reach' = [reach EXCEPT ![c] = reach[c] \cup (IF co[c].started THEN {} ELSE co[c].body)],
         chain' = Append(chain, c), leaving' = leaving
  PROVE  ContextInv'
  <1> DEFINE p == Running
             I == DOMAIN co[c].inside
             O == DOMAIN x.origins
  <1>1. /\ ContextTypes /\ ChainInv /\ TreeInv /\ FrameInv /\ HomeInv
        /\ AwayInv /\ LinkInv /\ ParkInv /\ LeaveInv /\ ReachInv
    BY DEF ContextInv
  <1>2. /\ p \in Threads /\ Alive(p) /\ ~Suspended(p) /\ p # c /\ c \in Threads /\ c # Main
        /\ Alive(c) /\ Suspended(c)
        /\ p \in Coroutines => co[p].st = "normal" /\ co[p].started
    BY RunFacts, CoroutineConstants DEF Threads, Suspended, Alive
  <1>3. /\ co \in [Coroutines -> Contexts] /\ frames \in [Threads -> Seq(Frames)]
        /\ reach \in [Threads -> SUBSET Vars]
    BY <1>1 DEF ContextTypes
  <1>4. /\ co'[c] = x /\ \A d \in Coroutines : d # c => co'[d] = co[d]
        /\ reach'[c] = reach[c] \cup (IF co[c].started THEN {} ELSE co[c].body)
        /\ \A t \in Threads : t # c => reach'[t] = reach[t] /\ frames'[t] = frames[t]
        /\ frames'[c] = IF co[c].started THEN frames[c] ELSE <<[base |-> 1, guard |-> "none"]>>
    BY <1>2, <1>3
  <1>5. \A t \in Threads : /\ Alive(t)' <=> Alive(t)
                           /\ Suspended(t)' <=> Suspended(t) /\ t # c
                           /\ Started(t)' <=> Started(t) \/ t = c
    BY <1>2, <1>4 DEF Alive, Suspended, Started, Threads
  <1>6. \A v \in Vars : var[v].home \in Threads /\ var[v].idx \in Nat
    BY VarFacts
  <1>7. LinksOK(c) /\ I \subseteq Vars /\ O \subseteq Vars
    BY <1>1, <1>2, CoFacts, ContextFields DEF LinkInv
  <1>8. /\ \A u \in I : var[u].live /\ var[u].home = c /\ ~var[u].tbc /\ cell[u].st = "closed"
        /\ \A u \in O : /\ var[u].live /\ var[u].home = p /\ ~var[u].tbc
                        /\ x.origins[u] = var[u].idx
    BY <1>7 DEF LinksOK, Linked
  <1>9. Parents' = Parents
    <2>1. {d \in Coroutines : co'[d].st # "none"} = {d \in Coroutines : co[d].st # "none"}
      BY <1>4
    <2>2. \A d \in Coroutines : co'[d].creator = co[d].creator
      BY <1>4
    <2> QED
      BY <2>1, <2>2 DEF Parents
  <1>10. ChainInv'
    BY <1>4, <1>9, PushChain
  <1>11. ContextTypes'
    <2>1. chain' \in Seq(Threads)
      BY PushFacts
    <2>2. co' \in [Coroutines -> Contexts]
      BY <1>3
    <2>3. frames' \in [Threads -> Seq(Frames)]
      <3>1. <<[base |-> 1, guard |-> "none"]>> \in Seq(Frames)
        BY DEF Frames
      <3> QED
        BY <1>3, <3>1
    <2>4. reach' \in [Threads -> SUBSET Vars]
      <3>1. co[c].body \subseteq Vars
        BY CoFacts
      <3> QED
        BY <1>3, <3>1
    <2> QED
      BY <1>1, <2>1, <2>2, <2>3, <2>4 DEF ContextTypes
  <1> HIDE DEF p, I, O
  <1>12. TreeInv'
    BY <1>1, <1>2, <1>4, <1>5 DEF TreeInv, p, Threads
  <1>13. FrameInv'
    <2>1. \A t \in Threads : FramesOK(frames'[t], Len(stack'[t]))
      <3>1. FramesOK(<<[base |-> 1, guard |-> "none"]>>, Len(stack[c]))
        <4>1. Len(stack[c]) \in Nat
          BY <1>2, VarFacts
        <4>2. <<[base |-> 1, guard |-> "none"]>> \in Seq(Frames)
          BY DEF Frames
        <4> QED
          BY <4>1, <4>2 DEF FramesOK
      <3> QED
        BY <1>1, <1>4, <3>1 DEF FrameInv
    <2>2. \A t \in Threads : leaving'[t] # "no" => frames'[t] # <<>>
      BY <1>1, <1>4 DEF FrameInv
    <2>3. /\ frames'[Main] # <<>> => frames'[Main][1].guard = "armed"
          /\ \A d \in Coroutines : frames'[d] # <<>> => frames'[d][1].guard = "none"
      BY <1>1, <1>2, <1>4 DEF FrameInv, Threads
    <2>4. \A d \in Coroutines : Started(d)' <=> frames'[d] # <<>>
      <3>1. co[c].started => frames[c] # <<>>
        BY <1>1, <1>2 DEF FrameInv, Started
      <3> QED
        <4> SUFFICES ASSUME NEW d \in Coroutines PROVE Started(d)' <=> frames'[d] # <<>>
          OBVIOUS
        <4>1. CASE d = c
          <5>1. ~co[c].started => frames'[c] # <<>>
            <6> DEFINE one == <<[base |-> 1, guard |-> "none"]>>
            <6>1. one # <<>> /\ (~co[c].started => frames'[c] = one)
              BY <1>4
            <6> HIDE DEF one
            <6> QED
              BY <6>1
          <5>2. co[c].started => frames'[c] # <<>>
            BY <1>4, <3>1
          <5>3. Started(c)'
            BY <1>2, <1>5
          <5> QED
            BY <4>1, <5>1, <5>2, <5>3
        <4>2. CASE d # c
          BY <1>1, <1>4, <1>5, <4>2 DEF FrameInv, Threads
        <4> QED
          BY <4>1, <4>2
    <2>5. \A i \in 1..(Len(chain') - 1) : leaving'[chain'[i]] = "no" /\ frames'[chain'[i]] # <<>>
      <3> SUFFICES ASSUME NEW i \in 1..Len(chain)
                   PROVE  leaving[chain'[i]] = "no" /\ frames'[chain'[i]] # <<>>
        BY PushFacts
      <3>1. chain'[i] = chain[i] /\ chain[i] \in Threads /\ chain[i] # c
        BY PushFacts
      <3>2. leaving[chain[i]] = "no" /\ frames[chain[i]] # <<>>
        <4>1. i \in 1..(Len(chain) - 1) \/ chain[i] = p
          BY RunFacts DEF p
        <4> QED
          BY <1>1, <4>1 DEF FrameInv, p
      <3> QED
        BY <1>4, <3>1, <3>2
    <2>6. frames'[Main] = frames[Main]
      BY <1>2, <1>4, CoroutineConstants DEF Threads
    <2> QED
      BY <1>1, <2>1, <2>2, <2>3, <2>4, <2>5, <2>6 DEF FrameInv
  <1>14. HomeInv'
    BY <1>1, <1>5, <1>6 DEF HomeInv, SameVar
  <1>15. ParkInv'
    BY <1>1, <1>5, <1>6, <1>8 DEF ParkInv, SameVar, I
  <1>16. AwayInv'
    <2> SUFFICES ASSUME NEW v \in Vars, var[v].live, cell'[v].st = "closed"
                 PROVE  Going(v)' \/ Shared(v)' \/ Parked(v)'
      BY DEF AwayInv, SameVar
    <2>1. CASE v \in O
      BY <1>2, <1>4, <1>8, <2>1 DEF Shared, SameVar, O, p
    <2>2. CASE v \notin O
      <3>1. v \notin I /\ cell[v].st = "closed"
        BY <2>2 DEF I, O
      <3>2. Going(v) => Going(v)'
        <4>1. var[v].home = c /\ ~co[c].started => ~Going(v)
          <5>1. ~co[c].started => leaving[c] = "no"
            BY <1>1, <1>2 DEF FrameInv, Started
          <5> QED
            BY <5>1 DEF Going
        <4>2. ~(var[v].home = c /\ ~co[c].started) => frames'[var[v].home] = frames[var[v].home]
          BY <1>4, <1>6
        <4> QED
          BY <4>1, <4>2 DEF Going, SameVar
      <3>3. Shared(v) => Shared(v)'
        <4> SUFFICES ASSUME NEW d \in Coroutines, co[d].st = "normal",
                            co[d].creator = var[v].home, v \in DOMAIN co[d].origins
                     PROVE  Shared(v)'
          BY DEF Shared
        <4>1. co'[d] = co[d]
          BY <1>4
        <4> QED
          BY <4>1 DEF Shared, SameVar
      <3>4. Parked(v) => Parked(v)'
        <4>1. Parked(v) => var[v].home # c
          BY <3>1 DEF Parked, I
        <4> QED
          BY <1>4, <4>1 DEF Parked, Suspended, SameVar
      <3> QED
        BY <1>1, <3>1, <3>2, <3>3, <3>4 DEF AwayInv
    <2> QED
      BY <2>1, <2>2
  <1>17. LinkInv'
    <2> SUFFICES ASSUME NEW d \in Coroutines, Alive(d)' PROVE LinksOK(d)'
      BY DEF LinkInv
    <2>1. CASE d = c
      <3>1. \A u \in O : cell'[u].st = "closed" /\ u \in Vars
        BY <1>2, <1>7, <1>8 DEF I, O
      <3>2. \A u \in O : /\ var'[u].live /\ ~var'[u].tbc /\ var'[u].home = p
                         /\ x.origins[u] = var'[u].idx
        BY <1>7, <1>8 DEF SameVar
      <3> QED
        BY <1>4, <2>1, <3>1, <3>2 DEF LinksOK, Linked, O, p
    <2>2. CASE d # c
      <3>1. /\ Alive(d) /\ co'[d] = co[d] /\ co[d].creator \in Threads
            /\ Alive(co[d].creator)' <=> Alive(co[d].creator)
        BY <1>4, <1>5, <2>2, CoFacts DEF Threads
      <3>2. LinksOK(d)
        BY <1>1, <3>1 DEF LinkInv
      <3>3. /\ DOMAIN co[d].origins \subseteq Vars /\ DOMAIN co[d].pending \subseteq Vars
            /\ DOMAIN co[d].inside \subseteq Vars
        BY CoFacts
      <3>4. \A u \in Vars : /\ cell[u].st # "none" => cell'[u].st # "none"
                            /\ cell[u].st = "closed" /\ u \notin I => cell'[u].st = "closed"
        BY DEF I
      <3>5. ASSUME co[d].st = "normal", NEW u \in DOMAIN co[d].origins PROVE u \notin I
        <4>1. Alive(co[d].creator) /\ ~Suspended(co[d].creator)
          BY <3>5, CreatorWaits
        <4>2. var[u].home = co[d].creator
          BY <3>2, <3>5, <4>1 DEF LinksOK, Linked
        <4> QED
          BY <1>2, <1>8, <4>1, <4>2
      <3>6. ASSUME NEW u \in DOMAIN co[d].inside PROVE u \notin I
        BY <1>8, <2>2, <3>2, <3>6 DEF LinksOK, Linked
      <3> QED
        BY <3>1, <3>2, <3>3, <3>4, <3>5, <3>6 DEF LinksOK, Linked, SameVar
    <2> QED
      BY <2>1, <2>2
  <1>18. LeaveInv'
    <2> SUFFICES ASSUME NEW t \in Threads, leaving[t] # "no"
                 PROVE  Apart(t)' /\ (leaving[t] = "error" => Clean(t)')
      BY DEF LeaveInv
    <2>1. Apart(t) /\ (leaving[t] = "error" => Clean(t)) /\ t # p
      BY <1>1 DEF LeaveInv, p
    <2>2. frames'[t] = frames[t]
      <3>1. co[c].started => frames'[c] = frames[c]
        BY <1>4
      <3>2. ~co[c].started => leaving[c] = "no"
        BY <1>1, <1>2 DEF FrameInv, Started
      <3> QED
        BY <1>4, <3>1, <3>2
    <2>3. Apart(t)'
      <3> SUFFICES ASSUME NEW d \in Coroutines, Alive(d)', co'[d].creator = t,
                          NEW u \in DOMAIN co'[d].origins \cup DOMAIN co'[d].pending
                   PROVE  var'[u].idx < LeaveBaseIn(frames[t], leaving[t])
        BY <2>2 DEF Apart
      <3>1. d # c
        BY <1>4, <2>1 DEF p
      <3>2. co'[d] = co[d] /\ Alive(d)
        BY <1>4, <1>5, <3>1 DEF Threads
      <3>3. u \in Vars
        BY <3>2, CoFacts
      <3> QED
        BY <2>1, <3>2, <3>3 DEF Apart, SameVar
    <2>4. ASSUME leaving[t] = "error" PROVE Clean(t)'
      <3> SUFFICES ASSUME NEW v \in Vars, var[v].home = t,
                          cell'[v].st = "open" \/ Parked(v)', var[v].idx >= BaseIn(frames[t])
                   PROVE  var[v].idx >= ErrorLevelIn(frames[t])
        BY <2>2 DEF Clean, SameVar
      <3>1. Parked(v)' => Parked(v)
        BY <1>4, <1>5, <1>6 DEF Parked, Suspended, SameVar
      <3>2. cell'[v].st = "open" => cell[v].st = "open" \/ Parked(v)
        BY <1>2, <1>8 DEF I, Parked
      <3> QED
        BY <2>1, <2>4, <3>1, <3>2 DEF Clean
    <2> QED
      BY <2>3, <2>4
  <1>19. ReachInv'
    <2>1. \A t \in Threads : Above(t)' = Above(t)
      BY <1>9 DEF Above
    <2>2. \A v \in Vars : cell[v].st # "none" => cell'[v].st # "none"
      OBVIOUS
    <2>3. /\ \A t \in Threads : Captured(reach[t]) /\ reach[t] \subseteq Vars
          /\ \A d \in Coroutines : Captured(co[d].body) /\ co[d].body \subseteq Vars
      BY <1>1, CoFacts DEF ReachInv, ContextTypes
    <2>4. ASSUME NEW t \in Threads PROVE Captured(reach[t])'
      <3>1. Captured(reach'[t]) /\ reach'[t] \subseteq Vars
        BY <1>4, <2>3 DEF Captured
      <3> QED
        BY <2>2, <3>1 DEF Captured, SameVar
    <2>5. /\ reach[c] \subseteq reach'[c] /\ ~co[c].started => reach[c] = {}
          /\ \A t \in Threads : reach[t] \subseteq reach'[t]
      BY <1>1, <1>2, <1>4 DEF ReachInv, Started
    <2> SUFFICES ASSUME NEW d \in Coroutines
                 PROVE  /\ Captured(co[d].body)'
                        /\ Alive(d)' /\ ~co'[d].started /\ Alive(co[d].creator)' => Given(d)'
                        /\ ~Started(d)' => reach'[d] = {}
                        /\ Started(d)' => \A t \in Threads : d \in Above(t)' => Below(d, t)'
      BY <2>4 DEF ReachInv
    <2>6. d \in Threads /\ co[d].creator \in Threads
      BY CoFacts DEF Threads
    <2>7. Captured(co[d].body)'
      BY <1>4, <2>2, <2>3 DEF Captured, SameVar
    <2>8. Alive(d)' /\ ~co'[d].started /\ Alive(co[d].creator)' => Given(d)'
      <3> SUFFICES ASSUME d # c, Alive(d), ~co[d].started, Alive(co[d].creator) PROVE Given(d)'
        BY <1>4, <1>5, <2>6
      <3>1. Given(d) /\ co'[d] = co[d]
        BY <1>1, <1>4 DEF ReachInv
      <3> QED
        BY <2>3, <2>5, <2>6, <3>1 DEF Given, SameVar
    <2>9. ~Started(d)' => reach'[d] = {}
      BY <1>1, <1>4, <1>5, <2>6 DEF ReachInv
    <2>10. ASSUME Started(d)', NEW t \in Threads, d \in Above(t)' PROVE Below(d, t)'
      <3> SUFFICES ASSUME NEW v \in reach'[t], var[v].live, var[v].home = co'[d].creator
                   PROVE  v \in DOMAIN co'[d].origins
        <4>1. reach'[t] \subseteq Vars
          BY <1>4, <2>3
        <4> QED
          BY <4>1 DEF Below, SameVar
      <3>1. d \in Above(t) /\ co'[d].creator = co[d].creator
        BY <1>4, <2>1, <2>10
      <3>2. CASE d # c /\ (t # c \/ v \in reach[t])
        <4>1. Below(d, t) /\ co'[d] = co[d] /\ v \in reach[t]
          BY <1>1, <1>4, <1>5, <2>6, <2>10, <3>1, <3>2 DEF ReachInv
        <4> QED
          BY <4>1 DEF Below
      <3>3. CASE d # c /\ t = c /\ v \notin reach[t]
        <4>1. v \in co[c].body /\ ~co[c].started
          BY <1>4, <3>3
        <4>2. Started(d) /\ co'[d] = co[d]
          BY <1>4, <1>5, <2>6, <2>10, <3>3
        <4>3. d \in Above(p)
          <5>1. chain' \in Seq(Threads) /\ Len(chain) \in Nat \ {0} /\ p = chain[Len(chain)]
            BY RunFacts, PushFacts DEF p
          <5> DEFINE par == Parents
          <5>2. /\ c \in DOMAIN par /\ par[c] = p
                /\ \A e \in DOMAIN par : par[e] \in Threads
            BY CoFacts DEF Parents, p
          <5> HIDE DEF par
          <5>3. AboveIn(par, c) = {c} \cup AboveIn(par, p)
            BY <1>2, <5>2, AboveStep
          <5> QED
            BY <3>1, <3>3, <5>3 DEF Above, par
        <4>4. v \in reach[p] \/ var[v].home = p
          BY <1>1, <1>2, <4>1 DEF ReachInv, Given, p
        <4>5. CASE v \in reach[p]
          <5>1. Below(d, p)
            BY <1>1, <1>2, <4>2, <4>3 DEF ReachInv
          <5> QED
            BY <3>1, <4>2, <4>5, <5>1 DEF Below
        <4>6. CASE var[v].home = p
          <5>1. co[d].st = "normal"
            BY <4>3, RunningAbove DEF p
          <5> QED
            BY <3>1, <4>6, <5>1, RunFacts DEF p
        <4> QED
          BY <4>4, <4>5, <4>6
      <3>4. CASE d = c /\ co[c].started
        <4>1. Below(c, t) /\ x.origins = co[c].origins /\ v \in reach[t]
          BY <1>1, <1>2, <1>4, <3>1, <3>4 DEF ReachInv, Started
        <4> QED
          BY <1>4, <3>1, <3>4, <4>1 DEF Below
      <3>5. CASE d = c /\ ~co[c].started
        <4>1. t = c
          BY <1>2, <3>1, <3>5, NoneBelow
        <4>2. v \in co[c].body
          BY <1>4, <2>5, <3>5, <4>1
        <4> QED
          BY <1>4, <3>5, <4>2
      <3> QED
        BY <3>2, <3>3, <3>4, <3>5
    <2> QED
      BY <2>7, <2>8, <2>9, <2>10
  <1> QED
    BY <1>10, <1>11, <1>12, <1>13, <1>14, <1>15, <1>16, <1>17, <1>18, <1>19 DEF ContextInv

PassedFrames(f) == [i \in DOMAIN f |-> PassedBy(f[i])]

(* A coroutine yields: its open upvalues close but for those to be closed,   *)
(* of which a handler that yields has closed K, and those it shares with its *)
(* resumer open again.                                                       *)
Suspending(x, K, A) ==
    /\ co' = [co EXCEPT ![Running] = x]
    /\ x.st = "suspended" /\ x.started /\ x.creator = Resumer
    /\ x.origins = co[Running].origins /\ x.body = {} /\ DOMAIN x.pending = {}
    /\ \A u \in DOMAIN x.inside : /\ u \in Vars /\ var[u].live /\ ~var[u].tbc
                                  /\ var[u].home = Running /\ x.inside[u] = var[u].idx
                                  /\ leaving[Running] # "no" => cell[u].st = "open"
    /\ \A v \in Vars : cell[v].st = "open" /\ var[v].home = Running /\ ~var[v].tbc =>
                         v \in DOMAIN x.inside
    /\ \A u \in K : /\ var[u].home = Running /\ cell[u].st = "open" /\ leaving[Running] # "no"
                    /\ var[u].idx >= LevelIn(frames[Running], leaving[Running])
    /\ \A v \in A : /\ v \in reach[Running] \/ (var[v].live /\ var[v].home = Running)
                    /\ ~var[v].tbc /\ cell'[v].st # "none"
    /\ \A v \in Vars :
         /\ SameVar(v)
         /\ cell'[v].st = IF v \in DOMAIN co[Running].origins THEN "open"
                          ELSE IF v \in DOMAIN x.inside \cup K THEN "closed"
                          ELSE cell[v].st
    /\ \A t \in Threads : Len(stack'[t]) = Len(stack[t])
    /\ frames' = [frames EXCEPT ![Running] = PassedFrames(frames[Running])]
    /\ reach' = [reach EXCEPT ![Resumer] = reach[Resumer] \cup A]
    /\ chain' = Front(chain) /\ leaving' = leaving

LEMMA SuspendStep ==
  ASSUME MachineInv(Machine), MachineInv(Machine'), ContextInv, Running \in Coroutines,
         NEW x \in Contexts, NEW K \in SUBSET Vars, NEW A \in SUBSET Vars,
         Suspending(x, K, A)
  PROVE  ContextInv'
  <1> SUFFICES ASSUME
         co' = [co EXCEPT ![Running] = x],
         x.st = "suspended", x.started, x.creator = Resumer,
         x.origins = co[Running].origins, x.body = {}, DOMAIN x.pending = {},
         \A u \in DOMAIN x.inside : /\ u \in Vars /\ var[u].live /\ ~var[u].tbc
                                    /\ var[u].home = Running /\ x.inside[u] = var[u].idx
                                    /\ leaving[Running] # "no" => cell[u].st = "open",
         \A v \in Vars : cell[v].st = "open" /\ var[v].home = Running /\ ~var[v].tbc =>
                           v \in DOMAIN x.inside,
         \A u \in K : /\ var[u].home = Running /\ cell[u].st = "open" /\ leaving[Running] # "no"
                      /\ var[u].idx >= LevelIn(frames[Running], leaving[Running]),
         \A v \in A : /\ v \in reach[Running] \/ (var[v].live /\ var[v].home = Running)
                      /\ ~var[v].tbc /\ cell'[v].st # "none",
         \A v \in Vars :
           /\ SameVar(v)
           /\ cell'[v].st = IF v \in DOMAIN co[Running].origins THEN "open"
                            ELSE IF v \in DOMAIN x.inside \cup K THEN "closed"
                            ELSE cell[v].st,
         \A t \in Threads : Len(stack'[t]) = Len(stack[t]),
         frames' = [frames EXCEPT ![Running] = PassedFrames(frames[Running])],
         reach' = [reach EXCEPT ![Resumer] = reach[Resumer] \cup A],
         chain' = Front(chain), leaving' = leaving
               PROVE  ContextInv'
    BY DEF Suspending
  <1> DEFINE c == Running
             p == Resumer
             O == DOMAIN co[c].origins
             I == DOMAIN x.inside
             f == frames[c]
             g == PassedFrames(f)
  <1>1. /\ ContextTypes /\ ChainInv /\ TreeInv /\ FrameInv /\ HomeInv
        /\ AwayInv /\ LinkInv /\ ParkInv /\ LeaveInv /\ ReachInv
    BY DEF ContextInv
  <1>2. /\ c \in Threads /\ p \in Threads /\ p # c /\ co[c].creator = p
        /\ co[c].st = "normal" /\ co[c].started /\ Alive(c)
        /\ Alive(p) /\ ~Suspended(p) /\ leaving[p] = "no"
        /\ frames[p] # <<>> /\ c # Main
    BY RunFacts, CoroutineConstants
  <1>3. /\ co \in [Coroutines -> Contexts] /\ frames \in [Threads -> Seq(Frames)]
        /\ reach \in [Threads -> SUBSET Vars]
    BY <1>1 DEF ContextTypes
  <1>4. /\ co'[c] = x /\ \A d \in Coroutines : d # c => co'[d] = co[d]
        /\ reach'[p] = reach[p] \cup A /\ \A t \in Threads : t # p => reach'[t] = reach[t]
        /\ frames'[c] = g /\ \A t \in Threads : t # c => frames'[t] = frames[t]
    BY <1>2, <1>3
  <1>5. \A t \in Threads : /\ Alive(t)' <=> Alive(t)
                           /\ Suspended(t)' <=> Suspended(t) \/ t = c
                           /\ Started(t)' <=> Started(t)
    BY <1>2, <1>4 DEF Alive, Suspended, Started, Threads
  <1>6. \A v \in Vars : var[v].home \in Threads /\ var[v].idx \in Nat
    BY VarFacts
  <1>7. LinksOK(c) /\ O \subseteq Vars /\ I \subseteq Vars
    BY <1>1, <1>2, CoFacts DEF LinkInv
  <1>8. \A u \in O : /\ var[u].live /\ var[u].home = p /\ ~var[u].tbc /\ cell[u].st = "closed"
                     /\ co[c].origins[u] = var[u].idx
    BY <1>2, <1>7 DEF LinksOK, Linked
  <1>9. Parents' = Parents
    <2>1. {d \in Coroutines : co'[d].st # "none"} = {d \in Coroutines : co[d].st # "none"}
      BY <1>2, <1>4
    <2>2. \A d \in Coroutines : co'[d].creator = co[d].creator
      BY <1>2, <1>4
    <2> QED
      BY <2>1, <2>2 DEF Parents
  <1>10. ChainInv'
    BY <1>4, <1>9, PopChain
  <1> DEFINE n == Len(stack[c])
  <1>11. /\ FramesOK(g, n) /\ g # <<>> /\ g[1].guard = PassedBy(f[1]).guard
         /\ BaseIn(g) = BaseIn(f) /\ \A l : LevelIn(g, l) <= LevelIn(f, l)
         /\ \A l : LeaveBaseIn(g, l) = LeaveBaseIn(f, l)
         /\ \A l : LevelIn(g, l) \in Nat /\ LevelIn(f, l) \in Nat
         /\ f[1].guard = "none" /\ f # <<>>
    <2>1. FramesOK(f, n) /\ n \in Nat /\ f # <<>> /\ f[1].guard = "none"
      BY <1>1, <1>2, VarFacts DEF FrameInv, Started
    <2>2. g = [i \in DOMAIN f |-> PassedBy(f[i])]
      BY DEF PassedFrames
    <2> HIDE DEF f, g, n
    <2>4. ASSUME NEW l
          PROVE  /\ FramesOK(g, n) /\ g # <<>> /\ g[1].guard = PassedBy(f[1]).guard
                 /\ BaseIn(g) = BaseIn(f)
                 /\ LevelIn(g, l) <= LevelIn(f, l) /\ LeaveBaseIn(g, l) = LeaveBaseIn(f, l)
      BY <2>1, <2>2, PassedLevels
    <2>3. /\ FramesOK(g, n) /\ g # <<>> /\ g[1].guard = PassedBy(f[1]).guard
          /\ BaseIn(g) = BaseIn(f)
      BY <2>4
    <2>5. \A l : LevelIn(g, l) \in Nat /\ LevelIn(f, l) \in Nat
      BY <2>1, <2>3, LevelFacts
    <2> QED
      BY <2>1, <2>3, <2>4, <2>5
  <1>12. PassedBy(f[1]).guard = "none"
    <2>1. f[1] \in Frames
      <3>1. f \in Seq(Frames) /\ f # <<>>
        BY <1>2, <1>3, <1>11
      <3> HIDE DEF f
      <3> QED
        BY <3>1
    <2> HIDE DEF f
    <2> QED
      BY <1>11, <2>1 DEF PassedBy, Frames
  <1>13. ContextTypes'
    <2>1. chain' \in Seq(Threads)
      BY PopFacts
    <2>2. co' \in [Coroutines -> Contexts]
      BY <1>3
    <2>3. frames' \in [Threads -> Seq(Frames)]
      <3>1. g \in Seq(Frames)
        BY <1>11 DEF FramesOK
      <3>2. frames' = [frames EXCEPT ![Running] = g]
        OBVIOUS
      <3> HIDE DEF g
      <3> QED
        BY <1>3, <3>1, <3>2, ZenonT(40)
    <2>4. reach' \in [Threads -> SUBSET Vars]
      BY <1>2, <1>3
    <2> QED
      BY <1>1, <2>1, <2>2, <2>3, <2>4 DEF ContextTypes
  <1>14. \A v \in Vars : cell'[v].st = IF v \in O THEN "open"
                                       ELSE IF v \in I \cup K THEN "closed" ELSE cell[v].st
    OBVIOUS
  <1> HIDE DEF c, p, O, I, f, g, n
  <1>15. TreeInv'
    <2>1. \A d \in Coroutines : co'[d].creator = co[d].creator /\ co[d].creator \in Threads
                                /\ (co'[d].started <=> co[d].started)
                                /\ (co'[d].st = "none" <=> co[d].st = "none")
                                /\ (co'[d].st = "normal" => co[d].st = "normal")
      <3> SUFFICES ASSUME NEW d \in Coroutines
                   PROVE  /\ co'[d].creator = co[d].creator /\ co[d].creator \in Threads
                          /\ co'[d].started <=> co[d].started
                          /\ co'[d].st = "none" <=> co[d].st = "none"
                          /\ co'[d].st = "normal" => co[d].st = "normal"
        OBVIOUS
      <3>1. co[d].creator \in Threads
        BY CoFacts
      <3>2. CASE d = c
        BY <1>2, <1>4, <3>1, <3>2 DEF p
      <3>3. CASE d # c
        BY <1>4, <3>1, <3>3
      <3> QED
        BY <3>2, <3>3
    <2> QED
      BY <1>1, <1>5, <2>1 DEF TreeInv
  <1>16. FrameInv'
    <2>1. \A t \in Threads : FramesOK(frames'[t], Len(stack'[t]))
      BY <1>1, <1>4, <1>11 DEF FrameInv, n
    <2>2. \A t \in Threads : leaving'[t] # "no" => frames'[t] # <<>>
      BY <1>1, <1>4, <1>11 DEF FrameInv
    <2>3. /\ frames'[Main] # <<>> => frames'[Main][1].guard = "armed"
          /\ \A d \in Coroutines : frames'[d] # <<>> => frames'[d][1].guard = "none"
      BY <1>1, <1>2, <1>4, <1>11, <1>12 DEF FrameInv, Threads
    <2>4. \A d \in Coroutines : Started(d)' <=> frames'[d] # <<>>
      <3>1. Started(c) /\ \A d \in Coroutines : d \in Threads
        BY <1>2 DEF Started, c, Threads
      <3> QED
        BY <1>1, <1>4, <1>5, <1>11, <3>1 DEF FrameInv
    <2>5. \A i \in 1..(Len(chain') - 1) : leaving'[chain'[i]] = "no" /\ frames'[chain'[i]] # <<>>
      <3> SUFFICES ASSUME NEW i \in 1..(Len(chain') - 1)
                   PROVE  leaving[chain'[i]] = "no" /\ frames'[chain'[i]] # <<>>
        OBVIOUS
      <3>1. /\ i \in 1..(Len(chain) - 1) /\ chain'[i] = chain[i]
            /\ chain[i] \in Threads /\ chain[i] # c
        BY PopFacts DEF c
      <3>2. leaving[chain[i]] = "no" /\ frames[chain[i]] # <<>>
        BY <1>1, <3>1 DEF FrameInv
      <3> QED
        BY <1>4, <3>1, <3>2
    <2>6. frames'[Main] = frames[Main]
      BY <1>2, <1>4, CoroutineConstants DEF Threads
    <2> QED
      BY <1>1, <2>1, <2>2, <2>3, <2>4, <2>5, <2>6 DEF FrameInv
  <1>17. HomeInv'
    BY <1>1, <1>5, <1>6 DEF HomeInv, SameVar
  <1>18. ParkInv'
    <2>0. SUFFICES ASSUME NEW v \in Vars, cell'[v].st = "open", Suspended(var[v].home)'
                   PROVE  var[v].tbc
      BY DEF ParkInv, SameVar
    <2>a. Suspended(var[v].home) \/ var[v].home = c
      <3>1. var'[v].home = var[v].home /\ var[v].home \in Threads
        BY <1>6 DEF SameVar
      <3> QED
        BY <1>5, <2>0, <3>1
    <2>1. v \notin O /\ v \notin I /\ cell[v].st = "open"
      <3>1. v \notin O
        <4>1. p # c /\ ~Suspended(p)
          BY <1>2
        <4> QED
          BY <1>8, <2>a, <4>1
      <3> QED
        BY <1>14, <2>0, <3>1
    <2>2. CASE var[v].home = c
      BY <2>1, <2>2, VarFacts DEF c, I
    <2>3. CASE var[v].home # c
      <3>1. Suspended(var[v].home)
        BY <2>a, <2>3
      <3> QED
        BY <1>1, <2>1, <3>1 DEF ParkInv
    <2> QED
      BY <2>2, <2>3
  <1>19. AwayInv'
    <2> SUFFICES ASSUME NEW v \in Vars, var[v].live, cell'[v].st = "closed"
                 PROVE  Going(v)' \/ Shared(v)' \/ Parked(v)'
      BY DEF AwayInv, SameVar
    <2>1. v \notin O
      BY <1>14
    <2>2. Going(v) => Going(v)'
      <3>1. CASE var[v].home = c
        <4> SUFFICES ASSUME Going(v) PROVE Going(v)'
          OBVIOUS
        <4>1. leaving[c] # "no" /\ var[v].idx >= LevelIn(f, leaving[c])
          BY <3>1 DEF Going, f
        <4>2. var[v].idx >= LevelIn(g, leaving[c])
          BY <1>6, <1>11, <4>1
        <4> QED
          BY <1>4, <3>1, <4>1, <4>2 DEF Going, SameVar
      <3>2. CASE var[v].home # c
        <4>1. frames'[var[v].home] = frames[var[v].home]
          BY <1>4, <1>6, <3>2
        <4> QED
          BY <4>1 DEF Going, SameVar
      <3> QED
        BY <3>1, <3>2
    <2>3. CASE v \in I
      <3>1. var[v].home = c
        BY <2>3 DEF I, c
      <3> QED
        BY <1>2, <1>4, <1>5, <2>3, <3>1 DEF Parked, SameVar, I
    <2>4. CASE v \in K
      BY <2>2, <2>4 DEF Going
    <2>5. CASE v \notin I /\ v \notin K
      <3>1. cell[v].st = "closed"
        BY <1>14, <2>1, <2>5
      <3>2. Shared(v) => Shared(v)'
        <4> SUFFICES ASSUME NEW d \in Coroutines, co[d].st = "normal",
                            co[d].creator = var[v].home, v \in DOMAIN co[d].origins
                     PROVE  Shared(v)'
          BY DEF Shared
        <4>1. co'[d] = co[d]
          BY <1>4, <2>1 DEF O
        <4> QED
          BY <4>1 DEF Shared, SameVar
      <3>3. Parked(v) => Parked(v)'
        <4>1. Parked(v) => var[v].home # c
          BY <1>2, CoroutineConstants DEF Parked, Suspended
        <4> QED
          BY <1>4, <4>1 DEF Parked, Suspended, SameVar
      <3> QED
        BY <1>1, <2>2, <3>1, <3>2, <3>3 DEF AwayInv
    <2> QED
      BY <2>3, <2>4, <2>5
  <1>20. \A v \in Vars : cell[v].st # "none" => cell'[v].st # "none"
    BY <1>14
  <1>21. \A v \in Vars : cell[v].st = "closed" /\ v \notin O => cell'[v].st = "closed"
    BY <1>14
  <1>22. LinkInv'
    <2> SUFFICES ASSUME NEW d \in Coroutines, Alive(d)' PROVE LinksOK(d)'
      BY DEF LinkInv
    <2>1. CASE d = c
      <3>1. \A u \in O : /\ u \in Vars /\ var'[u].live /\ ~var'[u].tbc /\ var'[u].home = p
                         /\ co[c].origins[u] = var'[u].idx /\ cell'[u].st # "none"
        BY <1>7, <1>8, <1>20 DEF SameVar
      <3>2. \A u \in I : /\ u \in Vars /\ var'[u].live /\ ~var'[u].tbc /\ var'[u].home = c
                         /\ x.inside[u] = var'[u].idx /\ cell'[u].st = "closed"
        <4>1. \A u \in I : /\ u \in Vars /\ var[u].live /\ ~var[u].tbc /\ var[u].home = c
                           /\ x.inside[u] = var[u].idx
          BY DEF I, c
        <4>2. \A u \in I : u \notin O
          BY <1>2, <1>8, <4>1
        <4> QED
          BY <1>14, <4>1, <4>2 DEF SameVar
      <3>3. x.wrap \in BOOLEAN
        BY ContextFields
      <3>4. /\ DOMAIN x.origins = O /\ x.origins = co[c].origins /\ DOMAIN x.inside = I
            /\ x.creator = p
        BY DEF O, I, c, p
      <3> QED
        BY <1>4, <2>1, <3>1, <3>2, <3>3, <3>4 DEF LinksOK, Linked
    <2>2. CASE d # c
      <3>1. /\ Alive(d) /\ co'[d] = co[d] /\ co[d].creator \in Threads
            /\ Alive(co[d].creator)' <=> Alive(co[d].creator)
        BY <1>4, <1>5, <2>2, CoFacts DEF Threads
      <3>2. LinksOK(d)
        BY <1>1, <3>1 DEF LinkInv
      <3>3. /\ DOMAIN co[d].origins \subseteq Vars /\ DOMAIN co[d].pending \subseteq Vars
            /\ DOMAIN co[d].inside \subseteq Vars
        BY CoFacts
      <3>4. ASSUME co[d].st = "normal", NEW u \in DOMAIN co[d].origins PROVE u \notin O
        <4>1. Alive(co[d].creator)
          BY <3>4, CreatorWaits
        <4>2. var[u].home = co[d].creator
          BY <3>2, <3>4, <4>1 DEF LinksOK, Linked
        <4> QED
          BY <1>2, <1>8, <2>2, <3>4, <4>2, OnlyChild DEF c
      <3>5. ASSUME NEW u \in DOMAIN co[d].inside PROVE u \notin O
        <4>1. var[u].home = d
          BY <3>2, <3>5 DEF LinksOK, Linked
        <4>2. co[d].st = "suspended"
          BY <3>1, <3>2, <3>5, CoroutineConstants DEF LinksOK, Alive
        <4> QED
          BY <1>2, <1>8, <4>1, <4>2 DEF Suspended
      <3> QED
        BY <1>20, <1>21, <3>1, <3>2, <3>3, <3>4, <3>5 DEF LinksOK, Linked, SameVar
    <2> QED
      BY <2>1, <2>2
  <1>23. LeaveInv'
    <2> SUFFICES ASSUME NEW t \in Threads, leaving[t] # "no"
                 PROVE  Apart(t)' /\ (leaving[t] = "error" => Clean(t)')
      BY DEF LeaveInv
    <2>1. Apart(t) /\ (leaving[t] = "error" => Clean(t)) /\ t # p
      BY <1>1, <1>2 DEF LeaveInv
    <2>2. /\ BaseIn(frames'[t]) = BaseIn(frames[t])
          /\ LeaveBaseIn(frames'[t], leaving[t]) = LeaveBaseIn(frames[t], leaving[t])
      BY <1>4, <1>11 DEF f
    <2>3. Apart(t)'
      <3> SUFFICES ASSUME NEW d \in Coroutines, Alive(d)', co'[d].creator = t,
                          NEW u \in DOMAIN co'[d].origins \cup DOMAIN co'[d].pending
                   PROVE  var'[u].idx < LeaveBaseIn(frames[t], leaving[t])
        BY <2>2 DEF Apart
      <3>1. d # c
        BY <1>4, <2>1 DEF p
      <3>2. co'[d] = co[d] /\ Alive(d)
        BY <1>4, <1>5, <3>1 DEF Threads
      <3>3. u \in Vars
        BY <3>2, CoFacts
      <3> QED
        BY <2>1, <3>2, <3>3 DEF Apart, SameVar
    <2>4. ASSUME leaving[t] = "error" PROVE Clean(t)'
      <3> SUFFICES ASSUME NEW v \in Vars, var[v].home = t,
                          cell'[v].st = "open" \/ Parked(v)', var[v].idx >= BaseIn(frames[t])
                   PROVE  var[v].idx >= ErrorLevelIn(frames'[t])
        BY <2>2 DEF Clean, SameVar
      <3>1. v \notin O
        BY <1>8, <2>1
      <3>2. CASE t = c
        <4>1. ~Parked(v)
          BY <1>2, <3>2, CoroutineConstants DEF Parked, Suspended
        <4>2. Parked(v)' => v \in I
          BY <1>4, <3>2 DEF Parked, Suspended, SameVar, I
        <4>3. v \in I => cell[v].st = "open"
          BY <3>2 DEF I, c
        <4>4. cell[v].st = "open"
          BY <1>14, <3>1, <4>2, <4>3
        <4>5. var[v].idx >= ErrorLevelIn(f)
          BY <2>1, <2>4, <3>2, <4>4 DEF Clean, f
        <4>6. /\ ErrorLevelIn(g) <= ErrorLevelIn(f)
              /\ ErrorLevelIn(g) \in Nat /\ ErrorLevelIn(f) \in Nat
          <5>1. ErrorLevelIn(g) = LevelIn(g, "error") /\ ErrorLevelIn(f) = LevelIn(f, "error")
            BY DEF LevelIn
          <5> QED
            BY <1>11, <5>1
        <4>7. var[v].idx >= ErrorLevelIn(g)
          BY <1>6, <4>5, <4>6
        <4> QED
          BY <1>4, <3>2, <4>7
      <3>3. CASE t # c
        <4>1. Parked(v)' => Parked(v)
          BY <1>4, <1>5, <3>3 DEF Parked, Suspended, SameVar
        <4>2. cell'[v].st = "open" => cell[v].st = "open"
          BY <1>14, <3>1
        <4>3. frames'[t] = frames[t]
          BY <1>4, <3>3
        <4> QED
          BY <2>1, <2>4, <4>1, <4>2, <4>3 DEF Clean
      <3> QED
        BY <3>2, <3>3
    <2> QED
      BY <2>3, <2>4
  <1>24. ReachInv'
    <2>1. \A t \in Threads : Above(t)' = Above(t)
      BY <1>9 DEF Above
    <2>2. /\ \A t \in Threads : Captured(reach[t]) /\ reach[t] \subseteq Vars
          /\ \A d \in Coroutines : Captured(co[d].body) /\ co[d].body \subseteq Vars
      BY <1>1, CoFacts DEF ReachInv, ContextTypes
    <2>3. \A v \in A : v \in Vars /\ cell'[v].st # "none" /\ ~var[v].tbc
      OBVIOUS
    <2>4. ASSUME NEW t \in Threads PROVE Captured(reach[t])'
      <3> SUFFICES ASSUME NEW v \in reach'[t] PROVE cell'[v].st # "none" /\ ~var'[v].tbc
        BY DEF Captured
      <3>1. v \in reach[t] \/ v \in A
        BY <1>4
      <3> QED
        BY <1>20, <2>2, <2>3, <3>1 DEF Captured, SameVar
    <2>5. \A t \in Threads : reach[t] \subseteq reach'[t]
      BY <1>4
    <2> SUFFICES ASSUME NEW d \in Coroutines
                 PROVE  /\ Captured(co[d].body)'
                        /\ Alive(d)' /\ ~co'[d].started /\ Alive(co[d].creator)' => Given(d)'
                        /\ ~Started(d)' => reach'[d] = {}
                        /\ Started(d)' => \A t \in Threads : d \in Above(t)' => Below(d, t)'
      BY <2>4 DEF ReachInv
    <2>6. d \in Threads /\ co[d].creator \in Threads
      BY CoFacts DEF Threads
    <2>7. Captured(co[d].body)'
      BY <1>4, <1>20, <2>2 DEF Captured, SameVar
    <2>8. Alive(d)' /\ ~co'[d].started /\ Alive(co[d].creator)' => Given(d)'
      <3> SUFFICES ASSUME d # c, Alive(d), ~co[d].started, Alive(co[d].creator) PROVE Given(d)'
        BY <1>4, <1>5, <2>6
      <3>1. Given(d) /\ co'[d] = co[d]
        BY <1>1, <1>4 DEF ReachInv
      <3> QED
        BY <2>2, <2>5, <2>6, <3>1 DEF Given, SameVar
    <2>9. ~Started(d)' => reach'[d] = {}
      <3>1. p \in Coroutines => Started(p)
        BY <1>2, RunFacts DEF Started, ContextInv, TreeInv, p
      <3>2. ~Started(d)' => ~Started(d) /\ d # p
        <4>1. ~Started(d)' => ~Started(d)
          BY <1>5, <2>6
        <4> QED
          BY <3>1, <4>1
      <3>3. ~Started(d) => reach[d] = {}
        BY <1>1 DEF ReachInv
      <3>4. d # p => reach'[d] = reach[d]
        BY <1>4, <2>6
      <3> QED
        BY <3>2, <3>3, <3>4
    <2>10. ASSUME Started(d)', NEW t \in Threads, d \in Above(t)' PROVE Below(d, t)'
      <3> SUFFICES ASSUME NEW v \in reach'[t], var[v].live, var[v].home = co'[d].creator
                   PROVE  v \in DOMAIN co'[d].origins
        <4>1. reach'[t] \subseteq Vars
          BY <1>4, <2>2, <2>3
        <4> QED
          BY <4>1 DEF Below, SameVar
      <3>1. d \in Above(t) /\ Started(d)
        BY <1>5, <2>1, <2>6, <2>10
      <3>2. co'[d].creator = co[d].creator /\ co'[d].origins = co[d].origins
        BY <1>2, <1>4 DEF c, p
      <3>3. CASE v \in reach[t]
        <4>1. Below(d, t)
          BY <1>1, <3>1 DEF ReachInv
        <4> QED
          BY <3>2, <3>3, <4>1 DEF Below
      <3>4. CASE v \notin reach[t]
        <4>1. t = p /\ v \in A
          BY <1>4, <3>4
        <4>2. d \in Above(c)
          <5> DEFINE par == Parents
          <5>1. /\ c \in DOMAIN par /\ par[c] = p
                /\ \A e \in DOMAIN par : par[e] \in Threads
            BY <1>2, CoFacts DEF Parents, c
          <5> HIDE DEF par
          <5>2. AboveIn(par, c) = {c} \cup AboveIn(par, p)
            BY <1>2, <5>1, AboveStep
          <5> QED
            BY <3>1, <4>1, <5>2 DEF Above, par
        <4>3. v \in reach[c] \/ var[v].home = c
          BY <4>1 DEF c
        <4>4. CASE v \in reach[c]
          <5>1. Below(d, c)
            BY <1>1, <1>2, <3>1, <4>2 DEF ReachInv
          <5> QED
            BY <3>2, <4>4, <5>1 DEF Below
        <4>5. CASE var[v].home = c
          <5>1. co[d].st = "normal"
            BY <4>2, RunningAbove DEF c
          <5> QED
            BY <3>2, <4>5, <5>1, RunFacts DEF c
        <4> QED
          BY <4>3, <4>4, <4>5
      <3> QED
        BY <3>3, <3>4
    <2> QED
      BY <2>7, <2>8, <2>9, <2>10
  <1> QED
    BY <1>10, <1>13, <1>15, <1>16, <1>17, <1>18, <1>19, <1>22, <1>23, <1>24 DEF ContextInv

(* A suspended coroutine is closed: its variables are gone, and the upvalues *)
(* it shares with its creator are as they were.                              *)
LEMMA KillStep ==
  ASSUME MachineInv(Machine), MachineInv(Machine'), ContextInv, leaving[Running] = "no",
         NEW c \in Coroutines, co[c].st = "suspended", co[c].creator = Running,
         co' = [co EXCEPT ![c] = Dead(c, "ok")],
         reach' = [reach EXCEPT ![c] = {}], frames' = [frames EXCEPT ![c] = <<>>],
         leaving' = [leaving EXCEPT ![c] = "no"], chain' = chain,
         \A v \in Vars :
           /\ var'[v].home = var[v].home /\ var'[v].idx = var[v].idx
           /\ var'[v].tbc = var[v].tbc
           /\ var'[v].live <=> var[v].live /\ var[v].home # c
           /\ cell'[v].st = IF var[v].home = c /\ cell[v].st = "open" THEN "closed"
                            ELSE cell[v].st,
         \A t \in Threads : Len(stack'[t]) = IF t = c THEN 0 ELSE Len(stack[t])
  PROVE  ContextInv'
  <1> DEFINE p == Running
  <1>1. /\ ContextTypes /\ ChainInv /\ TreeInv /\ FrameInv /\ HomeInv
        /\ AwayInv /\ LinkInv /\ ParkInv /\ LeaveInv /\ ReachInv
    BY DEF ContextInv
  <1>2. /\ c \in Threads /\ p \in Threads /\ p # c /\ Alive(c) /\ c # Main
        /\ \A i \in 1..Len(chain) : chain[i] # c
    <2>1. \A i \in 1..Len(chain) : chain[i] # c
      <3>1. Len(chain) \in Nat /\ c # Main
        BY RunFacts, CoroutineConstants
      <3>2. ASSUME NEW i \in 1..Len(chain) PROVE chain[i] # c
        <4>1. i = 1 \/ i \in 2..Len(chain)
          BY <3>1
        <4> QED
          BY <1>1, <3>1, <4>1 DEF ChainInv
      <3> QED
        BY <3>2
    <2> QED
      BY <2>1, RunFacts, CoroutineConstants DEF Alive, Threads, Suspended
  <1>3. /\ co'[c] = Dead(c, "ok") /\ \A d \in Coroutines : d # c => co'[d] = co[d]
        /\ reach'[c] = {} /\ \A t \in Threads : t # c => reach'[t] = reach[t]
        /\ frames'[c] = <<>> /\ \A t \in Threads : t # c => frames'[t] = frames[t]
        /\ leaving'[c] = "no" /\ \A t \in Threads : t # c => leaving'[t] = leaving[t]
    BY <1>1, <1>2 DEF ContextTypes
  <1>4. /\ co'[c].st = "ok" /\ co'[c].creator = p /\ ~co'[c].started /\ co'[c].body = {}
        /\ co'[c] \in Contexts
    <2>1. /\ [u \in {} |-> 0] \in [{} -> Nat]
          /\ [u \in {} |-> 0] \in [{} -> [idx : Nat, val : Value]]
      OBVIOUS
    <2>2. NoOrigins \in Indices /\ NoOrigins \in Saved
      BY <2>1 DEF NoOrigins, Indices, Saved
    <2>3. NoCo \in Contexts
      BY <2>2 DEF NoCo, Contexts, Threads
    <2>4. Dead(c, "ok") = [NoCo EXCEPT !.st = "ok", !.creator = p]
      BY DEF Dead
    <2>5. /\ Dead(c, "ok") \in Contexts /\ Dead(c, "ok").st = "ok"
          /\ Dead(c, "ok").creator = p /\ Dead(c, "ok").body = NoCo.body
          /\ Dead(c, "ok").started = NoCo.started
      BY <1>2, <2>3, <2>4 DEF Contexts
    <2> QED
      BY <1>3, <2>5 DEF NoCo
  <1>5. \A t \in Threads : /\ Alive(t)' <=> Alive(t) /\ t # c
                           /\ Suspended(t)' <=> Suspended(t) /\ t # c
                           /\ Started(t)' <=> Started(t) /\ t # c
    BY <1>2, <1>3, <1>4 DEF Alive, Suspended, Started, Threads
  <1>6. \A v \in Vars : /\ var[v].home \in Threads /\ var[v].idx \in Nat
                        /\ var[v].home # c => cell'[v].st = cell[v].st /\ var'[v].live = var[v].live
                        /\ cell'[v].st = "open" => cell[v].st = "open" /\ var[v].home # c
                        /\ cell'[v].st = "none" <=> cell[v].st = "none"
    <2>1. \A v \in Vars : var'[v].live \in BOOLEAN /\ var[v].live \in BOOLEAN
      BY MachineFacts DEF Machine
    <2> QED
      BY <2>1, VarFacts
  <1>7. Parents' = Parents
    <2>1. {d \in Coroutines : co'[d].st # "none"} = {d \in Coroutines : co[d].st # "none"}
      BY <1>3, <1>4
    <2>2. \A d \in Coroutines : co'[d].creator = co[d].creator
      BY <1>3, <1>4
    <2> QED
      BY <2>1, <2>2 DEF Parents
  <1>8. ChainInv'
    <2>1. \A i \in 1..Len(chain) : Above(chain[i])' = Above(chain[i])
      BY <1>7 DEF Above
    <2>2. Len(chain) \in Nat /\ \A i \in 2..Len(chain) : i \in 1..Len(chain)
      BY RunFacts
    <2>3. \A i \in 2..Len(chain) : co'[chain[i]] = co[chain[i]]
      BY <1>1, <1>2, <1>3, <2>2 DEF ChainInv
    <2>4. \A d \in Coroutines : co'[d].st = "normal" => co[d].st = "normal"
      BY <1>3, <1>4
    <2> QED
      BY <1>1, <2>1, <2>3, <2>4 DEF ChainInv
  <1>9. ContextTypes'
    <2>1. co' \in [Coroutines -> Contexts]
      <3>1. Dead(c, "ok") \in Contexts
        BY <1>3, <1>4
      <3> QED
        BY <1>1, <3>1 DEF ContextTypes
    <2>2. frames' \in [Threads -> Seq(Frames)]
      <3>1. <<>> \in Seq(Frames) /\ frames \in [Threads -> Seq(Frames)]
        BY <1>1 DEF ContextTypes
      <3> QED
        BY <3>1
    <2>3. leaving' \in [Threads -> {"no", "return", "error"}]
      BY <1>1 DEF ContextTypes
    <2>4. reach' \in [Threads -> SUBSET Vars]
      BY <1>1 DEF ContextTypes
    <2> QED
      BY <1>1, <2>1, <2>2, <2>3, <2>4 DEF ContextTypes
  <1> HIDE DEF p
  <1>10. TreeInv'
    BY <1>1, <1>2, <1>3, <1>4, <1>5 DEF TreeInv, Threads, p
  <1>11. FrameInv'
    <2>1. \A t \in Threads : FramesOK(frames'[t], Len(stack'[t]))
      <3>1. FramesOK(<<>>, 0)
        BY DEF FramesOK
      <3> QED
        BY <1>1, <1>3, <3>1 DEF FrameInv
    <2>2. \A t \in Threads : leaving'[t] # "no" => frames'[t] # <<>>
      BY <1>1, <1>3 DEF FrameInv
    <2>3. /\ frames'[Main] # <<>> => frames'[Main][1].guard = "armed"
          /\ \A d \in Coroutines : frames'[d] # <<>> => frames'[d][1].guard = "none"
      BY <1>1, <1>2, <1>3 DEF FrameInv, Threads
    <2>4. \A d \in Coroutines : Started(d)' <=> frames'[d] # <<>>
      BY <1>1, <1>3, <1>5 DEF FrameInv, Threads
    <2>5. \A i \in 1..(Len(chain') - 1) : leaving'[chain'[i]] = "no" /\ frames'[chain'[i]] # <<>>
      <3> SUFFICES ASSUME NEW i \in 1..(Len(chain) - 1)
                   PROVE  leaving'[chain[i]] = "no" /\ frames'[chain[i]] # <<>>
        OBVIOUS
      <3>1. chain[i] # c /\ chain[i] \in Threads
        <4>1. Len(chain) \in Nat /\ chain \in Seq(Threads)
          BY <1>1, RunFacts DEF ContextTypes
        <4>2. i \in 1..Len(chain)
          BY <4>1
        <4> QED
          BY <1>2, <4>1, <4>2
      <3> QED
        BY <1>1, <1>3, <3>1 DEF FrameInv
    <2>6. frames'[Main] = frames[Main]
      BY <1>1, <1>3, CoroutineConstants DEF Threads
    <2> QED
      BY <1>1, <2>1, <2>2, <2>3, <2>4, <2>5, <2>6 DEF FrameInv
  <1>12. HomeInv'
    BY <1>1, <1>5, <1>6 DEF HomeInv
  <1>13. ParkInv'
    BY <1>1, <1>5, <1>6 DEF ParkInv
  <1>14. AwayInv'
    <2> SUFFICES ASSUME NEW v \in Vars, var'[v].live, cell'[v].st = "closed"
                 PROVE  Going(v)' \/ Shared(v)' \/ Parked(v)'
      BY DEF AwayInv
    <2>1. cell[v].st = "closed" /\ var[v].live /\ var[v].home # c
      BY <1>6
    <2>2. Going(v) => Going(v)'
      BY <1>3, <1>6, <2>1 DEF Going
    <2>3. Shared(v) => Shared(v)'
      <3> SUFFICES ASSUME NEW d \in Coroutines, co[d].st = "normal",
                          co[d].creator = var[v].home, v \in DOMAIN co[d].origins
                   PROVE  Shared(v)'
        BY DEF Shared
      <3> QED
        BY <1>3 DEF Shared
    <2>4. Parked(v) => Parked(v)'
      BY <1>3, <1>5, <1>6, <2>1 DEF Parked, Suspended
    <2> QED
      BY <1>1, <2>1, <2>2, <2>3, <2>4 DEF AwayInv
  <1>15. LinkInv'
    <2> SUFFICES ASSUME NEW d \in Coroutines, Alive(d)' PROVE LinksOK(d)'
      BY DEF LinkInv
    <2>1. /\ d # c /\ Alive(d) /\ co'[d] = co[d] /\ co[d].creator \in Threads
          /\ Alive(co[d].creator)' => co[d].creator # c /\ Alive(co[d].creator)
      BY <1>3, <1>5, CoFacts DEF Threads
    <2>2. LinksOK(d)
      BY <1>1, <2>1 DEF LinkInv
    <2>3. /\ DOMAIN co[d].origins \subseteq Vars /\ DOMAIN co[d].pending \subseteq Vars
          /\ DOMAIN co[d].inside \subseteq Vars
      BY CoFacts
    <2>4. ASSUME Alive(co[d].creator)', NEW u \in DOMAIN co[d].origins
          PROVE  Linked(u, co[d].creator, co[d].origins[u])' /\ cell'[u].st # "none"
      BY <1>6, <2>1, <2>2, <2>3, <2>4 DEF LinksOK, Linked
    <2>5. ASSUME Alive(co[d].creator)', NEW u \in DOMAIN co[d].pending
          PROVE  Linked(u, co[d].creator, co[d].pending[u].idx)' /\ cell'[u].st # "none"
      BY <1>6, <2>1, <2>2, <2>3, <2>5 DEF LinksOK, Linked
    <2>6. ASSUME co[d].st = "normal", NEW u \in DOMAIN co[d].origins
          PROVE  cell'[u].st = "closed"
      BY <2>2, <2>3, <2>6 DEF LinksOK
    <2>7. ASSUME NEW u \in DOMAIN co[d].inside
          PROVE  Linked(u, d, co[d].inside[u])' /\ cell'[u].st = "closed"
      BY <1>6, <2>1, <2>2, <2>3 DEF LinksOK, Linked
    <2> QED
      BY <2>1, <2>2, <2>4, <2>5, <2>6, <2>7 DEF LinksOK
  <1>16. LeaveInv'
    <2> SUFFICES ASSUME NEW t \in Threads, leaving'[t] # "no"
                 PROVE  Apart(t)' /\ (leaving'[t] = "error" => Clean(t)')
      BY DEF LeaveInv
    <2>1. t # c /\ leaving'[t] = leaving[t] /\ frames'[t] = frames[t]
      BY <1>3
    <2>2. ASSUME NEW d \in Coroutines, Alive(d)' PROVE d # c /\ Alive(d) /\ co'[d] = co[d]
      BY <1>3, <1>5, <2>2 DEF Threads
    <2>3. ASSUME NEW v \in Vars, Parked(v)' PROVE Parked(v)
      BY <1>3, <1>5, <1>6, <2>3 DEF Parked, Suspended
    <2>4. Apart(t) /\ (leaving[t] = "error" => Clean(t))
      BY <1>1, <2>1 DEF LeaveInv
    <2>5. Apart(t)'
      BY <2>1, <2>2, <2>4, CoFacts DEF Apart
    <2>6. leaving[t] = "error" => Clean(t)'
      BY <1>6, <2>1, <2>3, <2>4 DEF Clean
    <2> QED
      BY <2>1, <2>5, <2>6
  <1>17. ReachInv'
    <2>1. \A t : Above(t)' = Above(t)
      BY <1>7 DEF Above
    <2>2. /\ \A t \in Threads : reach'[t] \subseteq reach[t] /\ reach[t] \subseteq Vars
          /\ \A d \in Coroutines : co[d].body \subseteq Vars /\ co[d].creator \in Threads
      BY <1>1, <1>3, CoFacts DEF ContextTypes
    <2>3. \A t \in Threads : Captured(reach[t])'
      BY <1>1, <1>6, <2>2 DEF ReachInv, Captured
    <2> SUFFICES ASSUME NEW d \in Coroutines
                 PROVE  /\ Captured(co[d].body)'
                        /\ Alive(d)' /\ ~co'[d].started /\ Alive(co[d].creator)' => Given(d)'
                        /\ ~Started(d)' => reach'[d] = {}
                        /\ Started(d)' => \A t \in Threads : d \in Above(t)' => Below(d, t)'
      BY <2>3 DEF ReachInv
    <2>4. CASE d = c
      BY <1>3, <1>4, <1>5, <2>4 DEF Captured, Threads
    <2>5. CASE d # c
      <3>1. co'[d] = co[d] /\ d \in Threads
        BY <1>3, <2>5 DEF Threads
      <3>2. Captured(co[d].body)'
        BY <1>1, <1>6, <2>2, <3>1 DEF ReachInv, Captured
      <3>3. Alive(d)' /\ ~co'[d].started /\ Alive(co[d].creator)' => Given(d)'
        BY <1>1, <1>3, <1>5, <2>2, <3>1 DEF ReachInv, Given
      <3>4. ~Started(d)' => reach'[d] = {}
        BY <1>1, <1>3, <1>5, <2>5, <3>1 DEF ReachInv
      <3>5. Started(d)' => \A t \in Threads : d \in Above(t)' => Below(d, t)'
        BY <1>1, <1>5, <2>1, <2>2, <3>1 DEF ReachInv, Below
      <3> QED
        BY <3>2, <3>3, <3>4, <3>5
    <2> QED
      BY <2>4, <2>5
  <1> QED
    BY <1>8, <1>9, <1>10, <1>11, <1>12, <1>13, <1>14, <1>15, <1>16, <1>17 DEF ContextInv

(* The error a dead coroutine ended in is forgotten.                         *)
LEMMA ForgetStep ==
  ASSUME MachineInv(Machine), MachineInv(Machine'), ContextInv,
         NEW c \in Coroutines, co[c].st = "error", co' = [co EXCEPT ![c].st = "ok"],
         reach' = reach, frames' = frames, leaving' = leaving, chain' = chain,
         stack' = stack, cell' = cell, var' = var
  PROVE  ContextInv'
  <1>1. /\ ContextTypes /\ ChainInv /\ TreeInv /\ FrameInv /\ HomeInv
        /\ AwayInv /\ LinkInv /\ ParkInv /\ LeaveInv /\ ReachInv
    BY DEF ContextInv
  <1>2. /\ \A d \in Coroutines : d # c => co'[d] = co[d]
        /\ co'[c] = [co[c] EXCEPT !.st = "ok"] /\ co[c] \in Contexts /\ co'[c] \in Contexts
        /\ co'[c].creator = co[c].creator /\ co'[c].body = co[c].body
        /\ co'[c].st = "ok" /\ co' \in [Coroutines -> Contexts]
    <2>1. co \in [Coroutines -> Contexts]
      BY <1>1 DEF ContextTypes
    <2>2. co' = [co EXCEPT ![c] = [co[c] EXCEPT !.st = "ok"]]
      OBVIOUS
    <2>3. ASSUME NEW x \in Contexts
          PROVE  /\ [x EXCEPT !.st = "ok"] \in Contexts
                 /\ [x EXCEPT !.st = "ok"].creator = x.creator
                 /\ [x EXCEPT !.st = "ok"].body = x.body
                 /\ [x EXCEPT !.st = "ok"].st = "ok"
      BY DEF Contexts
    <2> QED
      BY <2>1, <2>2, <2>3
  <1>3. \A t \in Threads : /\ Alive(t)' <=> Alive(t)
                           /\ Suspended(t)' <=> Suspended(t)
                           /\ Started(t)' <=> Started(t)
    BY <1>2, CoroutineConstants DEF Alive, Suspended, Started, Threads
  <1>4. Parents' = Parents
    <2>1. {d \in Coroutines : co'[d].st # "none"} = {d \in Coroutines : co[d].st # "none"}
      BY <1>2
    <2>2. \A d \in Coroutines : co'[d].creator = co[d].creator
      BY <1>2
    <2> QED
      BY <2>1, <2>2 DEF Parents
  <1>5. /\ \A d \in Coroutines : /\ co'[d].st = "normal" <=> co[d].st = "normal"
                                 /\ co[d].st = "normal" \/ Alive(d) => co'[d] = co[d]
                                 /\ co'[d].creator = co[d].creator
                                 /\ co'[d].body = co[d].body
                                 /\ co'[d].st = "none" <=> co[d].st = "none"
                                 /\ d \in Threads /\ co[d].creator \in Threads
    BY <1>2, CoFacts, CoroutineConstants DEF Alive, Threads
  <1>6. ContextTypes'
    BY <1>1, <1>2 DEF ContextTypes
  <1>7. ChainInv'
    <2>1. \A i \in 1..Len(chain) : Above(chain[i])' = Above(chain[i])
      BY <1>4 DEF Above
    <2> QED
      BY <1>1, <1>5, <2>1 DEF ChainInv
  <1>8. TreeInv'
    <2> SUFFICES ASSUME NEW d \in Coroutines
                 PROVE  /\ co'[d].st = "normal" => co'[d].started
                        /\ co'[d].st # "none" /\ co'[d].creator \in Coroutines =>
                             /\ co'[co'[d].creator].st # "none"
                             /\ Alive(co[d].creator)' => co'[co'[d].creator].started
      BY DEF TreeInv
    <2> QED
      BY <1>1, <1>3, <1>5 DEF TreeInv
  <1>9. FrameInv' /\ HomeInv' /\ ParkInv'
    <2>1. \A d \in Coroutines : Started(d)' <=> Started(d)
      BY <1>3, <1>5
    <2>2. FrameInv'
      BY <1>1, <2>1 DEF FrameInv
    <2>3. \A v \in Vars : var[v].home \in Threads
      BY VarFacts
    <2> QED
      BY <1>1, <1>3, <2>2, <2>3 DEF HomeInv, ParkInv
  <1>10. \A v \in Vars : (Parked(v)' <=> Parked(v)) /\ (Shared(v) => Shared(v)')
                         /\ (Going(v)' <=> Going(v))
    <2> SUFFICES ASSUME NEW v \in Vars
                 PROVE  (Parked(v)' <=> Parked(v)) /\ (Shared(v) => Shared(v)')
                        /\ (Going(v)' <=> Going(v))
      OBVIOUS
    <2>1. var[v].home \in Threads
      BY VarFacts
    <2>2. Suspended(var[v].home) => co'[var[v].home] = co[var[v].home]
      BY <1>5 DEF Suspended, Alive
    <2>3. Parked(v)' <=> Parked(v)
      BY <1>3, <2>1, <2>2 DEF Parked
    <2>4. Shared(v) => Shared(v)'
      BY <1>5 DEF Shared
    <2> QED
      BY <2>3, <2>4 DEF Going
  <1>11. AwayInv'
    BY <1>1, <1>10 DEF AwayInv
  <1>12. LinkInv'
    <2> SUFFICES ASSUME NEW d \in Coroutines, Alive(d)' PROVE LinksOK(d)'
      BY DEF LinkInv
    <2>1. Alive(d) /\ co'[d] = co[d] /\ co[d].creator \in Threads
      BY <1>3, <1>5
    <2>2. LinksOK(d)
      BY <1>1, <2>1 DEF LinkInv
    <2>3. Alive(co[d].creator)' <=> Alive(co[d].creator)
      BY <1>3, <2>1
    <2> QED
      BY <2>1, <2>2, <2>3 DEF LinksOK, Linked
  <1>13. LeaveInv'
    <2> SUFFICES ASSUME NEW t \in Threads, leaving[t] # "no"
                 PROVE  Apart(t)' /\ (leaving[t] = "error" => Clean(t)')
      BY DEF LeaveInv
    <2>1. Apart(t) /\ (leaving[t] = "error" => Clean(t))
      BY <1>1 DEF LeaveInv
    <2>2. ASSUME NEW d \in Coroutines, Alive(d)' PROVE Alive(d) /\ co'[d] = co[d]
      BY <1>3, <1>5, <2>2
    <2> QED
      BY <1>10, <2>1, <2>2 DEF Apart, Clean
  <1>14. ReachInv'
    <2>1. \A t : Above(t)' = Above(t)
      BY <1>4 DEF Above
    <2> SUFFICES ASSUME NEW d \in Coroutines
                 PROVE  /\ Captured(co[d].body)'
                        /\ Alive(d)' /\ ~co'[d].started /\ Alive(co[d].creator)' => Given(d)'
                        /\ ~Started(d)' => reach'[d] = {}
                        /\ Started(d)' => \A t \in Threads : d \in Above(t)' => Below(d, t)'
      BY <1>1 DEF ReachInv, Captured
    <2>2. Captured(co[d].body)' /\ (~Started(d)' => reach'[d] = {})
      BY <1>1, <1>3, <1>5 DEF ReachInv, Captured
    <2>3. Alive(d)' /\ ~co'[d].started /\ Alive(co[d].creator)' => Given(d)'
      BY <1>1, <1>3, <1>5 DEF ReachInv, Given
    <2>4. ASSUME Started(d)', NEW t \in Threads, d \in Above(t)' PROVE Below(d, t)'
      <3>1. Started(d) /\ co'[d] = co[d] /\ d \in Above(t)
        BY <1>3, <1>5, <2>1, <2>4 DEF Started
      <3>2. Below(d, t)
        BY <1>1, <3>1 DEF ReachInv
      <3> QED
        BY <3>1, <3>2 DEF Below
    <2> QED
      BY <2>2, <2>3, <2>4
  <1> QED
    BY <1>6, <1>7, <1>8, <1>9, <1>11, <1>12, <1>13, <1>14 DEF ContextInv
-----------------------------------------------------------------------------
(* The actions, for programs without the habits.                             *)

(* The upvalues to be closed in a step, latest declared first.               *)
Upward(K) ==
    \A v \in K, w \in Vars :
        (/\ cell[w].st = "open" /\ var[w].tbc
         /\ var[w].home = var[v].home /\ var[w].idx > var[v].idx)
        => w \in K
ClosesTbc(K) ==
    /\ Upward(K)
    /\ \A v \in Vars :
         IF var[v].tbc
         THEN var'[v].tbc /\ cell'[v].st = IF v \in K THEN "closed" ELSE cell[v].st
         ELSE ~var'[v].tbc \/ cell'[v].st = "open"

LEMMA ClosesNone ==
  ASSUME \A v \in Vars : /\ var'[v].tbc = var[v].tbc
                         /\ var[v].tbc => cell'[v].st = cell[v].st
  PROVE  ClosesTbc({})
  BY DEF ClosesTbc, Upward

LEMMA BecomesFields ==
  ASSUME NEW r \in Machines, Becomes(r)
  PROVE  /\ Machine' = r
         /\ stack' = r.stack /\ cell' = r.cell /\ list' = r.list /\ var' = r.var
  BY MachineFields DEF Becomes, Machine

LEMMA DeclareKeeps ==
  ASSUME CoroutineInv, NEW v \in Vars, NEW tbc \in BOOLEAN, Declare(v, tbc)
  PROVE  CoroutineInv' /\ ClosesTbc({})
  <1> DEFINE t == Running
             r == IF tbc THEN DeclaredTbc(Machine, t, v) ELSE DeclaredIn(Machine, t, v, FALSE)
  <1>1. /\ MachineInv(Machine) /\ ContextInv /\ t \in Threads /\ leaving[t] = "no"
        /\ Machine.var = var /\ Machine.cell = cell /\ Machine.stack = stack
        /\ var[v].idx = 0
        /\ UNCHANGED <<chain, co, frames, leaving, reach>>
    BY RunFacts, ZenonT(40) DEF CoroutineInv, Declare, Active, Busy, Machine
  <1>2. Becomes(r)
    <2>1. CASE tbc
      <3>1. tbc = TRUE
        BY <2>1
      <3> QED
        BY <1>1, <3>1, ZenonT(40) DEF Declare, DeclaredTbc, DeclaredIn
    <2>2. CASE ~tbc
      <3>1. tbc = FALSE
        BY <2>2
      <3> QED
        BY <1>1, <3>1, ZenonT(40) DEF Declare, DeclaredIn
    <2> QED
      BY <2>1, <2>2
  <1>3. IsDeclared(Machine, t, v, tbc, r)
    <2>1. CASE tbc
      BY <1>1, <2>1, DeclaredIsDeclared
    <2>2. CASE ~tbc
      BY <1>1, <2>2, DeclaredIsDeclared
    <2> QED
      BY <2>1, <2>2
  <1> HIDE DEF r, t
  <1>4. MachineInv(r)
    BY <1>1, <1>3, DeclareInv
  <1>5. Machine' = r /\ var' = r.var /\ cell' = r.cell /\ stack' = r.stack
    BY <1>2, <1>4, BecomesFields DEF MachineInv
  <1>6. ASSUME NEW w \in Vars PROVE Steady(w) \/ Fresh(w)
    <2>1. CASE w = v
      <3>1. cell[v].st = "none" /\ ~var[v].live
        BY <1>1, VarFacts
      <3>2. var'[v].live /\ var'[v].home = t /\ var'[v].tbc = tbc
        BY <1>3, <1>5 DEF IsDeclared
      <3>3. cell'[v].st = "none" \/ (cell'[v].st = "open" /\ tbc)
        BY <1>1, <1>3, <1>5, <3>1 DEF IsDeclared, OpenCell
      <3> QED
        BY <2>1, <3>1, <3>2, <3>3 DEF Fresh, t
    <2>2. CASE w # v
      BY <1>1, <1>3, <1>5, <2>2 DEF IsDeclared, Steady, SameVar
    <2> QED
      BY <2>1, <2>2
  <1>7. \A s \in Threads : Len(stack'[s]) >= Len(stack[s])
    <2>1. stack \in [Threads -> Seq(Value)]
      BY <1>1, MachineFields DEF MachineInv
    <2>2. stack'[t] = Append(stack[t], <<v, 0>>) /\ \A s \in Threads \ {t} : stack'[s] = stack[s]
      BY <1>1, <1>3, <1>5 DEF IsDeclared
    <2>3. Len(stack'[t]) = Len(stack[t]) + 1
      BY <1>1, <2>1, <2>2
    <2>4. \A s \in Threads : Len(stack[s]) \in Nat
      BY <2>1
    <2> QED
      BY <2>2, <2>3, <2>4
  <1>8. ContextInv'
    BY <1>1, <1>4, <1>5, <1>6, <1>7, QuietStep DEF t
  <1>9. ClosesTbc({})
    <2>1. \A w \in Vars : cell'[w].st = "none" => ~var'[w].tbc
      BY <1>4, <1>5, MachineFacts
    <2>2. \A w \in Vars : var[w].tbc => cell[w].st # "none"
      BY <1>1, VarFacts
    <2> QED
      BY <1>6, <2>1, <2>2 DEF ClosesTbc, Upward, Steady, SameVar, Fresh
  <1>10. CoroutineInv'
    BY <1>4, <1>5, <1>8 DEF CoroutineInv
  <1> QED
    BY <1>9, <1>10

(* A write changes no cell's state.                                          *)
LEMMA WriteKeeps ==
  ASSUME CoroutineInv, leaving[Running] = "no", NEW r, MachineInv(r), SameVars(Machine, r),
         Becomes(r), UNCHANGED <<chain, co, frames, leaving, reach>>
  PROVE  CoroutineInv' /\ ClosesTbc({})
  <1>1. MachineInv(Machine) /\ ContextInv /\ \A t \in Threads : Len(stack[t]) \in Nat
    BY VarFacts DEF CoroutineInv
  <1>2. Machine' = r /\ var' = r.var /\ cell' = r.cell /\ stack' = r.stack
    BY BecomesFields DEF MachineInv
  <1>3. Machine.var = var /\ Machine.cell = cell /\ Machine.stack = stack
    BY DEF Machine
  <1>4. \A v \in Vars : Steady(v)
    BY <1>2, <1>3 DEF SameVars, Steady, SameVar
  <1>5. \A t \in Threads : Len(stack'[t]) >= Len(stack[t])
    BY <1>1, <1>2, <1>3 DEF SameVars
  <1>6. ContextInv'
    BY <1>1, <1>2, <1>4, <1>5, QuietStep
  <1>7. ClosesTbc({})
    BY <1>4, ClosesNone DEF Steady, SameVar
  <1> QED
    BY <1>2, <1>6, <1>7 DEF CoroutineInv

LEMMA WriteLocalKeeps ==
  ASSUME CoroutineInv, NEW v \in Vars, WriteLocal(v)
  PROVE  CoroutineInv' /\ ClosesTbc({})
  <1> DEFINE m == Machine
             r == [Written(m, v) EXCEPT
                     !.stack[m.var[v].home][m.var[v].idx] = <<v, 1 - m.var[v].ver>>]
  <1>1. /\ MachineInv(m) /\ ContextInv /\ leaving[Running] = "no"
        /\ m.var = var /\ m.cell = cell
        /\ var[v].live /\ var[v].home = Running /\ ~var[v].tbc
        /\ UNCHANGED <<chain, co, frames, leaving, reach>>
    BY DEF CoroutineInv, WriteLocal, Active, Busy, Machine, IsLocal
  <1>2. Becomes(r)
    BY <1>1 DEF WriteLocal, NewValue
  <1>3. ~Is(m, v, "closed")
    BY <1>1, OwnCells DEF Is
  <1> HIDE DEF m
  <1>4. MachineInv(r) /\ SameVars(m, r)
    BY <1>1, <1>3, WriteSlotInv
  <1> HIDE DEF r
  <1> QED
    BY <1>1, <1>2, <1>4, WriteKeeps DEF m

LEMMA WriteUpvalKeeps ==
  ASSUME CoroutineInv, NEW v \in Vars, WriteUpval(v)
  PROVE  CoroutineInv' /\ ClosesTbc({})
  <1> DEFINE m == Machine
             r == [Written(m, v) EXCEPT
                     !.stack[m.var[v].home][m.var[v].idx] = <<v, 1 - m.var[v].ver>>]
             q == [Written(m, v) EXCEPT !.cell[v].val = <<v, 1 - m.var[v].ver>>]
             w == Written(m, v)
  <1>1. /\ MachineInv(m) /\ ContextInv /\ leaving[Running] = "no"
        /\ m.var = var /\ m.cell = cell /\ m.stack = stack
        /\ v \in reach[Running] /\ ~var[v].tbc /\ var[v].via = v /\ Running \in Threads
        /\ UNCHANGED <<chain, co, frames, leaving, reach>>
    BY RunFacts, VarFacts DEF CoroutineInv, WriteUpval, Active, Busy, Machine, IsLocal
  <1>2. w.cell = cell
    BY <1>1, WrittenFields DEF MachineInv
  <1>3. cell[v].st # "none"
    BY <1>1 DEF ContextInv, ReachInv, Captured
  <1>4. CASE cell[v].st = "open"
    <2>1. var[v].home = Running
      BY <1>1, <1>4, OwnCells
    <2>2. Is(m, v, "open")
      BY <1>1, <1>4 DEF Is
    <2>3. /\ cell[v].idx = var[v].idx /\ var[v].live
          /\ cell[v].idx \in DOMAIN stack[Running]
      <3> HIDE DEF m
      <3> QED
        BY <1>1, <2>1, <2>2, SlotContent
    <2>4. Becomes(r)
      <3>1. IsOpen(w, v)
        BY <1>2, <1>4 DEF IsOpen
      <3> HIDE DEF w
      <3>2. Becomes([w EXCEPT !.stack[Running][cell[v].idx] = NewValue(v)])
        BY <1>1, <2>3, <3>1 DEF WriteUpval, w
      <3> QED
        BY <1>1, <2>1, <2>3, <3>2 DEF NewValue, w
    <2> HIDE DEF m
    <2>5. MachineInv(r) /\ SameVars(m, r)
      <3>1. ~Is(m, v, "closed")
        BY <1>1, <1>4 DEF Is
      <3> QED
        BY <1>1, <2>3, <3>1, WriteSlotInv
    <2> HIDE DEF r
    <2> QED
      BY <1>1, <2>4, <2>5, WriteKeeps DEF m
  <1>5. CASE cell[v].st # "open"
    <2>1. Is(m, v, "closed")
      BY <1>1, <1>3, <1>5, VarFacts DEF Is
    <2>2. Becomes(q)
      <3>1. ~IsOpen(w, v)
        BY <1>2, <1>5 DEF IsOpen
      <3> HIDE DEF w
      <3>2. Becomes([w EXCEPT !.cell[v].val = NewValue(v)])
        BY <1>1, <3>1 DEF WriteUpval, w
      <3> QED
        BY <1>1, <3>2 DEF NewValue, w
    <2> HIDE DEF m
    <2>3. MachineInv(q) /\ SameVars(m, q)
      BY <1>1, <2>1, WriteCellInv
    <2> HIDE DEF q
    <2> QED
      BY <1>1, <2>2, <2>3, WriteKeeps DEF m
  <1> QED
    BY <1>4, <1>5

LEMMA CallKeeps ==
  ASSUME CoroutineInv, NEW guard \in {"none", "armed"}, Call(guard)
  PROVE  CoroutineInv' /\ ClosesTbc({})
  <1> DEFINE t == Running
             n == Len(stack[t])
             f == frames[t]
             g == Append(f, [base |-> n + 1, guard |-> guard])
  <1>1. /\ MachineInv(Machine) /\ ContextInv /\ t \in Threads /\ leaving[t] = "no"
        /\ f # <<>> /\ n \in Nat
        /\ UNCHANGED <<chain, co, stack, leaving, var, cell, list, reach>>
    BY RunFacts, VarFacts DEF CoroutineInv, Call, Active, Busy
  <1>2. FramesOK(f, n)
    BY <1>1 DEF ContextInv, FrameInv
  <1>3. frames' = [frames EXCEPT ![t] = g]
    BY DEF Call
  <1>4. g = Append(f, [base |-> n + 1, guard |-> guard])
    OBVIOUS
  <1>5. Machine' = Machine
    BY <1>1 DEF Machine
  <1> HIDE DEF f, g, n
  <1>6. FramesOK(g, n) /\ g # <<>> /\ g[1] = f[1]
    <2>1. n \in Nat /\ f # <<>>
      BY <1>1
    <2> QED
      BY ONLY <1>2, <1>4, <2>1, guard \in {"none", "armed"}, FramesCalled, ZenonT(40)
  <1>0. t \notin Coroutines => \A i \in 1..Len(g) : g[i].guard # "yielded"
    <2>1. f \in Seq(Frames) /\ Len(f) \in Nat
      BY <1>2 DEF FramesOK
    <2>2. /\ Len(g) = Len(f) + 1 /\ g[Len(f) + 1].guard = guard
          /\ \A i \in 1..Len(f) : g[i] = f[i]
      BY <2>1, <1>4
    <2>3. t \notin Coroutines => \A i \in 1..Len(f) : f[i].guard # "yielded"
      BY <1>1 DEF ContextInv, FrameInv, Threads, f
    <2> QED
      BY <2>1, <2>2, <2>3
  <1>7. ContextInv'
    BY <1>0, <1>1, <1>3, <1>6, CallStep DEF f, n
  <1>8. ClosesTbc({})
    BY <1>1, ClosesNone
  <1> QED
    BY <1>1, <1>5, <1>7, <1>8 DEF CoroutineInv

LEMMA BeginReturnKeeps ==
  ASSUME Habits = {}, CoroutineInv, BeginReturn
  PROVE  CoroutineInv' /\ ClosesTbc({})
  <1>1. /\ MachineInv(Machine) /\ ContextInv /\ leaving[Running] = "no"
        /\ frames[Running] # <<>>
        /\ leaving' = [leaving EXCEPT ![Running] = "return"]
        /\ UNCHANGED <<chain, co, stack, frames, var, cell, list, reach>>
    BY DEF CoroutineInv, BeginReturn, Active, Busy
  <1>2. ~SharesFrame(co, Machine, Running, LeaveBaseIn(frames[Running], "return"))
    BY DEF BeginReturn, LeaveBaseIn, Innermost
  <1>3. Machine' = Machine
    BY <1>1 DEF Machine
  <1>4. ContextInv'
    BY <1>1, <1>2, BeginStep
  <1>5. ClosesTbc({})
    BY <1>1, ClosesNone
  <1> QED
    BY <1>1, <1>3, <1>4, <1>5 DEF CoroutineInv

(* What MayRaise grants.                                                     *)
LEMMA RaiseFacts ==
  ASSUME Habits = {}, ContextInv, NEW x, NEW m, MachineInv(m), NEW t \in Threads,
         NEW n \in Nat, FramesOK(frames[t], n), frames[t] # <<>>, MayRaise(x, m, t)
  PROVE  /\ ~SharesFrame(x, m, t, BaseIn(frames[t]))
         /\ ToClose(m, t, BaseIn(frames[t])) \ ToClose(m, t, ErrorLevelIn(frames[t])) = {}
  <1> DEFINE b == BaseIn(frames[t])
             e == ErrorBase(t)
             l == ErrorLevelIn(frames[t])
  <1>1. frames[t] \in Seq(Frames) /\ ErrorLevel(t) = l
    BY LeaveTerms DEF FramesOK
  <1>2. e \in Nat /\ b \in Nat /\ e <= b
    BY ErrorBases, LevelFacts
  <1>3. ToClose(m, t, e) \ ToClose(m, t, l) = {} /\ ~SharesFrame(x, m, t, e)
    BY <1>1 DEF MayRaise, LeftOpen
  <1> HIDE DEF b, e, l
  <1>4. ToClose(m, t, b) \subseteq ToClose(m, t, e)
    <2>1. \A u \in Vars : m.var[u].idx \in Nat
      BY MachineFacts
    <2>2. \A w \in ToClose(m, t, b) : /\ w \in Vars /\ Is(m, w, "open")
                                      /\ m.var[w].home = t /\ m.var[w].idx >= b
      BY ToCloseMember
    <2>3. \A w \in ToClose(m, t, b) : m.var[w].idx >= e
      BY <1>2, <2>1, <2>2
    <2> QED
      BY <2>2, <2>3, ToCloseMember
  <1>5. ~SharesFrame(x, m, t, b)
    BY <1>3, <1>4 DEF SharesFrame
  <1> QED
    BY <1>3, <1>4, <1>5 DEF b, l

LEMMA BeginErrorKeeps ==
  ASSUME Habits = {}, CoroutineInv, BeginError
  PROVE  CoroutineInv' /\ ClosesTbc({})
  <1>1. /\ MachineInv(Machine) /\ ContextInv /\ leaving[Running] = "no"
        /\ frames[Running] # <<>> /\ MayRaise(co, Machine, Running)
        /\ leaving' = [leaving EXCEPT ![Running] = "error"]
        /\ UNCHANGED <<chain, co, stack, frames, var, cell, list, reach>>
    BY DEF CoroutineInv, BeginError, Active, Busy
  <1>2. /\ ~SharesFrame(co, Machine, Running, BaseIn(frames[Running]))
        /\ ToClose(Machine, Running, BaseIn(frames[Running]))
             \ ToClose(Machine, Running, ErrorLevelIn(frames[Running])) = {}
    <2>1. /\ Running \in Threads /\ Len(stack[Running]) \in Nat
          /\ FramesOK(frames[Running], Len(stack[Running]))
      BY <1>1, RunFacts, VarFacts DEF ContextInv, FrameInv
    <2> QED
      BY <1>1, <2>1, RaiseFacts
  <1>3. ~SharesFrame(co, Machine, Running, LeaveBaseIn(frames[Running], "error"))
    BY <1>2 DEF LeaveBaseIn
  <1>4. Machine' = Machine
    BY <1>1 DEF Machine
  <1>5. ContextInv'
    BY <1>1, <1>2, <1>3, BeginStep
  <1>6. ClosesTbc({})
    BY <1>1, ClosesNone
  <1> QED
    BY <1>1, <1>4, <1>5, <1>6 DEF CoroutineInv

LEMMA LeavingLevel ==
  ASSUME CoroutineInv, leaving[Running] # "no"
  PROVE  LevelIn(frames[Running], leaving[Running]) \in Nat
  <1>1. /\ Running \in Threads /\ Len(stack[Running]) \in Nat
        /\ FramesOK(frames[Running], Len(stack[Running])) /\ frames[Running] # <<>>
    BY RunFacts, VarFacts DEF CoroutineInv, ContextInv, FrameInv
  <1> QED
    BY <1>1, LevelFacts

(* The cell the loop in close takes next.                                    *)
LEMMA NextCell ==
  ASSUME NEW m, MachineInv(m), NEW t \in Threads, NEW l, ToClose(m, t, l) # {}
  PROVE  LET u == Highest(m, ToClose(m, t, l)) IN
         /\ u \in Vars /\ u \in m.list[t] /\ Is(m, u, "open") /\ m.var[u].home = t
         /\ m.var[u].idx >= l /\ m.cell[u].tbc = m.var[u].tbc
         /\ \A w \in Vars : /\ Is(m, w, "open") /\ m.var[w].home = t /\ m.var[w].idx >= l
                            => m.var[u].idx >= m.var[w].idx
  <1> DEFINE S == ToClose(m, t, l)
             u == Highest(m, S)
  <1>0. S \in SUBSET m.list[t]
    BY DEF ToClose
  <1>1. \A w : w \in S <=> /\ w \in Vars /\ Is(m, w, "open") /\ m.var[w].home = t
                           /\ m.var[w].idx >= l
    BY ToCloseMember
  <1> HIDE DEF S
  <1>2. u \in S /\ \A w \in S : m.var[u].idx >= m.var[w].idx
    BY <1>0, HighestCell DEF S
  <1> HIDE DEF u
  <1>3. m.cell[u].tbc = m.var[u].tbc
    BY <1>1, <1>2, SlotContent
  <1>4. /\ u \in Vars /\ u \in m.list[t] /\ Is(m, u, "open") /\ m.var[u].home = t
        /\ m.var[u].idx >= l
        /\ \A w \in Vars : /\ Is(m, w, "open") /\ m.var[w].home = t /\ m.var[w].idx >= l
                           => m.var[u].idx >= m.var[w].idx
    BY <1>0, <1>1, <1>2
  <1> QED
    BY <1>3, <1>4 DEF u, S

LEMMA CloseStepKeeps ==
  ASSUME Habits = {}, CoroutineInv, NEW outcome \in {"ok", "error"}, CloseStep(outcome)
  PROVE  CoroutineInv' /\ \E K : ClosesTbc(K)
  <1> DEFINE t == Running
             l == LevelIn(frames[t], leaving[t])
             m == Machine
             u == Highest(m, ToClose(m, t, l))
             r == Close(m, t, {u})
             why == IF outcome = "error" THEN "error" ELSE leaving[t]
  <1>1. /\ MachineInv(m) /\ ContextInv /\ t \in Threads /\ leaving[t] # "no"
        /\ m.var = var /\ m.cell = cell /\ m.stack = stack
        /\ UNCHANGED <<chain, co, frames, reach>>
        /\ frames[t] \in Seq(Frames) /\ co \in [Coroutines -> Contexts]
    BY RunFacts DEF CoroutineInv, ContextInv, ContextTypes, CloseStep, Closing, Busy, Machine
  <1>2. Level(t) = l
    BY <1>1, LeaveTerms
  <1>3. ToClose(m, t, l) # {} /\ Becomes(r)
    BY <1>2 DEF CloseStep
  <1>4. /\ outcome = "error" => leaving[t] = "error" \/ MayRaise(co, m, t)
        /\ leaving' = IF outcome = "error" THEN [leaving EXCEPT ![t] = "error"] ELSE leaving
    BY DEF CloseStep
  <1> HIDE DEF m, l
  <1>5. /\ u \in Vars /\ u \in m.list[t] /\ Is(m, u, "open") /\ m.var[u].home = t
        /\ m.var[u].idx >= l
        /\ \A w \in Vars : (Is(m, w, "open") /\ m.var[w].home = t /\ m.var[w].idx >= l)
                           => m.var[u].idx >= m.var[w].idx
    BY <1>1, <1>3, NextCell
  <1>. HIDE DEF u
  <1>6. /\ MachineInv(r) /\ r.stack = m.stack
        /\ \A v \in Vars :
             /\ r.cell[v].st = IF v \in {u} THEN "closed" ELSE m.cell[v].st
             /\ r.var[v].live = m.var[v].live /\ r.var[v].home = m.var[v].home
             /\ r.var[v].idx = m.var[v].idx /\ r.var[v].tbc = m.var[v].tbc
    BY <1>1, <1>5, CloseInv
  <1> HIDE DEF r
  <1>7. Machine' = r /\ var' = r.var /\ cell' = r.cell /\ stack' = r.stack
    BY <1>3, <1>6, BecomesFields DEF MachineInv
  <1>8. \A v \in Vars : SameVar(v) /\ cell'[v].st = IF v = u THEN "closed" ELSE cell[v].st
    BY <1>1, <1>6, <1>7 DEF SameVar
  <1>9. /\ why \in {"return", "error"} /\ leaving' = [leaving EXCEPT ![t] = why]
        /\ leaving \in [Threads -> {"no", "return", "error"}]
    <2>1. leaving \in [Threads -> {"no", "return", "error"}]
      BY <1>1 DEF ContextInv, ContextTypes
    <2> HIDE DEF t
    <2> QED
      BY <1>1, <1>4, <2>1
  <1>10. \/ why = leaving[t]
         \/ /\ why = "error"
            /\ ~SharesFrame(co, m, t, BaseIn(frames[t]))
            /\ ToClose(m, t, BaseIn(frames[t])) \ ToClose(m, t, ErrorLevelIn(frames[t])) = {}
    <2>1. FramesOK(frames[t], Len(stack[t])) /\ Len(stack[t]) \in Nat /\ frames[t] # <<>>
      BY <1>1, VarFacts DEF m, ContextInv, FrameInv
    <2> HIDE DEF t
    <2> QED
      BY <1>1, <1>4, <2>1, RaiseFacts
  <1> HIDE DEF why
  <1>11. ContextInv'
    <2>1. MachineInv(Machine') /\ stack' = stack
      BY <1>1, <1>6, <1>7
    <2>2. var[u].home = Running /\ cell[u].st = "open" /\ {u} \in SUBSET Vars
          /\ var[u].idx >= LevelIn(frames[Running], leaving[Running])
      BY <1>1, <1>5 DEF Is, l
    <2>3. \A d \in Coroutines : Untouched(d)
      BY <1>1 DEF Untouched
    <2>4. \A v \in Vars : cell'[v].st = IF v \in {u} THEN "closed" ELSE cell[v].st
      BY <1>8
    <2> QED
      BY <1>1, <1>8, <1>9, <1>10, <2>1, <2>2, <2>3, <2>4, CloseSomeStep DEF m
  <1>12. Upward({u})
    <2>1. \A w \in Vars : /\ var[w].idx \in Nat
                          /\ cell[w].st = "open" /\ var[w].home = t /\ var[w].idx >= l
                             => var[u].idx >= var[w].idx
      BY <1>1, <1>5, VarFacts DEF CoroutineInv, Is
    <2>2. var[u].home = t /\ var[u].idx >= l /\ u \in Vars
      BY <1>1, <1>5
    <2>3. l \in Nat /\ var[u].idx \in Nat
      BY <1>1, <2>1, <2>2, LeavingLevel DEF l
    <2> QED
      BY <2>1, <2>2, <2>3 DEF Upward
  <1>13. ClosesTbc({u})
    BY <1>8, <1>12 DEF ClosesTbc, SameVar
  <1> QED
    BY <1>6, <1>7, <1>11, <1>13 DEF CoroutineInv

(* The stack of a coroutine is dropped, and what it shared is open again.    *)
Ended(m, c, O, r) ==
    /\ \A v \in Vars :
         /\ r.var[v].home = m.var[v].home /\ r.var[v].idx = m.var[v].idx
         /\ r.var[v].tbc = m.var[v].tbc
         /\ r.var[v].live <=> m.var[v].live /\ m.var[v].home # c
         /\ r.cell[v].st = IF v \in O THEN "open" ELSE m.cell[v].st
    /\ \A t \in Threads : Len(r.stack[t]) = IF t = c THEN 0 ELSE Len(m.stack[t])

(* Dropping a stack that may have been cut already.                          *)
LEMMA DroppedFields ==
  ASSUME NEW k, MachineInv(k), NEW c \in Threads, NEW m, MachineInv(m),
         m = k \/ IsCut(k, c, 1, m),
         \A v \in Vars : ~(Is(k, v, "open") /\ k.var[v].home = c)
  PROVE  MachineInv(Dropped(m, c)) /\ IsCut(k, c, 1, Dropped(m, c))
  <1> DEFINE d == Dropped(m, c)
  <1>1. \A v \in Vars : ~(Is(m, v, "open") /\ m.var[v].home = c)
    BY DEF IsCut, Is
  <1>2. MachineInv(d) /\ IsCut(m, c, 1, d)
    BY <1>1, DroppedInv
  <1> HIDE DEF d
  <1>3. IsCut(k, c, 1, d)
    <2>1. CASE m = k
      BY <1>2, <2>1
    <2>2. CASE IsCut(k, c, 1, m)
      BY <1>2, <2>2 DEF IsCut
    <2> QED
      BY <2>1, <2>2
  <1> QED
    BY <1>2, <1>3 DEF d

LEMMA FinishMachine ==
  ASSUME MachineInv(Machine), ContextInv, Running \in Coroutines, NEW m, MachineInv(m),
         m = Machine \/ IsCut(Machine, Running, 1, m),
         \A v \in Vars : ~(cell[v].st = "open" /\ var[v].home = Running)
  PROVE  LET r == Settle(Dropped(m, Running), Running, TRUE) IN
         MachineInv(r) /\ Ended(Machine, Running, DOMAIN co[Running].origins, r)
  <1> DEFINE c == Running
             k == Machine
             d == Dropped(m, c)
             O == co[c].origins
             r == SyncBack(d, Resumer, O)
  <1>1. /\ c \in Threads /\ co[c].creator = Resumer /\ Resumer \in Threads /\ Resumer # c
        /\ Alive(c) /\ Alive(Resumer) /\ k.var = var /\ k.cell = cell /\ k.stack = stack
    BY RunFacts DEF Machine
  <1>2. Settle(d, c, TRUE) = r
    BY <1>1 DEF Settle
  <1>3. MachineInv(d) /\ IsCut(k, c, 1, d)
    <2>1. \A v \in Vars : ~(Is(k, v, "open") /\ k.var[v].home = c)
      BY <1>1 DEF Is
    <2>2. m = k \/ IsCut(k, c, 1, m)
      OBVIOUS
    <2>3. MachineInv(k)
      OBVIOUS
    <2> HIDE DEF k, c
    <2> QED
      BY <1>1, <2>1, <2>2, <2>3, DroppedFields
  <1>4. MayReopen(d, Resumer, O)
    <2>1. LinksOK(c) /\ DOMAIN O \subseteq Vars
      BY <1>1, CoFacts DEF ContextInv, LinkInv
    <2>2. \A u \in DOMAIN O : /\ var[u].live /\ ~var[u].tbc /\ var[u].home = Resumer
                              /\ O[u] = var[u].idx /\ cell[u].st # "none"
      BY <1>1, <2>1 DEF LinksOK, Linked
    <2> HIDE DEF d, O, c, k
    <2>3. \A u \in Vars : /\ d.var[u].home = var[u].home /\ d.var[u].idx = var[u].idx
                          /\ d.var[u].tbc = var[u].tbc /\ d.cell[u] = cell[u]
                          /\ var[u].live /\ var[u].home # c => d.var[u].live
      BY <1>1, <1>3 DEF IsCut
    <2> QED
      BY <1>1, <2>1, <2>2, <2>3 DEF MayReopen, Is
  <1> HIDE DEF d, O, c, k
  <1>5. /\ MachineInv(r) /\ SameShape(d, r)
        /\ \A u \in Vars : r.cell[u].st = IF u \in DOMAIN O THEN "open" ELSE d.cell[u].st
    BY <1>1, <1>3, <1>4, SyncBackInv
  <1> HIDE DEF r
  <1>6. Ended(k, c, DOMAIN O, r)
    <2>1. \A v \in Vars : 
            /\ r.var[v].home = k.var[v].home /\ r.var[v].idx = k.var[v].idx
            /\ r.var[v].tbc = k.var[v].tbc
            /\ r.var[v].live <=> k.var[v].live /\ k.var[v].home # c
            /\ r.cell[v].st = IF v \in DOMAIN O THEN "open" ELSE k.cell[v].st
      <3> SUFFICES ASSUME NEW v \in Vars
                   PROVE  /\ r.var[v].home = k.var[v].home /\ r.var[v].idx = k.var[v].idx
                          /\ r.var[v].tbc = k.var[v].tbc
                          /\ r.var[v].live <=> k.var[v].live /\ k.var[v].home # c
                          /\ r.cell[v].st = IF v \in DOMAIN O THEN "open" ELSE k.cell[v].st
        OBVIOUS
      <3>1. r.var = d.var /\ d.cell = k.cell
        BY <1>3, <1>5 DEF SameShape, IsCut
      <3>2. k.var[v].live => k.var[v].idx >= 1
        <4>1. var[v].live => var[v].idx \in 1..Len(stack[var[v].home])
          BY VarFacts
        <4>2. var[v].home \in Threads /\ \A t \in Threads : Len(stack[t]) \in Nat
          BY VarFacts
        <4> QED
          BY <1>1, <4>1, <4>2
      <3>3. /\ d.var[v].home = k.var[v].home /\ d.var[v].idx = k.var[v].idx
            /\ d.var[v].tbc = k.var[v].tbc
            /\ d.var[v].live <=> k.var[v].live /\ ~(k.var[v].home = c /\ k.var[v].idx >= 1)
        BY <1>3 DEF IsCut
      <3> QED
        BY <1>5, <3>1, <3>2, <3>3
    <2>2. \A t \in Threads : Len(r.stack[t]) = IF t = c THEN 0 ELSE Len(k.stack[t])
      BY <1>3, <1>5 DEF SameShape, IsCut
    <2> QED
      BY <2>1, <2>2 DEF Ended
  <1> QED
    BY <1>2, <1>5, <1>6 DEF r, d, O, c, k

(* A coroutine that ends, with the error its resumer has to raise or not.    *)
LEMMA FinishKeeps ==
  ASSUME MachineInv(Machine), ContextInv, Running \in Coroutines, NEW m, MachineInv(m),
         m = Machine \/ IsCut(Machine, Running, 1, m),
         \A v \in Vars : ~(cell[v].st = "open" /\ var[v].home = Running),
         NEW status \in {"ok", "error"}, Finish(m, Running, status),
         frames' = [frames EXCEPT ![Running] = <<>>],
         NEW why \in {"no", "error"},
         leaving' = [leaving EXCEPT ![Running] = "no", ![Resumer] = why],
         why = "error" =>
           /\ ~SharesFrame(co', Machine', Resumer, BaseIn(frames[Resumer]))
           /\ ToClose(Machine', Resumer, BaseIn(frames[Resumer]))
                \ ToClose(Machine', Resumer, ErrorLevelIn(frames[Resumer])) = {}
  PROVE  CoroutineInv' /\ ClosesTbc({})
  <1> DEFINE r == Settle(Dropped(m, Running), Running, TRUE)
  <1>1. MachineInv(r) /\ Ended(Machine, Running, DOMAIN co[Running].origins, r)
    BY FinishMachine
  <1>2. /\ Becomes(r) /\ co' = [co EXCEPT ![Running] = Dead(Running, status)]
        /\ reach' = [reach EXCEPT ![Running] = {}] /\ chain' = Front(chain)
    BY DEF Finish
  <1> HIDE DEF r
  <1>3. Machine' = r /\ var' = r.var /\ cell' = r.cell /\ stack' = r.stack
    BY <1>1, <1>2, BecomesFields DEF MachineInv
  <1>4. MachineInv(Machine')
    BY <1>1, <1>3
  <1>5. /\ \A v \in Vars :
             /\ var'[v].home = var[v].home /\ var'[v].idx = var[v].idx
             /\ var'[v].tbc = var[v].tbc
             /\ var'[v].live <=> var[v].live /\ var[v].home # Running
             /\ cell'[v].st = IF v \in DOMAIN co[Running].origins THEN "open" ELSE cell[v].st
        /\ \A t \in Threads : Len(stack'[t]) = IF t = Running THEN 0 ELSE Len(stack[t])
    <2>1. Machine.var = var /\ Machine.cell = cell /\ Machine.stack = stack
      BY DEF Machine
    <2> QED
      BY <1>1, <1>3, <2>1 DEF Ended
  <1>6. ContextInv'
    BY <1>2, <1>4, <1>5, FinishStep
  <1>7. ClosesTbc({})
    <2>1. \A u \in DOMAIN co[Running].origins : ~var[u].tbc
      BY RunFacts DEF ContextInv, LinkInv, LinksOK, Linked
    <2> QED
      BY <1>5, <2>1, ClosesNone
  <1> QED
    BY <1>4, <1>6, <1>7 DEF CoroutineInv

(* Where the frames of the running thread are cut, when it leaves for good.  *)
LEMMA LeavingFacts ==
  ASSUME CoroutineInv, leaving[Running] # "no",
         ToClose(Machine, Running, Level(Running)) = {}
  PROVE  LET f == frames[Running]
             b == LeaveBaseIn(f, leaving[Running])
         IN  /\ FramesOK(f, Len(stack[Running])) /\ f # <<>> /\ Len(f) \in Nat \ {0}
             /\ b \in Nat \ {0} /\ b <= Len(stack[Running]) + 1 /\ f[1].base = 1
             /\ \A v \in Vars : cell[v].st = "open" /\ var[v].home = Running => var[v].idx < b
             /\ leaving[Running] \in {"return", "error"}
             /\ Running \in Coroutines => f[1].guard = "none"
             /\ Running \notin Coroutines => f[1].guard = "armed" /\ Running = Main
  <1> DEFINE f == frames[Running]
             b == LeaveBaseIn(f, leaving[Running])
             l == LevelIn(f, leaving[Running])
             n == Len(stack[Running])
  <1>1. /\ MachineInv(Machine) /\ ContextInv /\ Running \in Threads /\ n \in Nat
        /\ Machine.var = var /\ Machine.cell = cell
    BY RunFacts, VarFacts DEF CoroutineInv, Machine
  <1>2. /\ FramesOK(f, n) /\ f # <<>> /\ leaving[Running] \in {"return", "error"}
        /\ Running \in Coroutines => f[1].guard = "none"
        /\ Running \notin Coroutines => f[1].guard = "armed" /\ Running = Main
    BY <1>1, RunFacts DEF ContextInv, ContextTypes, FrameInv
  <1>3. ToClose(Machine, Running, l) = {}
    BY <1>2, LeaveTerms DEF FramesOK
  <1>4. \A v \in Vars : ~(cell[v].st = "open" /\ var[v].home = Running /\ var[v].idx >= l)
    BY <1>1, <1>3, ToCloseMember DEF Is
  <1>5. /\ b \in Nat \ {0} /\ l \in Nat \ {0} /\ b <= n + 1 /\ f[1].base = 1
        /\ Len(f) \in Nat \ {0}
    <2>1. f \in Seq(Frames) /\ f[1].base = 1
      BY <1>2 DEF FramesOK
    <2> HIDE DEF f, n
    <2>2. Len(f) \in Nat \ {0}
      BY <1>2, <2>1
    <2>3. /\ b \in Nat \ {0} /\ l \in Nat \ {0} /\ b <= l /\ Last(f).base <= n + 1
          /\ l <= Last(f).base /\ Last(f).base \in Nat
      BY <1>1, <1>2, LevelFacts
    <2> HIDE DEF b, l
    <2>4. b <= n + 1
      BY <1>1, <2>3
    <2> QED
      BY <2>1, <2>2, <2>3, <2>4
  <1>6. \A v \in Vars : cell[v].st = "open" /\ var[v].home = Running => var[v].idx < b
    <2> SUFFICES ASSUME NEW v \in Vars, cell[v].st = "open", var[v].home = Running,
                        var[v].idx >= b
                 PROVE  FALSE
      BY <1>1, <1>5, VarFacts
    <2>1. CASE leaving[Running] = "error"
      <3>1. Clean(Running) /\ b = BaseIn(f) /\ l = ErrorLevelIn(f)
        BY <1>1, <2>1 DEF ContextInv, LeaveInv, LeaveBaseIn, LevelIn
      <3> QED
        BY <1>4, <3>1 DEF Clean
    <2>2. CASE leaving[Running] # "error"
      BY <1>4, <2>2 DEF LeaveBaseIn, LevelIn
    <2> QED
      BY <2>1, <2>2
  <1> QED
    BY <1>2, <1>5, <1>6

(* The frames of the running thread are cut to the first k.                  *)
LEMMA CutKeeps ==
  ASSUME CoroutineInv, leaving[Running] # "no",
         ToClose(Machine, Running, Level(Running)) = {},
         NEW k \in 0..(Len(frames[Running]) - 1), Running \in Coroutines => k # 0,
         frames[Running][k + 1].base = LeaveBaseIn(frames[Running], leaving[Running]),
         Becomes(Truncate(Machine, Running, LeaveBaseIn(frames[Running], leaving[Running]))),
         frames' = [frames EXCEPT ![Running] = SubSeq(frames[Running], 1, k)],
         leaving' = [leaving EXCEPT ![Running] = "no"],
         UNCHANGED <<chain, co, reach>>
  PROVE  CoroutineInv' /\ ClosesTbc({})
  <1> DEFINE b == LeaveBaseIn(frames[Running], leaving[Running])
             m == Machine
             r == Truncate(m, Running, b)
  <1>1. /\ MachineInv(m) /\ ContextInv /\ Running \in Threads
        /\ m.var = var /\ m.cell = cell /\ m.stack = stack
    BY RunFacts DEF CoroutineInv, Machine
  <1>2. /\ b \in Nat \ {0} /\ b <= Len(m.stack[Running]) + 1
        /\ \A v \in Vars : Is(m, v, "open") /\ m.var[v].home = Running => m.var[v].idx < b
    BY <1>1, LeavingFacts DEF Is
  <1>3. Becomes(r) /\ b = frames[Running][k + 1].base
    OBVIOUS
  <1> HIDE DEF b, m
  <1>4. MachineInv(r) /\ IsCut(m, Running, b, r)
    BY <1>1, <1>2, TruncateInv
  <1> HIDE DEF r
  <1>5. Machine' = r
    BY <1>3, <1>4, BecomesFields DEF MachineInv
  <1>6. ContextInv'
    <2>1. b = LeaveBaseIn(frames[Running], leaving[Running])
      BY DEF b
    <2>2. MachineInv(Machine) /\ MachineInv(Machine') /\ IsCut(Machine, Running, b, Machine')
      BY <1>1, <1>4, <1>5 DEF m
    <2> QED
      BY <1>1, <1>3, <2>1, <2>2, LeftStep
  <1>7. ClosesTbc({})
    <2>1. /\ Machine'.var = var' /\ Machine'.cell = cell'
      BY DEF Machine
    <2>2. r.var = var' /\ r.cell = cell'
      BY <1>5, <2>1
    <2> QED
      BY <1>1, <1>4, <2>2, ClosesNone DEF IsCut
  <1> QED
    BY <1>4, <1>5, <1>6, <1>7 DEF CoroutineInv

LEMMA EndReturnKeeps ==
  ASSUME CoroutineInv, EndReturn
  PROVE  CoroutineInv' /\ ClosesTbc({})
  <1> DEFINE t == Running
             f == frames[t]
             b == LeaveBaseIn(f, leaving[t])
             m == Truncate(Machine, t, b)
  <1>1. /\ MachineInv(Machine) /\ ContextInv /\ t \in Threads
        /\ Machine.var = var /\ Machine.cell = cell /\ Machine.stack = stack
        /\ frames \in [Threads -> Seq(Frames)]
        /\ leaving \in [Threads -> {"no", "return", "error"}]
    BY RunFacts DEF CoroutineInv, Machine, ContextInv, ContextTypes
  <1>2. /\ leaving[t] = "return" /\ ToClose(Machine, t, Level(t)) = {}
        /\ leaving' = [leaving EXCEPT ![t] = "no"]
    BY DEF EndReturn
  <1>3. /\ Len(f) \in Nat \ {0} /\ f \in Seq(Frames) /\ f[1].base = 1
        /\ b \in Nat \ {0} /\ b <= Len(stack[t]) + 1
        /\ \A v \in Vars : cell[v].st = "open" /\ var[v].home = t => var[v].idx < b
    BY <1>1, <1>2, LeavingFacts
  <1>4. /\ b = f[Len(f)].base /\ Returning(t) = Len(f)
        /\ frames' = [frames EXCEPT ![t] = SubSeq(f, 1, Len(f) - 1)]
    <2>1. b = f[Len(f)].base /\ Innermost(t) = f[Len(f)]
      BY <1>2 DEF LeaveBaseIn, Innermost, Last
    <2>2. f[Len(f)].guard # "last"
      BY <1>3, FramesMember
    <2>3. Returning(t) = Len(f)
      BY <2>1, <2>2 DEF Returning
    <2> QED
      BY <2>1, <2>3 DEF EndReturn
  <1>5. IF t \in Coroutines /\ Len(f) = 1 THEN Finish(m, t, "ok")
        ELSE Becomes(m) /\ UNCHANGED <<chain, co, reach>>
    BY <1>4 DEF EndReturn
  <1>6. CASE t \in Coroutines /\ Len(f) = 1
    <2>1. b = 1 /\ SubSeq(f, 1, Len(f) - 1) = <<>> /\ Finish(m, t, "ok")
      <3> HIDE DEF f, m, b
      <3> QED
        BY <1>3, <1>4, <1>5, <1>6
    <2>2. MachineInv(m) /\ IsCut(Machine, t, 1, m)
      <3> DEFINE k == Machine
      <3>1. /\ MachineInv(k) /\ b <= Len(k.stack[t]) + 1
            /\ \A v \in Vars : Is(k, v, "open") /\ k.var[v].home = t => k.var[v].idx < b
        BY <1>1, <1>3 DEF Is
      <3> HIDE DEF k, b
      <3>2. MachineInv(Truncate(k, t, b)) /\ IsCut(k, t, b, Truncate(k, t, b))
        BY <1>1, <1>3, <3>1, TruncateInv
      <3> QED
        BY <2>1, <3>2 DEF k
    <2>3. \A v \in Vars : ~(cell[v].st = "open" /\ var[v].home = t)
      <3>1. \A v \in Vars : cell[v].st = "open" => var[v].idx # 0 /\ var[v].idx \in Nat
        BY <1>1, VarFacts
      <3> HIDE DEF b
      <3> QED
        BY <1>3, <2>1, <3>1
    <2>4. leaving' = [leaving EXCEPT ![t] = "no", ![Resumer] = "no"]
      <3>1. leaving[Resumer] = "no" /\ Resumer \in Threads
        BY <1>1, <1>6, RunFacts
      <3> HIDE DEF t
      <3> QED
        BY <1>1, <1>2, <3>1
    <2>5. frames' = [frames EXCEPT ![t] = <<>>]
      BY <1>4, <2>1
    <2> HIDE DEF m
    <2> QED
      BY <1>1, <1>6, <2>1, <2>2, <2>3, <2>4, <2>5, FinishKeeps
  <1>7. CASE ~(t \in Coroutines /\ Len(f) = 1)
    <2> DEFINE k == Len(f) - 1
    <2>1. k \in 0..(Len(f) - 1) /\ (t \in Coroutines => k # 0) /\ k + 1 = Len(f)
      <3> HIDE DEF f
      <3> QED
        BY <1>3, <1>7
    <2>2. Becomes(m) /\ UNCHANGED <<chain, co, reach>>
      BY <1>5, <1>7
    <2>3. frames' = [frames EXCEPT ![t] = SubSeq(f, 1, k)] /\ f[k + 1].base = b
      BY <1>4, <2>1
    <2> HIDE DEF k
    <2> QED
      BY <1>2, <2>1, <2>2, <2>3, CutKeeps
  <1> QED
    BY <1>6, <1>7

LEMMA EndErrorKeeps ==
  ASSUME Habits = {}, CoroutineInv, EndError
  PROVE  CoroutineInv' /\ ClosesTbc({})
  <1> DEFINE t == Running
             f == frames[t]
             h == HandlerIn(f)
             b == LeaveBaseIn(f, leaving[t])
  <1>1. /\ MachineInv(Machine) /\ ContextInv /\ t \in Threads
        /\ frames \in [Threads -> Seq(Frames)]
        /\ leaving \in [Threads -> {"no", "return", "error"}]
    BY RunFacts DEF CoroutineInv, ContextInv, ContextTypes
  <1>2. /\ leaving[t] = "error" /\ ToClose(Machine, t, Level(t)) = {}
        /\ frames' = [frames EXCEPT ![t] = Beneath(t)]
        /\ HasYielded(t) => Handler(t) = 2
        /\ f \in Seq(Frames) /\ h = Handler(t)
    BY <1>1, LeaveTerms DEF EndError, Closing
  <1>3. /\ Len(f) \in Nat \ {0} /\ f # <<>> /\ f[1].base = 1
        /\ FramesOK(f, Len(stack[t])) /\ Len(stack[t]) \in Nat
        /\ \A v \in Vars : cell[v].st = "open" /\ var[v].home = t => var[v].idx < b
        /\ t \in Coroutines => f[1].guard = "none"
        /\ t \notin Coroutines => f[1].guard = "armed"
    BY <1>1, <1>2, LeavingFacts, VarFacts
  <1>4. /\ b = BaseIn(f) /\ b = (IF h = 0 THEN 1 ELSE f[h].base)
    BY <1>2 DEF LeaveBaseIn, BaseIn
  <1>5. /\ h \in 0..Len(f) /\ (h # 0 => f[h].guard # "none")
        /\ \A i \in 1..Len(f) : f[i].guard # "none" => i <= h
    <2> HIDE DEF f
    <2> QED
      BY <1>3, HandlerFacts
  <1>0. b = ErrorBase(t) /\ Beneath(t) = SubSeq(f, 1, h - 1)
    <2>1. CASE ~HasYielded(t)
      <3>1. ErrorBase(t) = BaseIn(f)
        BY <1>3, <2>1, ErrorBases
      <3> QED
        BY <1>2, <1>4, <2>1, <3>1 DEF Beneath, Catcher
    <2>2. CASE HasYielded(t)
      <3>1. h = 2 /\ f[2].guard = "yielded" /\ Catcher(t) \in Guarded(f)
        BY <1>2, <1>3, <2>2, ErrorBases, LeaveTerms
      <3>2. t \in Coroutines /\ f[1].guard = "none"
        <4>1. t \notin Coroutines => t = Main /\ 2 \in 1..Len(f)
          BY <1>2, <1>3, <1>5, <3>1, LeavingFacts
        <4> QED
          BY <1>1, <1>3, <3>1, <4>1 DEF ContextInv, FrameInv
      <3>3. Catcher(t) = 2
        <4>1. \A i \in Guarded(f) : i \in 1..Len(f) /\ i <= 2 /\ i # 1
          BY <1>2, <1>5, <3>1, <3>2 DEF Guarded
        <4> HIDE DEF f
        <4> QED
          BY <1>3, <3>1, <4>1
      <3>4. ErrorBase(t) = f[2].base
        BY <1>2, <3>1, <3>3 DEF ErrorBase
      <3>5. Beneath(t) = SubSeq(f, 1, 1)
        BY <2>2, <3>3 DEF Beneath
      <3> QED
        BY <1>4, <3>1, <3>4, <3>5
    <2> QED
      BY <2>1, <2>2
  <1>6. CASE h # 0
    <2> DEFINE k == h - 1
    <2>1. k \in 0..(Len(f) - 1) /\ (t \in Coroutines => k # 0) /\ k + 1 = h
      <3> HIDE DEF f, h
      <3> QED
        BY <1>3, <1>5, <1>6
    <2>2. /\ Becomes(Truncate(Machine, t, b)) /\ UNCHANGED <<chain, co, reach>>
          /\ leaving' = [leaving EXCEPT ![t] = "no"]
      BY <1>0, <1>2, <1>6 DEF EndError
    <2>3. frames' = [frames EXCEPT ![t] = SubSeq(f, 1, k)] /\ f[k + 1].base = b
      BY <1>0, <1>2, <1>4, <1>6, <2>1
    <2> HIDE DEF k
    <2> QED
      BY <1>2, <2>1, <2>2, <2>3, CutKeeps
  <1>7. CASE h = 0
    <2> DEFINE why == IF co[t].wrap THEN "error" ELSE "no"
    <2>1. t \in Coroutines
      <3>1. f[1].guard = "none"
        <4> HIDE DEF f, h
        <4> QED
          BY <1>3, <1>5, <1>7
      <3> QED
        BY <1>3, <3>1
    <2>2. Resumer \in Threads /\ Resumer # t /\ leaving[Resumer] = "no"
      BY <1>1, <2>1, RunFacts
    <2>3. /\ co[t].wrap => MayRaise([co EXCEPT ![t] = Dead(t, "error")],
                                    Settle(Dropped(Machine, t), t, TRUE), Resumer)
          /\ Finish(Machine, t, "error")
          /\ leaving' = [leaving EXCEPT ![t] = "no",
                             ![Resumer] = IF co[t].wrap THEN "error" ELSE @]
      BY <1>2, <1>7 DEF EndError
    <2>4. leaving' = [leaving EXCEPT ![t] = "no", ![Resumer] = why] /\ why \in {"no", "error"}
      <3> HIDE DEF t
      <3> QED
        BY <1>1, <2>2, <2>3
    <2>5. frames' = [frames EXCEPT ![t] = <<>>]
      <3>1. SubSeq(f, 1, h - 1) = <<>>
        <4>1. f \in Seq(Frames)
          BY <1>3 DEF FramesOK
        <4> HIDE DEF f, h
        <4> QED
          BY <1>7, <4>1
      <3> QED
        BY <1>0, <1>2, <3>1
    <2>6. \A v \in Vars : ~(cell[v].st = "open" /\ var[v].home = t)
      <3>1. \A v \in Vars : cell[v].st = "open" => var[v].idx # 0 /\ var[v].idx \in Nat
        BY <1>1, VarFacts
      <3> HIDE DEF b
      <3> QED
        BY <1>3, <1>4, <1>7, <3>1
    <2>7. why = "error" =>
            /\ ~SharesFrame(co', Machine', Resumer, BaseIn(frames[Resumer]))
            /\ ToClose(Machine', Resumer, BaseIn(frames[Resumer]))
                 \ ToClose(Machine', Resumer, ErrorLevelIn(frames[Resumer])) = {}
      <3> DEFINE r == Settle(Dropped(Machine, t), t, TRUE)
                 x == [co EXCEPT ![t] = Dead(t, "error")]
      <3>1. MachineInv(r)
        BY <1>1, <2>1, <2>6, FinishMachine
      <3>2. Becomes(r) /\ co' = x
        BY <2>3 DEF Finish
      <3>3. why = "error" => MayRaise(x, r, Resumer)
        BY <2>3
      <3> HIDE DEF r, x, why
      <3>4. Machine' = r
        BY <3>1, <3>2, BecomesFields DEF MachineInv
      <3>5. why = "error" =>
              /\ ~SharesFrame(x, r, Resumer, BaseIn(frames[Resumer]))
              /\ ToClose(r, Resumer, BaseIn(frames[Resumer]))
                   \ ToClose(r, Resumer, ErrorLevelIn(frames[Resumer])) = {}
        <4>1. /\ FramesOK(frames[Resumer], Len(stack[Resumer])) /\ Len(stack[Resumer]) \in Nat
              /\ frames[Resumer] # <<>>
          BY <1>1, <2>1, <2>2, RunFacts, VarFacts DEF ContextInv, FrameInv
        <4> QED
          BY <1>1, <2>2, <3>1, <3>3, <4>1, RaiseFacts
      <3> QED
        BY <3>2, <3>4, <3>5
    <2> HIDE DEF why
    <2>8. MachineInv(Machine)
      BY <1>1
    <2> QED
      BY <1>1, <2>1, <2>3, <2>4, <2>5, <2>6, <2>7, <2>8, FinishKeeps
  <1> QED
    BY <1>6, <1>7

(* Closures of the running function over its locals S.                       *)
IsCaptured(m, S, r) ==
    /\ MachineInv(r) /\ r.var = m.var /\ r.stack = m.stack
    /\ \A u \in Vars : r.cell[u].st = IF u \in S THEN "open" ELSE m.cell[u].st

LEMMA CaptureFacts ==
  ASSUME CoroutineInv, leaving[Running] = "no", NEW S \in SUBSET Vars, \A v \in S : ~var[v].tbc
  PROVE  IsCaptured(Machine, {v \in S : var[v].live /\ var[v].home = Running},
                    CaptureAll(Machine, Running, S))
  <1> DEFINE m == Machine
             L == {v \in S : var[v].live /\ var[v].home = Running}
             r == FindUpvals(m, Running, L)
  <1>1. /\ MachineInv(m) /\ ContextInv /\ Running \in Threads
        /\ m.var = var /\ m.cell = cell /\ m.stack = stack
    BY RunFacts DEF CoroutineInv, Machine
  <1>2. CaptureAll(m, Running, S) = r
    BY DEF CaptureAll, IsLocal
  <1>3. /\ L \in SUBSET Vars
        /\ \A v \in L : /\ m.var[v].live /\ m.var[v].home = Running
                        /\ ~Is(m, v, "closed") /\ ~m.var[v].tbc
    BY <1>1, OwnCells DEF Is
  <1> HIDE DEF m, L
  <1>4. /\ MachineInv(r) /\ SameShape(m, r) /\ r.stack = m.stack
        /\ \A u \in Vars : r.cell[u].st = IF u \in L THEN "open" ELSE m.cell[u].st
    BY <1>1, <1>3, FindUpvalsInv
  <1> HIDE DEF r
  <1>5. IsCaptured(m, L, r)
    BY <1>4 DEF IsCaptured, SameShape
  <1> QED
    BY <1>2, <1>5 DEF m, L

(* The open cells among the variables S, and their indices.                  *)
LEMMA OriginFacts ==
  ASSUME NEW m, MachineInv(m), NEW S \in SUBSET Vars
  PROVE  /\ OpenAmong(m, S) = {u \in S : m.cell[u].st = "open"}
         /\ \A u \in OpenAmong(m, S) : m.cell[u].idx = m.var[u].idx
  <1>1. \A v \in S : m.var[v].via = v
    BY MachineFacts
  <1>2. OpenAmong(m, S) = {u \in S : m.cell[u].st = "open"}
    BY <1>1 DEF OpenAmong, IsOpen
  <1>3. \A u \in S : m.cell[u].st = "open" => m.cell[u].idx = m.var[u].idx
    BY SlotContent DEF Is
  <1> QED
    BY <1>2, <1>3

LEMMA NoOriginsFacts ==
  /\ NoOrigins \in Indices /\ NoOrigins \in Saved /\ DOMAIN NoOrigins = {}
  <1>1. /\ [u \in {} |-> 0] \in [{} -> Nat]
        /\ [u \in {} |-> 0] \in [{} -> [idx : Nat, val : Value]]
        /\ DOMAIN [u \in {} |-> 0] = {}
    OBVIOUS
  <1> QED
    BY <1>1 DEF NoOrigins, Indices, Saved


(* The context coroutine.create makes.                                       *)
NewCo(t, S, wrap, saved) ==
    [NoCo EXCEPT !.st = "suspended", !.wrap = wrap, !.creator = t, !.body = S,
                 !.pending = saved]
IsNewCo(t, S, wrap, saved, x) ==
    /\ x \in Contexts /\ x.st = "suspended" /\ x.started = FALSE /\ x.wrap = wrap
    /\ x.creator = t /\ x.body = S /\ x.pending = saved
    /\ x.origins = NoOrigins /\ x.inside = NoOrigins

LEMMA NewContext ==
  ASSUME NEW t \in Threads, NEW S \in SUBSET Vars, NEW wrap \in BOOLEAN, NEW saved \in Saved
  PROVE  IsNewCo(t, S, wrap, saved, NewCo(t, S, wrap, saved))
  <1>1. NoCo \in Contexts
    BY NoOriginsFacts DEF NoCo, Contexts, Threads
  <1>2. NoCo.started = FALSE /\ NoCo.origins = NoOrigins /\ NoCo.inside = NoOrigins
    BY DEF NoCo
  <1> DEFINE y == NoCo
  <1> HIDE DEF y
  <1>3. y \in Contexts /\ y.started = FALSE /\ y.origins = NoOrigins /\ y.inside = NoOrigins
    BY <1>1, <1>2 DEF y
  <1>4. IsNewCo(t, S, wrap, saved,
                [y EXCEPT !.st = "suspended", !.wrap = wrap, !.creator = t, !.body = S,
                          !.pending = saved])
    BY <1>3 DEF Contexts, IsNewCo
  <1> QED
    BY <1>4 DEF y, NewCo

LEMMA CreateKeeps ==
  ASSUME Habits = {}, CoroutineInv, NEW c \in Coroutines, NEW S \in SUBSET Vars,
         NEW wrap \in BOOLEAN, Create(c, S, wrap)
  PROVE  CoroutineInv' /\ ClosesTbc({})
  <1> DEFINE t == Running
             L == {v \in S : var[v].live /\ var[v].home = t}
             m == CaptureAll(Machine, t, S)
             U == OpenAmong(m, S)
             saved == IF wrap THEN [u \in U |-> [idx |-> m.cell[u].idx,
                                                 val |-> SlotOf(m, t, m.cell[u].idx)]]
                      ELSE NoOrigins
             x == NewCo(t, S, wrap, saved)
  <1>1. /\ MachineInv(Machine) /\ ContextInv /\ t \in Threads /\ leaving[t] = "no"
        /\ Machine.var = var /\ Machine.cell = cell /\ Machine.stack = stack
        /\ co[c].st = "none" /\ S \subseteq Accessible(t) /\ \A v \in S : ~var[v].tbc
        /\ UNCHANGED <<chain, frames, leaving, reach>>
    BY RunFacts DEF CoroutineInv, Create, Active, Busy, Machine
  <1>2. Becomes(m) /\ co' = [co EXCEPT ![c] = x]
    BY DEF Create, NewCo
  <1>3. IsCaptured(Machine, L, m)
    BY <1>1, CaptureFacts
  <1> HIDE DEF L, m
  <1>4. /\ MachineInv(m) /\ m.var = var /\ m.stack = stack
        /\ \A u \in Vars : m.cell[u].st = IF u \in L THEN "open" ELSE cell[u].st
    BY <1>1, <1>3 DEF IsCaptured
  <1>5. Machine' = m /\ var' = var /\ cell' = m.cell /\ stack' = stack
    BY <1>2, <1>4, BecomesFields DEF MachineInv
  <1>6. /\ U = {u \in S : cell'[u].st = "open"} /\ U \subseteq Vars
        /\ \A u \in U : m.cell[u].idx = var[u].idx /\ var[u].idx \in Nat
    BY <1>1, <1>4, <1>5, OriginFacts, VarFacts
  <1>7. /\ saved \in Saved /\ DOMAIN saved = IF wrap THEN U ELSE {}
        /\ \A u \in DOMAIN saved : saved[u].idx = var[u].idx
    <2> HIDE DEF U, t
    <2>1. \A i : SlotOf(m, t, i) \in Value
      <3>1. m.stack[t] \in Seq(Value)
        BY <1>1, <1>4, MachineFields DEF MachineInv
      <3>2. \A i \in DOMAIN m.stack[t] : m.stack[t][i] \in Value
        BY <3>1
      <3> QED
        BY <3>2 DEF SlotOf, Value
    <2>2. CASE wrap
      <3> DEFINE e(u) == [idx |-> m.cell[u].idx, val |-> SlotOf(m, t, m.cell[u].idx)]
                 g == [u \in U |-> e(u)]
      <3>1. saved = g
        BY <2>2
      <3>2. \A u \in U : e(u) \in [idx : Nat, val : Value] /\ e(u).idx = var[u].idx
        BY <1>6, <2>1
      <3> HIDE DEF e, saved
      <3>3. g \in [U -> [idx : Nat, val : Value]] /\ DOMAIN g = U
            /\ \A u \in U : g[u].idx = var[u].idx
        BY <3>2
      <3> HIDE DEF g
      <3>4. g \in Saved
        BY <1>6, <3>3 DEF Saved
      <3> QED
        BY <2>2, <3>1, <3>3, <3>4
    <2>3. CASE ~wrap
      BY <2>3, NoOriginsFacts
    <2> QED
      BY <2>2, <2>3
  <1> HIDE DEF saved, U
  <1>8. /\ x \in Contexts /\ x.st = "suspended" /\ x.started = FALSE /\ x.wrap = wrap
        /\ x.creator = t /\ x.body = S /\ x.pending = saved
        /\ x.origins = NoOrigins /\ x.inside = NoOrigins
    <2>1. t \in Threads /\ saved \in Saved
      BY <1>1, <1>7
    <2>2. IsNewCo(t, S, wrap, saved, x)
      BY <2>1, NewContext
    <2> HIDE DEF x
    <2> QED
      BY <2>2 DEF IsNewCo
  <1> HIDE DEF x
  <1>9. \A v \in S : v \in reach[t] \/ (var[v].live /\ var[v].home = t)
    BY <1>1 DEF Accessible, IsLocal
  <1>10. \A v \in Vars :
           /\ SameVar(v)
           /\ cell'[v].st = IF v \in S /\ var[v].live /\ var[v].home = Running
                            THEN "open" ELSE cell[v].st
    BY <1>4, <1>5 DEF SameVar, L, t
  <1>11. ContextInv'
    <2>1. MachineInv(Machine')
      BY <1>4, <1>5
    <2>2. /\ DOMAIN x.origins = {} /\ DOMAIN x.inside = {} /\ ~x.started
          /\ DOMAIN x.pending = IF x.wrap THEN {u \in S : cell'[u].st = "open"} ELSE {}
          /\ \A u \in DOMAIN x.pending : x.pending[u].idx = var[u].idx
      BY <1>6, <1>7, <1>8, NoOriginsFacts
    <2>3. x.creator = Running /\ leaving[Running] = "no"
      BY <1>1, <1>8 DEF t
    <2>4. \A v \in S : /\ v \in reach[Running] \/ (var[v].live /\ var[v].home = Running)
                       /\ ~var[v].tbc
      BY <1>1, <1>9 DEF t
    <2>5. \A s \in Threads : Len(stack'[s]) = Len(stack[s])
      BY <1>5
    <2> QED
      BY <1>1, <1>2, <1>8, <1>10, <2>1, <2>2, <2>3, <2>4, <2>5, CreateStep
  <1>12. ClosesTbc({})
    BY <1>1, <1>10, ClosesNone DEF SameVar
  <1> QED
    BY <1>4, <1>5, <1>11, <1>12 DEF CoroutineInv

(* The context of a coroutine that is resumed.                               *)
ResumedCo(x, from) ==
    [x EXCEPT !.st = "normal", !.started = TRUE, !.origins = from, !.inside = NoOrigins,
              !.body = {}, !.pending = NoOrigins]
IsResumedCo(x, from, y) ==
    /\ y \in Contexts /\ y.st = "normal" /\ y.started = TRUE /\ y.creator = x.creator
    /\ y.body = {} /\ y.pending = NoOrigins /\ y.origins = from /\ y.inside = NoOrigins

LEMMA ResumedContext ==
  ASSUME NEW x \in Contexts, NEW from \in Indices
  PROVE  IsResumedCo(x, from, ResumedCo(x, from))
  BY NoOriginsFacts DEF ResumedCo, IsResumedCo, Contexts

(* What a resume closes: the cells shared with the resumer, open now.        *)
SharedNow(c, from) ==
    /\ from \in Indices
    /\ \A u \in DOMAIN from : Linked(u, Running, from[u]) /\ cell[u].st = "open"
    /\ co[c].started => from = co[c].origins
    /\ ~co[c].started => \A v \in co[c].body :
          var[v].live /\ var[v].home = Running => v \in DOMAIN from

LEMMA SharedFacts ==
  ASSUME CoroutineInv, leaving[Running] = "no",
         NEW c \in Coroutines, co[c].st = "suspended", co[c].creator = Running,
         NEW m, MachineInv(m), m.var = var,
         \A u \in Vars : m.cell[u].st = cell[u].st
  PROVE  SharedNow(c, IF co[c].started THEN co[c].origins
                      ELSE IF co[c].wrap
                           THEN [u \in DOMAIN co[c].pending |-> co[c].pending[u].idx]
                      ELSE Origins(m, co[c].body))
  <1> DEFINE t == Running
             x == co[c]
             byWrap == [u \in DOMAIN x.pending |-> x.pending[u].idx]
             byCreate == Origins(m, x.body)
  <1>1. /\ MachineInv(Machine) /\ ContextInv /\ t \in Threads /\ Alive(c) /\ Alive(t)
        /\ x \in Contexts
    BY RunFacts DEF CoroutineInv, Alive, ContextInv, ContextTypes
  <1>2. /\ LinksOK(c) /\ x.origins \in Indices /\ x.body \subseteq Vars
        /\ DOMAIN x.origins \subseteq Vars /\ DOMAIN x.pending \subseteq Vars
    BY <1>1, ContextFields DEF ContextInv, LinkInv
  <1>3. \A u \in DOMAIN x.origins \cup DOMAIN x.pending : u \in Vars /\ cell[u].st = "open"
    BY <1>1, OpenLinks
  <1>4. \A v \in Vars : var[v].idx \in Nat
    BY <1>1, VarFacts
  <1>5. CASE x.started
    <2>1. SharedNow(c, x.origins)
      BY <1>1, <1>2, <1>3, <1>5 DEF SharedNow, LinksOK
    <2> QED
      BY <1>5, <2>1
  <1>6. CASE ~x.started /\ x.wrap
    <2>1. \A u \in DOMAIN byWrap : Linked(u, t, byWrap[u]) /\ cell[u].st = "open"
      BY <1>1, <1>2, <1>3 DEF LinksOK
    <2>2. byWrap \in Indices
      <3>1. \A u \in DOMAIN x.pending : x.pending[u].idx \in Nat
        BY <1>1, <1>2, <1>4 DEF LinksOK, Linked
      <3>2. byWrap \in [DOMAIN x.pending -> Nat]
        BY <3>1
      <3> HIDE DEF byWrap
      <3> QED
        BY <1>2, <3>2 DEF Indices
    <2>3. \A v \in x.body : var[v].live /\ var[v].home = t => v \in DOMAIN byWrap
      BY <1>1, <1>6 DEF ContextInv, ReachInv, Given
    <2> HIDE DEF byWrap
    <2>4. SharedNow(c, byWrap)
      BY <1>6, <2>1, <2>2, <2>3 DEF SharedNow
    <2> QED
      BY <1>6, <2>4 DEF byWrap
  <1>7. CASE ~x.started /\ ~x.wrap
    <2> DEFINE U == OpenAmong(m, x.body)
    <2>1. /\ U = {u \in x.body : cell[u].st = "open"}
          /\ \A u \in U : m.cell[u].idx = var[u].idx
      BY <1>2, OriginFacts
    <2> HIDE DEF U
    <2>2. byCreate = [u \in U |-> m.cell[u].idx]
      BY DEF Origins, IndexOf, U
    <2>3. /\ DOMAIN byCreate = U /\ \A u \in U : byCreate[u] = var[u].idx
          /\ byCreate \in Indices
      <3>1. byCreate \in [U -> Nat] /\ U \in SUBSET Vars
        BY <1>2, <1>4, <2>1, <2>2
      <3> HIDE DEF byCreate
      <3>2. byCreate \in Indices
        BY <3>1 DEF Indices
      <3> QED
        BY <2>1, <2>2, <3>2
    <2> HIDE DEF byCreate
    <2>4. Captured(x.body) /\ Given(c)
      BY <1>1, <1>7 DEF ContextInv, ReachInv
    <2>5. \A u \in U : Linked(u, t, byCreate[u]) /\ cell[u].st = "open"
      <3> SUFFICES ASSUME NEW u \in U PROVE Linked(u, t, byCreate[u])
        BY <2>1
      <3>1. /\ u \in Vars /\ u \in x.body /\ cell[u].st = "open" /\ ~var[u].tbc
            /\ var[u].live
        BY <1>1, <1>2, <2>1, <2>4, VarFacts DEF Captured
      <3>2. var[u].home = t
        BY <1>1, <2>4, <3>1, OwnCells DEF Given
      <3> QED
        BY <2>3, <3>1, <3>2 DEF Linked
    <2>6. \A v \in x.body : var[v].live /\ var[v].home = t => v \in U
      <3> SUFFICES ASSUME NEW v \in x.body, var[v].live, var[v].home = t
                   PROVE  cell[v].st = "open"
        BY <2>1
      <3> QED
        BY <1>1, <1>2, <2>4, OwnCells, VarFacts DEF Captured
    <2>7. SharedNow(c, byCreate)
      BY <1>7, <2>3, <2>5, <2>6 DEF SharedNow
    <2> QED
      BY <1>7, <2>7 DEF byCreate
  <1> QED
    BY <1>5, <1>6, <1>7

(* The cells of origins are closed, nothing else changes.                    *)
IsShut(m, D, r) ==
    /\ MachineInv(r) /\ r.var = m.var
    /\ \A s \in Threads : Len(r.stack[s]) = Len(m.stack[s])
    /\ \A u \in Vars : r.cell[u].st = IF u \in D THEN "closed" ELSE m.cell[u].st
IsOpened(m, D, r) ==
    /\ MachineInv(r) /\ r.var = m.var
    /\ \A s \in Threads : Len(r.stack[s]) = Len(m.stack[s])
    /\ \A u \in Vars : r.cell[u].st = IF u \in D THEN "open" ELSE m.cell[u].st

LEMMA SharedShut ==
  ASSUME NEW m, MachineInv(m), NEW t \in Threads, NEW origins, MayReopen(m, t, origins)
  PROVE  IsShut(m, DOMAIN origins, CloseShared(m, t, origins))
  <1> DEFINE r == CloseShared(m, t, origins)
  <1>1. /\ MachineInv(r) /\ SameShape(m, r)
        /\ \A u \in Vars : r.cell[u].st = IF u \in DOMAIN origins THEN "closed" ELSE m.cell[u].st
    BY CloseSharedInv
  <1> HIDE DEF r
  <1>2. IsShut(m, DOMAIN origins, r)
    BY <1>1 DEF IsShut, SameShape
  <1> QED
    BY <1>2 DEF r

LEMMA PendingShut ==
  ASSUME NEW m, MachineInv(m), NEW t \in Threads, NEW pending,
         MayReopen(m, t, [u \in DOMAIN pending |-> pending[u].idx]),
         \A u \in DOMAIN pending : Is(m, u, "open")
  PROVE  IsShut(m, DOMAIN pending, ClosePending(m, t, pending, TRUE))
  <1> DEFINE r == ClosePending(m, t, pending, TRUE)
  <1>1. /\ MachineInv(r) /\ SameShape(m, r)
        /\ \A u \in Vars : r.cell[u].st = IF u \in DOMAIN pending THEN "closed" ELSE m.cell[u].st
    BY ClosePendingInv
  <1> HIDE DEF r
  <1>2. IsShut(m, DOMAIN pending, r)
    BY <1>1 DEF IsShut, SameShape
  <1> QED
    BY <1>2 DEF r

LEMMA BackOpened ==
  ASSUME NEW m, MachineInv(m), NEW t \in Threads, NEW origins, MayReopen(m, t, origins)
  PROVE  IsOpened(m, DOMAIN origins, SyncBack(m, t, origins))
  <1> DEFINE r == SyncBack(m, t, origins)
  <1>1. /\ MachineInv(r) /\ SameShape(m, r)
        /\ \A u \in Vars : r.cell[u].st = IF u \in DOMAIN origins THEN "open" ELSE m.cell[u].st
    BY SyncBackInv
  <1> HIDE DEF r
  <1>2. IsOpened(m, DOMAIN origins, r)
    BY <1>1 DEF IsOpened, SameShape
  <1> QED
    BY <1>2 DEF r

LEMMA ResumeKeeps ==
  ASSUME Habits = {}, CoroutineInv, NEW c \in Coroutines, NEW A \in SUBSET Vars, Resume(c, A)
  PROVE  CoroutineInv' /\ ClosesTbc({})
  <1> DEFINE t == Running
             x == co[c]
             m == CaptureAll(Machine, t, A)
             from == IF x.started THEN x.origins
                     ELSE IF x.wrap THEN [u \in DOMAIN x.pending |-> x.pending[u].idx]
                     ELSE Origins(m, x.body)
             n == IF ~x.started /\ x.wrap THEN ClosePending(m, t, x.pending, TRUE)
                  ELSE CloseShared(m, t, from)
             r == IF ~x.started THEN n ELSE SyncBack(n, c, x.inside)
  <1>1. /\ MachineInv(Machine) /\ ContextInv /\ t \in Threads /\ leaving[t] = "no"
        /\ frames[t] # <<>> /\ x.st = "suspended" /\ x.creator = t /\ A = {}
        /\ Machine.var = var /\ Machine.cell = cell /\ Machine.stack = stack
        /\ UNCHANGED leaving
    BY RunFacts DEF CoroutineInv, Resume, Active, Busy, Machine
  <1>2. (t = x.creator) = TRUE
    BY <1>1
  <1>3. /\ Becomes(r) /\ chain' = Append(chain, c)
        /\ frames' = IF ~x.started THEN [frames EXCEPT ![c] = <<[base |-> 1, guard |-> "none"]>>]
                     ELSE frames
        /\ reach' = [reach EXCEPT ![c] = reach[c] \cup A \cup
                                           (IF ~x.started THEN x.body ELSE {})]
    <2>1. x.started \in BOOLEAN
      BY <1>1, CoFacts
    <2> QED
      BY <1>2, <2>1 DEF Resume
  <1>4. co' = [co EXCEPT ![c] = ResumedCo(x, from)]
    <2>1. x.started \in BOOLEAN
      BY <1>1, CoFacts
    <2> QED
      BY <1>2, <2>1 DEF Resume, ResumedCo
  <1>5. /\ MachineInv(m) /\ m.var = var /\ m.stack = stack
        /\ \A u \in Vars : m.cell[u].st = cell[u].st
    <2>1. IsCaptured(Machine, {v \in A : var[v].live /\ var[v].home = Running}, m)
      BY <1>1, CaptureFacts
    <2> HIDE DEF m
    <2> QED
      BY <1>1, <2>1 DEF IsCaptured
  <1> HIDE DEF m, t
  <1>6. SharedNow(c, from)
    BY <1>1, <1>5, SharedFacts DEF t
  <1>7. LinksOK(c) /\ c \in Threads /\ c # t /\ x \in Contexts
    BY <1>1, RunFacts DEF ContextInv, ContextTypes, LinkInv, Alive, Threads, Suspended, t
  <1>8. MayReopen(m, t, from)
    <2> HIDE DEF from
    <2> QED
      BY <1>5, <1>6 DEF MayReopen, SharedNow, Linked, Is, t
  <1>9. IsShut(m, DOMAIN from, n)
    <2>1. CASE ~x.started /\ x.wrap
      <3>1. from = [u \in DOMAIN x.pending |-> x.pending[u].idx]
        BY <2>1
      <3>2. n = ClosePending(m, t, x.pending, TRUE)
        BY <2>1
      <3>3. \A u \in DOMAIN x.pending : Is(m, u, "open")
        BY <1>1, <1>5, <1>7, OpenLinks DEF Is, t, Alive
      <3> HIDE DEF from, n
      <3>4. MayReopen(m, t, [u \in DOMAIN x.pending |-> x.pending[u].idx])
            /\ DOMAIN from = DOMAIN x.pending
        BY <1>8, <3>1
      <3>5. IsShut(m, DOMAIN x.pending, ClosePending(m, t, x.pending, TRUE))
        BY <1>1, <1>5, <3>3, <3>4, PendingShut
      <3> QED
        BY <3>2, <3>4, <3>5
    <2>2. CASE ~(~x.started /\ x.wrap)
      <3>1. n = CloseShared(m, t, from)
        BY <2>2
      <3> HIDE DEF from, n
      <3> QED
        BY <1>1, <1>5, <1>8, <3>1, SharedShut
    <2> QED
      BY <2>1, <2>2
  <1> HIDE DEF from, n
  <1>10. IsOpened(n, DOMAIN x.inside, r)
    <2>1. CASE ~x.started
      <3>1. DOMAIN x.inside = {} /\ r = n
        BY <1>7, <2>1 DEF LinksOK
      <3> HIDE DEF r, x
      <3> QED
        BY <1>9, <3>1 DEF IsOpened, IsShut
    <2>2. CASE x.started
      <3>1. MayReopen(n, c, x.inside)
        <4>1. DOMAIN x.inside \subseteq Vars
          BY <1>1, CoFacts
        <4>2. \A u \in DOMAIN x.inside : Linked(u, c, x.inside[u]) /\ cell[u].st = "closed"
          BY <1>7 DEF LinksOK
        <4>3. n.var = var /\ \A u \in Vars : cell[u].st = "closed" => n.cell[u].st # "none"
          BY <1>5, <1>9 DEF IsShut
        <4> HIDE DEF x
        <4> QED
          BY <4>1, <4>2, <4>3 DEF MayReopen, Linked, Is
      <3>2. r = SyncBack(n, c, x.inside) /\ MachineInv(n)
        BY <1>9, <2>2 DEF IsShut
      <3> HIDE DEF r, x
      <3> QED
        BY <1>7, <3>1, <3>2, BackOpened
    <2> QED
      BY <2>1, <2>2
  <1> HIDE DEF r
  <1>11. MachineInv(r) /\ Machine' = r /\ var' = r.var /\ cell' = r.cell /\ stack' = r.stack
    BY <1>3, <1>10, BecomesFields DEF MachineInv, IsOpened
  <1>12. /\ \A v \in Vars :
              /\ SameVar(v)
              /\ cell'[v].st = IF v \in DOMAIN x.inside THEN "open"
                               ELSE IF v \in DOMAIN from THEN "closed" ELSE cell[v].st
         /\ \A s \in Threads : Len(stack'[s]) = Len(stack[s])
    BY <1>5, <1>9, <1>10, <1>11 DEF IsShut, IsOpened, SameVar
  <1> DEFINE y == ResumedCo(x, from)
  <1>13. IsResumedCo(x, from, y)
    BY <1>6, <1>7, ResumedContext DEF SharedNow
  <1>14. co' = [co EXCEPT ![c] = y]
    BY <1>4
  <1> HIDE DEF y
  <1>15. /\ y \in Contexts /\ y.st = "normal" /\ y.started /\ y.creator = Running
         /\ DOMAIN y.inside = {} /\ y.body = {} /\ DOMAIN y.pending = {} /\ y.origins = from
    BY <1>1, <1>13, NoOriginsFacts DEF IsResumedCo, t
  <1>16. /\ \A u \in DOMAIN y.origins : Linked(u, Running, y.origins[u])
         /\ co[c].started => y.origins = co[c].origins
         /\ ~co[c].started => \A v \in co[c].body :
              var[v].live /\ var[v].home = Running => v \in DOMAIN y.origins
    BY <1>6, <1>15 DEF SharedNow
  <1>17. /\ frames' = IF co[c].started THEN frames
                      ELSE [frames EXCEPT ![c] = <<[base |-> 1, guard |-> "none"]>>]
         /\ reach' = [reach EXCEPT ![c] = reach[c] \cup (IF co[c].started THEN {}
                                                         ELSE co[c].body)]
    <2>1. CASE x.started
      BY <1>1, <1>3, <2>1
    <2>2. CASE ~x.started
      BY <1>1, <1>3, <2>2
    <2> QED
      BY <2>1, <2>2
  <1>18. ContextInv'
    <2>1. MachineInv(Machine') /\ MachineInv(Machine) /\ leaving' = leaving
      BY <1>1, <1>11
    <2>2. leaving[Running] = "no" /\ frames[Running] # <<>>
          /\ co[c].st = "suspended" /\ co[c].creator = Running
      BY <1>1 DEF t
    <2>3. \A v \in Vars :
            /\ SameVar(v)
            /\ cell'[v].st = IF v \in DOMAIN co[c].inside THEN "open"
                             ELSE IF v \in DOMAIN y.origins THEN "closed" ELSE cell[v].st
      BY <1>12, <1>15
    <2> HIDE DEF x
    <2> QED
      BY <1>1, <1>3, <1>12, <1>14, <1>15, <1>16, <1>17, <2>1, <2>2, <2>3, ResumeStep
  <1>19. ClosesTbc({})
    <2>1. \A u \in DOMAIN x.inside : ~var[u].tbc
      BY <1>7 DEF LinksOK, Linked
    <2>2. \A u \in DOMAIN from : ~var[u].tbc
      BY <1>15, <1>16 DEF Linked
    <2> QED
      BY <1>12, <2>1, <2>2, ClosesNone DEF SameVar
  <1> QED
    BY <1>11, <1>18, <1>19 DEF CoroutineInv

(* The context of a coroutine that yields.                                   *)
SuspendedCo(x, inside, handler) ==
    [x EXCEPT !.st = "suspended", !.inside = inside, !.pending = NoOrigins,
              !.handler = handler]
IsSuspendedCo(x, inside, y) ==
    /\ y \in Contexts /\ y.st = "suspended" /\ y.started = x.started /\ y.creator = x.creator
    /\ y.body = x.body /\ y.origins = x.origins /\ y.inside = inside /\ y.pending = NoOrigins

LEMMA SuspendedContext ==
  ASSUME NEW x \in Contexts, NEW inside \in Indices, NEW handler \in {"no", "running", "raised"}
  PROVE  IsSuspendedCo(x, inside, SuspendedCo(x, inside, handler))
  BY NoOriginsFacts DEF SuspendedCo, IsSuspendedCo, Contexts

(* What a yield closes: all that is open but what is still to be closed, and *)
(* the captured variables L of the running function.                         *)
YieldedNow(m, c, A) ==
    LET inside == YieldCells(m, c, A) IN
    /\ inside \in Indices
    /\ MayReopen(m, c, inside)
    /\ \A u \in DOMAIN inside : Is(m, u, "open")
    /\ \A v \in Vars : Is(m, v, "open") /\ m.var[v].home = c /\ ~m.var[v].tbc =>
                         v \in DOMAIN inside
    /\ \A v \in A : Is(m, v, "open") => v \in DOMAIN inside

LEMMA YieldFacts ==
  ASSUME NEW m, MachineInv(m), NEW c \in Threads, NEW A \in SUBSET Vars,
         \A v \in A : ~m.var[v].tbc /\ (Is(m, v, "open") => m.var[v].home = c)
  PROVE  YieldedNow(m, c, A)
  <1> DEFINE U == OpenAmong(m, A)
             R == {u \in m.list[c] : IsOpen(m, u) /\ ~m.cell[u].tbc}
             inside == YieldCells(m, c, A)
  <1>1. U = {u \in A : m.cell[u].st = "open"}
    BY OriginFacts
  <1>2. \A u \in Vars : Is(m, u, "open") => /\ m.cell[u].idx = m.var[u].idx
                                            /\ m.cell[u].tbc = m.var[u].tbc
                                            /\ m.var[u].live /\ m.var[u].idx \in Nat
    BY SlotContent, MachineFacts
  <1>3. R = {u \in Vars : Is(m, u, "open") /\ m.var[u].home = c /\ ~m.var[u].tbc}
    <2>1. \A u : u \in m.list[c] <=> u \in Vars /\ Is(m, u, "open") /\ m.var[u].home = c
      BY ListMember
    <2> QED
      BY <1>2, <2>1 DEF IsOpen, Is
  <1> HIDE DEF U, R
  <1>4. inside = [u \in U \cup R |-> m.cell[u].idx]
    BY DEF YieldCells, IndexOf, U, R
  <1> HIDE DEF inside
  <1>5. /\ U \cup R \subseteq Vars
        /\ \A u \in U \cup R : /\ Is(m, u, "open") /\ m.var[u].live /\ ~m.var[u].tbc
                               /\ m.var[u].home = c /\ m.cell[u].idx = m.var[u].idx
                               /\ m.var[u].idx \in Nat
    BY <1>1, <1>2, <1>3 DEF Is
  <1>6. DOMAIN inside = U \cup R /\ \A u \in U \cup R : inside[u] = m.var[u].idx
    BY <1>4, <1>5
  <1>7. inside \in Indices
    <2>1. inside \in [U \cup R -> Nat] /\ U \cup R \in SUBSET Vars
      BY <1>4, <1>5
    <2> QED
      BY <2>1 DEF Indices
  <1>8. MayReopen(m, c, inside)
    BY <1>5, <1>6 DEF MayReopen, Is
  <1>9. /\ \A u \in DOMAIN inside : Is(m, u, "open")
        /\ \A v \in Vars : Is(m, v, "open") /\ m.var[v].home = c /\ ~m.var[v].tbc =>
                             v \in DOMAIN inside
        /\ \A v \in A : Is(m, v, "open") => v \in DOMAIN inside
    BY <1>1, <1>3, <1>5, <1>6 DEF Is
  <1> QED
    BY <1>7, <1>8, <1>9 DEF YieldedNow, inside

(* The running coroutine stops; m is what it leaves.                         *)
LEMMA SuspendKeeps ==
  ASSUME CoroutineInv, Running \in Coroutines, NEW A \in SUBSET Vars, NEW K \in SUBSET Vars,
         NEW handler \in {"no", "running", "raised"},
         NEW m, MachineInv(m), UNCHANGED leaving, Suspend(m, Running, A, handler),
         \A v \in Vars :
           /\ m.var[v].live = var[v].live /\ m.var[v].home = var[v].home
           /\ m.var[v].idx = var[v].idx /\ m.var[v].tbc = var[v].tbc
           /\ m.cell[v].st = IF v \in K THEN "closed"
                             ELSE IF v \in A /\ var[v].live /\ var[v].home = Running
                             THEN "open" ELSE cell[v].st,
         \A t \in Threads : Len(m.stack[t]) = Len(stack[t]),
         leaving[Running] # "no" => A = {},
         \A v \in A : /\ v \in reach[Running] \/ (var[v].live /\ var[v].home = Running)
                      /\ ~var[v].tbc,
         \A u \in K : /\ var[u].home = Running /\ cell[u].st = "open" /\ var[u].tbc
                      /\ leaving[Running] # "no"
                      /\ var[u].idx >= LevelIn(frames[Running], leaving[Running]),
         Upward(K)
  PROVE  CoroutineInv' /\ ClosesTbc(K)
  <1> DEFINE c == Running
             p == Resumer
             inside == YieldCells(m, c, A)
             n == CloseShared(m, c, inside)
             O == co[c].origins
             r == SyncBack(n, p, O)
             x == SuspendedCo(co[c], inside, handler)
  <1>1. /\ MachineInv(Machine) /\ ContextInv /\ c \in Threads /\ p \in Threads /\ p # c
        /\ co[c].creator = p /\ co[c].st = "normal" /\ co[c].started /\ Alive(p) /\ Alive(c)
        /\ co[c] \in Contexts /\ co \in [Coroutines -> Contexts]
    BY RunFacts DEF CoroutineInv, ContextInv, ContextTypes
  <1>2. LinksOK(c) /\ DOMAIN O \subseteq Vars
    BY <1>1, CoFacts DEF ContextInv, LinkInv
  <1>3. YieldedNow(m, c, A)
    <2>1. \A v \in A : Is(m, v, "open") => m.var[v].home = c
      BY <1>1, OwnCells DEF Is
    <2> QED
      BY <1>1, <2>1, YieldFacts
  <1>4. /\ inside \in Indices /\ MayReopen(m, c, inside)
        /\ \A u \in DOMAIN inside : Is(m, u, "open")
        /\ \A v \in Vars : Is(m, v, "open") /\ m.var[v].home = c /\ ~m.var[v].tbc =>
                             v \in DOMAIN inside
        /\ \A v \in A : Is(m, v, "open") => v \in DOMAIN inside
    BY <1>3 DEF YieldedNow
  <1>5. Becomes(r)
    BY <1>1 DEF Suspend, Settle
  <1>6. /\ frames' = [frames EXCEPT ![c] = PassedFrames(frames[c])]
        /\ reach' = [reach EXCEPT ![p] = reach[p] \cup A] /\ chain' = Front(chain)
    BY DEF Suspend, PassedFrames
  <1>7. co' = [co EXCEPT ![c] = x]
    <2>1. co' = [co EXCEPT ![c].st = "suspended", ![c].inside = inside, ![c].pending = NoOrigins,
                           ![c].handler = handler]
      BY DEF Suspend
    <2> HIDE DEF inside, c
    <2> QED
      BY <1>1, <2>1 DEF SuspendedCo
  <1> HIDE DEF inside, c, p
  <1>8. IsShut(m, DOMAIN inside, n)
    BY <1>1, <1>4, SharedShut
  <1>9. \A u \in DOMAIN O : /\ var[u].live /\ ~var[u].tbc /\ var[u].home = p
                            /\ O[u] = var[u].idx /\ cell[u].st = "closed"
    BY <1>1, <1>2 DEF LinksOK, Linked
  <1> HIDE DEF n, O
  <1>10. MayReopen(n, p, O)
    <2>1. \A u \in Vars : m.cell[u].st # "none" => n.cell[u].st # "none"
      BY <1>8 DEF IsShut
    <2>2. \A u \in DOMAIN O : m.cell[u].st # "none"
      BY <1>2, <1>9
    <2>3. n.var = m.var
      BY <1>8 DEF IsShut
    <2> QED
      BY <1>2, <1>9, <2>1, <2>2, <2>3 DEF MayReopen, Is
  <1>11. IsOpened(n, DOMAIN O, r)
    <2>1. MachineInv(n)
      BY <1>8 DEF IsShut
    <2> QED
      BY <1>1, <1>10, <2>1, BackOpened
  <1> HIDE DEF r
  <1>12. MachineInv(r) /\ Machine' = r /\ var' = r.var /\ cell' = r.cell /\ stack' = r.stack
    BY <1>5, <1>11, BecomesFields DEF MachineInv, IsOpened
  <1>13. \A v \in Vars :
           /\ SameVar(v)
           /\ cell'[v].st = IF v \in DOMAIN O THEN "open"
                            ELSE IF v \in DOMAIN inside \cup K THEN "closed" ELSE cell[v].st
    <2> SUFFICES ASSUME NEW v \in Vars
                 PROVE  /\ SameVar(v)
                        /\ cell'[v].st = IF v \in DOMAIN O THEN "open"
                                         ELSE IF v \in DOMAIN inside \cup K THEN "closed"
                                         ELSE cell[v].st
      OBVIOUS
    <2>1. SameVar(v)
      BY <1>8, <1>11, <1>12 DEF SameVar, IsShut, IsOpened
    <2>2. cell'[v].st = IF v \in DOMAIN O THEN "open"
                        ELSE IF v \in DOMAIN inside THEN "closed" ELSE m.cell[v].st
      BY <1>8, <1>11, <1>12 DEF IsShut, IsOpened
    <2>3. v \in A /\ var[v].live /\ var[v].home = Running /\ v \notin K => v \in DOMAIN inside
      BY <1>4 DEF Is
    <2> QED
      BY <2>1, <2>2, <2>3
  <1>14. \A t \in Threads : Len(stack'[t]) = Len(stack[t])
    BY <1>8, <1>11, <1>12 DEF IsShut, IsOpened
  <1>15. IsSuspendedCo(co[c], inside, x)
    BY <1>1, <1>4, SuspendedContext
  <1> HIDE DEF x
  <1>16. /\ x \in Contexts /\ x.st = "suspended" /\ x.started /\ x.creator = p
         /\ x.origins = O /\ x.body = {} /\ DOMAIN x.pending = {} /\ x.inside = inside
    BY <1>1, <1>2, <1>15, NoOriginsFacts DEF IsSuspendedCo, LinksOK, O
  <1>17. \A u \in DOMAIN x.inside :
           /\ u \in Vars /\ var[u].live /\ ~var[u].tbc
           /\ var[u].home = c /\ x.inside[u] = var[u].idx
           /\ leaving[c] # "no" => cell[u].st = "open"
    <2> SUFFICES ASSUME NEW u \in DOMAIN inside
                 PROVE  /\ u \in Vars /\ var[u].live /\ ~var[u].tbc
                        /\ var[u].home = c /\ inside[u] = var[u].idx
                        /\ leaving[c] # "no" => cell[u].st = "open"
      BY <1>16
    <2>1. u \in Vars
      BY <1>4 DEF MayReopen
    <2>2. /\ var[u].live /\ ~var[u].tbc /\ var[u].home = c /\ inside[u] = var[u].idx
      BY <1>4, <2>1 DEF MayReopen
    <2>3. leaving[c] # "no" => cell[u].st = "open"
      BY <1>4, <2>1 DEF Is, c
    <2> QED
      BY <2>1, <2>2, <2>3
  <1>18. \A v \in Vars : cell[v].st = "open" /\ var[v].home = c /\ ~var[v].tbc =>
                           v \in DOMAIN x.inside
    <2> SUFFICES ASSUME NEW v \in Vars, cell[v].st = "open", var[v].home = c, ~var[v].tbc
                 PROVE  v \in DOMAIN inside
      BY <1>16
    <2>1. v \notin K
      OBVIOUS
    <2>2. m.cell[v].st = "open"
      BY <2>1
    <2> QED
      BY <1>4, <2>2 DEF Is
  <1>19. \A v \in A : /\ v \in reach[c] \/ (var[v].live /\ var[v].home = c)
                      /\ ~var[v].tbc /\ cell'[v].st # "none"
    <2> SUFFICES ASSUME NEW v \in A PROVE cell'[v].st # "none"
      BY DEF c
    <2>1. cell[v].st # "none" => cell'[v].st # "none"
      BY <1>13
    <2>2. CASE v \in reach[c]
      BY <1>1, <2>1, <2>2 DEF ContextInv, ReachInv, Captured
    <2>3. CASE v \notin reach[c]
      <3>1. var[v].live /\ var[v].home = c
        BY <2>3 DEF c
      <3>2. Is(m, v, "open") \/ v \in K
        BY <3>1 DEF Is, c
      <3> QED
        BY <1>4, <1>13, <3>2
    <2> QED
      BY <2>2, <2>3
  <1>20. ContextInv'
    <2>1. MachineInv(Machine') /\ leaving' = leaving
      BY <1>12
    <2>2. \A u \in K : /\ var[u].home = c /\ cell[u].st = "open" /\ leaving[c] # "no"
                       /\ var[u].idx >= LevelIn(frames[c], leaving[c])
      BY DEF c
    <2>3. \A v \in Vars :
            /\ SameVar(v)
            /\ cell'[v].st = IF v \in DOMAIN co[c].origins THEN "open"
                             ELSE IF v \in DOMAIN x.inside \cup K THEN "closed"
                             ELSE cell[v].st
      BY <1>13, <1>16 DEF O
    <2>4. x.origins = co[c].origins
      BY <1>16 DEF O
    <2>5. Suspending(x, K, A)
      BY <1>6, <1>7, <1>14, <1>16, <1>17, <1>18, <1>19, <2>1, <2>2, <2>3, <2>4
      DEF Suspending, c, p
    <2> QED
      BY <1>1, <1>16, <2>1, <2>5, SuspendStep
  <1>21. ClosesTbc(K)
    <2>1. \A u \in DOMAIN O : ~var[u].tbc
      BY <1>1, <1>2 DEF LinksOK, Linked, O, c
    <2>2. \A u \in DOMAIN inside : ~var[u].tbc
      BY <1>16, <1>17
    <2> QED
      BY <1>13, <2>1, <2>2 DEF ClosesTbc, SameVar
  <1> QED
    BY <1>12, <1>20, <1>21 DEF CoroutineInv

LEMMA YieldKeeps ==
  ASSUME Habits = {}, CoroutineInv, NEW A \in SUBSET Vars, Yield(A)
  PROVE  CoroutineInv' /\ ClosesTbc({})
  <1> DEFINE c == Running
             m == CaptureAll(Machine, c, A)
             L == {v \in A : var[v].live /\ var[v].home = c}
  <1>1. /\ c \in Coroutines /\ leaving[c] = "no" /\ UNCHANGED leaving
        /\ A \subseteq Accessible(c) /\ \A v \in A : ~var[v].tbc
        /\ Suspend(m, c, A, co[c].handler)
        /\ Machine.var = var /\ Machine.cell = cell /\ Machine.stack = stack
    BY DEF Yield, Active, Busy, Machine
  <1>0. co[c].handler \in {"no", "running", "raised"}
    BY <1>1, CoFacts DEF CoroutineInv
  <1>2. IsCaptured(Machine, L, m)
    BY <1>1, CaptureFacts
  <1> HIDE DEF m
  <1>3. /\ MachineInv(m) /\ m.var = var /\ m.stack = stack
        /\ \A u \in Vars : m.cell[u].st = IF u \in L THEN "open" ELSE cell[u].st
    BY <1>1, <1>2 DEF IsCaptured
  <1>4. \A v \in Vars :
           /\ m.var[v].live = var[v].live /\ m.var[v].home = var[v].home
           /\ m.var[v].idx = var[v].idx /\ m.var[v].tbc = var[v].tbc
           /\ m.cell[v].st = IF v \in {} THEN "closed"
                             ELSE IF v \in A /\ var[v].live /\ var[v].home = Running
                             THEN "open" ELSE cell[v].st
    BY <1>3
  <1>5. \A v \in A : /\ v \in reach[c] \/ (var[v].live /\ var[v].home = c)
                     /\ ~var[v].tbc
    BY <1>1 DEF Accessible, IsLocal
  <1>6. \A t \in Threads : Len(m.stack[t]) = Len(stack[t])
    BY <1>3
  <1> DEFINE K == {}
  <1>7. /\ K \in SUBSET Vars
        /\ \A v \in Vars :
             /\ m.var[v].live = var[v].live /\ m.var[v].home = var[v].home
             /\ m.var[v].idx = var[v].idx /\ m.var[v].tbc = var[v].tbc
             /\ m.cell[v].st = IF v \in K THEN "closed"
                               ELSE IF v \in A /\ var[v].live /\ var[v].home = Running
                               THEN "open" ELSE cell[v].st
    BY <1>4
  <1>8. \A u \in K : /\ var[u].home = Running /\ cell[u].st = "open" /\ var[u].tbc
                     /\ leaving[Running] # "no"
                     /\ var[u].idx >= LevelIn(frames[Running], leaving[Running])
    OBVIOUS
  <1>9. leaving[Running] # "no" => A = {}
    BY <1>1
  <1>10. Upward(K)
    BY DEF Upward
  <1>11. CoroutineInv' /\ ClosesTbc(K)
    <2> HIDE DEF L, K
    <2> QED
      BY <1>0, <1>1, <1>3, <1>5, <1>6, <1>7, <1>8, <1>9, <1>10, SuspendKeeps
  <1> QED
    BY <1>11

LEMMA YieldInHandlerKeeps ==
  ASSUME CoroutineInv, NEW lua \in BOOLEAN, YieldInHandler(lua)
  PROVE  CoroutineInv' /\ \E K : ClosesTbc(K)
  <1> DEFINE c == Running
             l == LevelIn(frames[c], leaving[c])
             k == Machine
             u == Highest(k, ToClose(k, c, l))
             m == Close(k, c, {u})
             handler == IF lua THEN "running" ELSE co[c].handler
  <1>1. /\ MachineInv(k) /\ c \in Coroutines /\ c \in Threads /\ leaving[c] # "no"
        /\ UNCHANGED leaving
        /\ k.var = var /\ k.cell = cell /\ k.stack = stack
        /\ frames[c] \in Seq(Frames)
    BY RunFacts DEF CoroutineInv, ContextInv, ContextTypes, YieldInHandler, Closing, Busy, Machine
  <1>2. Level(c) = l
    BY <1>1, LeaveTerms
  <1>3. ToClose(k, c, l) # {} /\ cell[u].tbc /\ Suspend(m, c, {}, handler)
    BY <1>2 DEF YieldInHandler
  <1>0. handler \in {"no", "running", "raised"}
    BY <1>1, CoFacts DEF CoroutineInv
  <1> HIDE DEF k, l, handler
  <1>4. /\ u \in Vars /\ u \in k.list[c] /\ Is(k, u, "open") /\ k.var[u].home = c
        /\ k.var[u].idx >= l /\ k.cell[u].tbc = k.var[u].tbc
        /\ \A w \in Vars : (Is(k, w, "open") /\ k.var[w].home = c /\ k.var[w].idx >= l)
                           => k.var[u].idx >= k.var[w].idx
    BY <1>1, <1>3, NextCell
  <1> HIDE DEF u
  <1>5. /\ MachineInv(m) /\ m.stack = k.stack
        /\ \A v \in Vars :
             /\ m.cell[v].st = IF v \in {u} THEN "closed" ELSE k.cell[v].st
             /\ m.var[v].live = k.var[v].live /\ m.var[v].home = k.var[v].home
             /\ m.var[v].idx = k.var[v].idx /\ m.var[v].tbc = k.var[v].tbc
    BY <1>1, <1>4, CloseInv
  <1> HIDE DEF m
  <1>6. \A v \in Vars :
           /\ m.var[v].live = var[v].live /\ m.var[v].home = var[v].home
           /\ m.var[v].idx = var[v].idx /\ m.var[v].tbc = var[v].tbc
           /\ m.cell[v].st = IF v \in {u} THEN "closed"
                             ELSE IF v \in {} /\ var[v].live /\ var[v].home = Running
                             THEN "open" ELSE cell[v].st
    BY <1>1, <1>5
  <1>7. \A t \in Threads : Len(m.stack[t]) = Len(stack[t])
    BY <1>1, <1>5
  <1>8. \A w \in {u} : /\ var[w].home = Running /\ cell[w].st = "open" /\ var[w].tbc
                       /\ leaving[Running] # "no"
                       /\ var[w].idx >= LevelIn(frames[Running], leaving[Running])
    BY <1>1, <1>3, <1>4 DEF Is, l
  <1>9. {} \in SUBSET Vars /\ {u} \in SUBSET Vars
    BY <1>4
  <1>10. Upward({u})
    <2>1. \A w \in Vars : /\ var[w].idx \in Nat
                          /\ cell[w].st = "open" /\ var[w].home = c /\ var[w].idx >= l
                             => var[u].idx >= var[w].idx
      BY <1>1, <1>4, VarFacts DEF CoroutineInv, Is
    <2>2. var[u].home = c /\ var[u].idx >= l /\ u \in Vars
      BY <1>1, <1>4
    <2>3. l \in Nat /\ var[u].idx \in Nat
      BY <1>1, <2>1, <2>2, LeavingLevel DEF l
    <2> QED
      BY <2>1, <2>2, <2>3 DEF Upward
  <1>11. CoroutineInv' /\ ClosesTbc({u})
    BY <1>0, <1>1, <1>3, <1>5, <1>6, <1>7, <1>8, <1>9, <1>10, SuspendKeeps
  <1> QED
    BY <1>11

LEMMA HandlerYieldsKeeps ==
  ASSUME CoroutineInv, HandlerYields
  PROVE  CoroutineInv' /\ ClosesTbc({})
  <1> DEFINE m == Machine
             K == {}
  <1>1. /\ MachineInv(m) /\ Running \in Coroutines /\ UNCHANGED leaving
        /\ Suspend(m, Running, {}, "running")
        /\ m.var = var /\ m.cell = cell /\ m.stack = stack
    BY DEF CoroutineInv, HandlerYields, InHandler, Machine
  <1> HIDE DEF m
  <1>2. /\ K \in SUBSET Vars /\ {} \in SUBSET Vars /\ Upward(K)
        /\ \A v \in Vars : m.cell[v].st = IF v \in K THEN "closed"
                                          ELSE IF v \in {} /\ var[v].live /\ var[v].home = Running
                                          THEN "open" ELSE cell[v].st
    BY <1>1 DEF Upward
  <1>3. \A u \in K : /\ var[u].home = Running /\ cell[u].st = "open" /\ var[u].tbc
                     /\ leaving[Running] # "no"
                     /\ var[u].idx >= LevelIn(frames[Running], leaving[Running])
    OBVIOUS
  <1>4. CoroutineInv' /\ ClosesTbc(K)
    <2> HIDE DEF K
    <2> QED
      BY <1>1, <1>2, <1>3, SuspendKeeps
  <1> QED
    BY <1>4

(* A handler that returns or raises leaves every context as it is, but for   *)
(* what it says of the handler.                                              *)
LEMMA HandlerEnds ==
  ASSUME CoroutineInv, Running \in Coroutines, leaving[Running] # "no",
         NEW h \in {"no", "running", "raised"}, co' = [co EXCEPT ![Running].handler = h],
         NEW why \in {"return", "error"}, leaving' = [leaving EXCEPT ![Running] = why],
         \/ why = leaving[Running]
         \/ /\ why = "error"
            /\ ~SharesFrame(co, Machine, Running, BaseIn(frames[Running]))
            /\ ToClose(Machine, Running, BaseIn(frames[Running]))
                 \ ToClose(Machine, Running, ErrorLevelIn(frames[Running])) = {},
         UNCHANGED <<chain, stack, frames, var, cell, list, reach>>
  PROVE  CoroutineInv' /\ ClosesTbc({})
  <1> DEFINE c == Running
             K == {}
  <1>1. MachineInv(Machine) /\ ContextInv /\ Machine' = Machine
    BY DEF CoroutineInv, Machine
  <1>2. co' \in [Coroutines -> Contexts] /\ \A d \in Coroutines : Untouched(d)
    <2>1. co \in [Coroutines -> Contexts] /\ co' = [co EXCEPT ![c] = [co[c] EXCEPT !.handler = h]]
      BY <1>1 DEF ContextInv, ContextTypes
    <2>2. ASSUME NEW x \in Contexts
          PROVE  LET y == [x EXCEPT !.handler = h] IN
                 /\ y \in Contexts
                 /\ y.st = x.st /\ y.started = x.started /\ y.wrap = x.wrap
                 /\ y.creator = x.creator /\ y.body = x.body /\ y.origins = x.origins
                 /\ y.pending = x.pending /\ y.inside = x.inside
      BY DEF Contexts
    <2> HIDE DEF c
    <2> QED
      BY <2>1, <2>2 DEF Untouched
  <1>3. /\ K \in SUBSET Vars
        /\ \A v \in Vars : SameVar(v) /\ cell'[v].st = IF v \in K THEN "closed" ELSE cell[v].st
        /\ \A u \in K : /\ var[u].home = Running /\ cell[u].st = "open"
                        /\ var[u].idx >= LevelIn(frames[Running], leaving[Running])
    BY DEF SameVar
  <1>4. ContextInv'
    <2> HIDE DEF K
    <2> QED
      BY <1>1, <1>2, <1>3, CloseSomeStep
  <1>5. ClosesTbc({})
    BY ClosesNone
  <1> QED
    BY <1>1, <1>4, <1>5 DEF CoroutineInv

LEMMA HandlerReturnsKeeps ==
  ASSUME Habits = {}, CoroutineInv, HandlerReturns
  PROVE  CoroutineInv' /\ ClosesTbc({})
  <1> DEFINE c == Running
             h == AfterHandler(c, leaving[c])
             why == leaving[c]
  <1>1. /\ c \in Coroutines /\ c \in Threads /\ leaving[c] # "no"
        /\ leaving \in [Threads -> {"no", "return", "error"}]
    BY RunFacts DEF CoroutineInv, ContextInv, ContextTypes, HandlerReturns, InHandler, Busy
  <1>2. h \in {"no", "running", "raised"} /\ why \in {"return", "error"}
    BY <1>1 DEF AfterHandler
  <1>3. /\ co' = [co EXCEPT ![c].handler = h]
        /\ UNCHANGED <<chain, stack, frames, leaving, var, cell, list, reach>>
    BY DEF HandlerReturns
  <1>4. leaving' = [leaving EXCEPT ![c] = why]
    BY <1>1, <1>3
  <1> HIDE DEF h, why
  <1>5. why = leaving[c]
    BY DEF why
  <1> QED
    BY <1>1, <1>2, <1>3, <1>4, <1>5, HandlerEnds

LEMMA HandlerRaisesKeeps ==
  ASSUME Habits = {}, CoroutineInv, HandlerRaises
  PROVE  CoroutineInv' /\ ClosesTbc({})
  <1> DEFINE c == Running
             h == AfterHandler(c, "error")
  <1>1. /\ c \in Coroutines /\ c \in Threads /\ leaving[c] # "no"
        /\ MachineInv(Machine) /\ ContextInv
        /\ FramesOK(frames[c], Len(stack[c])) /\ frames[c] # <<>> /\ Len(stack[c]) \in Nat
    BY RunFacts, VarFacts
    DEF CoroutineInv, ContextInv, FrameInv, HandlerRaises, InHandler, Busy
  <1>2. h \in {"no", "running", "raised"}
    BY DEF AfterHandler
  <1>3. /\ co' = [co EXCEPT ![c].handler = h]
        /\ leaving' = [leaving EXCEPT ![c] = "error"]
        /\ leaving[c] = "error" \/ MayRaise(co, Machine, c)
        /\ UNCHANGED <<chain, stack, frames, var, cell, list, reach>>
    BY DEF HandlerRaises
  <1> HIDE DEF h
  <1>4. \/ leaving[c] = "error"
        \/ /\ ~SharesFrame(co, Machine, c, BaseIn(frames[c]))
           /\ ToClose(Machine, c, BaseIn(frames[c]))
                \ ToClose(Machine, c, ErrorLevelIn(frames[c])) = {}
    <2> HIDE DEF c
    <2> QED
      BY <1>1, <1>3, RaiseFacts
  <1> QED
    BY <1>1, <1>2, <1>3, <1>4, HandlerEnds

(* What closing a suspended coroutine leaves of its stack.                   *)
IsKilled(m, c, r) ==
    /\ MachineInv(r)
    /\ \A v \in Vars :
         /\ r.var[v].home = m.var[v].home /\ r.var[v].idx = m.var[v].idx
         /\ r.var[v].tbc = m.var[v].tbc
         /\ r.var[v].live <=> m.var[v].live /\ m.var[v].home # c
         /\ r.var[v].closed =
              IF m.var[v].home = c /\ m.var[v].tbc /\ m.cell[v].st = "open"
              THEN m.var[v].closed + 1 ELSE m.var[v].closed
         /\ r.cell[v].st = IF m.var[v].home = c /\ m.cell[v].st = "open" THEN "closed"
                           ELSE m.cell[v].st
    /\ \A t \in Threads : Len(r.stack[t]) = IF t = c THEN 0 ELSE Len(m.stack[t])

LEMMA CardinalityVars ==
  Cardinality(Vars) \in Nat
  BY FS_CardinalityType, CoroutineConstants

LEMMA KilledFacts ==
  ASSUME Habits = {}, CoroutineInv, NEW c \in Coroutines,
         NEW n \in 1..Cardinality(Vars), CloseCoroutine(c, n)
  PROVE  IsKilled(Machine, c, Machine')
  <1> DEFINE t == Running
             w == Machine
             O == co[c].origins
             m == CloseShared(w, t, O)
             level == BaseOf(c)
             S == ToClose(m, c, level)
             k == Close(m, c, S)
             d == Dropped(k, c)
             r == SyncBack(d, t, O)
  <1>1. /\ MachineInv(w) /\ ContextInv /\ t \in Threads /\ leaving[t] = "no"
        /\ co[c].st = "suspended" /\ co[c].creator = t
        /\ ToClose(w, c, 1) = ToClose(w, c, level) /\ n >= Cardinality(Vars)
        /\ w.var = var /\ w.cell = cell /\ w.stack = stack
    BY RunFacts DEF CoroutineInv, CloseCoroutine, Active, Busy, Machine
  <1>2. Becomes(SyncBack(Dropped(CloseFrom(m, c, level, n), c), t, O))
    BY DEF CloseCoroutine
  <1>3. /\ c \in Threads /\ c # t /\ Alive(c) /\ Alive(t) /\ DOMAIN O \subseteq Vars
    BY <1>1, RunFacts, CoFacts DEF Alive, Suspended, Threads
  <1>4. \A u \in DOMAIN O : /\ var[u].live /\ ~var[u].tbc /\ var[u].home = t
                            /\ O[u] = var[u].idx /\ cell[u].st = "open"
    <2>1. LinksOK(c)
      BY <1>1, <1>3 DEF ContextInv, LinkInv
    <2>2. \A u \in DOMAIN O : cell[u].st = "open"
      BY <1>1, <1>3, OpenLinks
    <2> QED
      BY <1>1, <1>3, <2>1, <2>2 DEF LinksOK, Linked
  <1> HIDE DEF w, O, t, level
  <1>5. MayReopen(w, t, O)
    BY <1>1, <1>3, <1>4 DEF MayReopen, Is
  <1>6. IsShut(w, DOMAIN O, m)
    BY <1>1, <1>5, SharedShut
  <1> HIDE DEF m
  <1>7. MachineInv(m)
    BY <1>6 DEF IsShut
  <1>8. CloseFrom(m, c, level, n) = k
    <2>1. n \in Nat
      BY CardinalityVars
    <2> QED
      BY <1>1, <1>3, <1>7, <2>1, CloseFromAll
  <1>9. S \in SUBSET m.list[c] /\ \A v : v \in S <=> v \in Vars /\ Is(w, v, "open") /\ w.var[v].home = c
    <2>1. \A v : v \in S <=> v \in Vars /\ Is(m, v, "open") /\ m.var[v].home = c
                             /\ m.var[v].idx >= level
      BY <1>3, <1>7, ToCloseMember
    <2>2. \A v \in Vars : v \notin DOMAIN O => m.var[v] = w.var[v] /\ m.cell[v].st = w.cell[v].st
      BY <1>6 DEF IsShut
    <2>3. \A v \in DOMAIN O : v \notin S /\ w.var[v].home # c
      <3>1. \A v \in DOMAIN O : m.cell[v].st = "closed" /\ w.var[v].home # c
        BY <1>1, <1>3, <1>4, <1>6 DEF IsShut
      <3> QED
        BY <2>1, <3>1 DEF Is
    <2>4. \A v \in Vars : Is(w, v, "open") /\ w.var[v].home = c => w.var[v].idx >= level
      <3> SUFFICES ASSUME NEW v \in Vars, Is(w, v, "open"), w.var[v].home = c
                   PROVE  w.var[v].idx >= level
        OBVIOUS
      <3>1. w.var[v].idx >= 1
        <4>1. w.var[v].live /\ w.var[v].idx \in Nat
              /\ (w.var[v].idx = 0 => w.cell[v].st = "none")
          BY <1>1, MachineFacts, SlotContent
        <4>2. w.var[v].idx # 0
          BY <4>1 DEF Is
        <4> QED
          BY <4>1, <4>2
      <3>2. v \in ToClose(w, c, 1)
        BY <1>1, <1>3, <3>1, ToCloseMember
      <3>3. v \in ToClose(w, c, level)
        BY <1>1, <3>2
      <3> QED
        BY <1>1, <1>3, <3>3, ToCloseMember
    <2>5. S \in SUBSET m.list[c]
      BY DEF ToClose
    <2> HIDE DEF S
    <2> QED
      BY <2>1, <2>2, <2>3, <2>4, <2>5 DEF Is
  <1> HIDE DEF S
  <1>10. /\ MachineInv(k) /\ k.stack = m.stack
         /\ \A v \in Vars :
              /\ k.cell[v].st = IF v \in S THEN "closed" ELSE m.cell[v].st
              /\ k.var[v].live = m.var[v].live /\ k.var[v].home = m.var[v].home
              /\ k.var[v].idx = m.var[v].idx /\ k.var[v].tbc = m.var[v].tbc
              /\ k.var[v].closed = IF v \in S /\ m.var[v].tbc THEN m.var[v].closed + 1
                                   ELSE m.var[v].closed
    BY <1>3, <1>7, <1>9, CloseInv
  <1> HIDE DEF k
  <1>11. /\ MachineInv(d) /\ IsCut(k, c, 1, d)
    <2>1. \A v \in Vars : ~(Is(k, v, "open") /\ k.var[v].home = c)
      <3> SUFFICES ASSUME NEW v \in Vars, k.cell[v].st = "open", k.var[v].home = c PROVE FALSE
        BY DEF Is
      <3>1. v \notin S /\ m.cell[v].st = "open" /\ w.var[v].home = c
        BY <1>6, <1>10 DEF IsShut
      <3>2. w.cell[v].st = "open"
        BY <1>6, <3>1 DEF IsShut
      <3> QED
        BY <1>9, <3>1, <3>2 DEF Is
    <2> QED
      BY <1>3, <1>10, <2>1, DroppedInv
  <1> HIDE DEF d
  <1>12. MayReopen(d, t, O)
    <2>1. \A v \in Vars : v \in DOMAIN O =>
            /\ d.var[v].home = w.var[v].home /\ d.var[v].idx = w.var[v].idx
            /\ d.var[v].tbc = w.var[v].tbc
            /\ w.var[v].live /\ w.var[v].home # c => d.var[v].live
            /\ d.cell[v].st = "closed"
      <3> SUFFICES ASSUME NEW v \in Vars, v \in DOMAIN O
                   PROVE  /\ d.var[v].home = w.var[v].home /\ d.var[v].idx = w.var[v].idx
                          /\ d.var[v].tbc = w.var[v].tbc
                          /\ w.var[v].live /\ w.var[v].home # c => d.var[v].live
                          /\ d.cell[v].st = "closed"
        OBVIOUS
      <3>1. m.var[v] = w.var[v] /\ m.cell[v].st = "closed"
        BY <1>6 DEF IsShut
      <3> QED
        BY <1>10, <1>11, <3>1 DEF IsCut
    <2> QED
      BY <1>1, <1>3, <1>4, <2>1 DEF MayReopen, Is
  <1>13. IsOpened(d, DOMAIN O, r)
    BY <1>3, <1>1, <1>11, <1>12, BackOpened
  <1>14. Becomes(r)
    BY <1>2, <1>8 DEF d
  <1> HIDE DEF r
  <1>15. MachineInv(r) /\ Machine' = r
    BY <1>13, <1>14, BecomesFields DEF MachineInv, IsOpened
  <1>16. ASSUME NEW v \in Vars
         PROVE  /\ r.var[v].home = w.var[v].home /\ r.var[v].idx = w.var[v].idx
                /\ r.var[v].tbc = w.var[v].tbc
                /\ r.var[v].live <=> w.var[v].live /\ w.var[v].home # c
                /\ r.var[v].closed =
                     IF w.var[v].home = c /\ w.var[v].tbc /\ w.cell[v].st = "open"
                     THEN w.var[v].closed + 1 ELSE w.var[v].closed
                /\ r.cell[v].st = IF w.var[v].home = c /\ w.cell[v].st = "open" THEN "closed"
                                  ELSE w.cell[v].st
    <2>1. r.var = d.var /\ m.var = w.var
      BY <1>6, <1>13 DEF IsOpened, IsShut
    <2>2. /\ d.var[v].home = k.var[v].home /\ d.var[v].idx = k.var[v].idx
          /\ d.var[v].tbc = k.var[v].tbc /\ d.var[v].closed = k.var[v].closed
          /\ d.var[v].live <=> k.var[v].live /\ ~(k.var[v].home = c /\ k.var[v].idx >= 1)
          /\ d.cell = k.cell
      BY <1>11 DEF IsCut
    <2>3. v \in S <=> w.cell[v].st = "open" /\ w.var[v].home = c
      BY <1>9 DEF Is
    <2>4. w.var[v].live => w.var[v].idx >= 1
      <3>1. /\ w.var[v].idx \in Nat /\ w.var[v].live \in BOOLEAN
            /\ w.var[v].idx = 0 => ~w.var[v].live
        BY <1>1, MachineFacts
      <3> QED
        BY <3>1
    <2>5. /\ r.var[v].home = w.var[v].home /\ r.var[v].idx = w.var[v].idx
          /\ r.var[v].tbc = w.var[v].tbc
          /\ r.var[v].live <=> w.var[v].live /\ w.var[v].home # c
      BY <1>10, <2>1, <2>2, <2>4
    <2>6. r.var[v].closed =
            IF w.var[v].home = c /\ w.var[v].tbc /\ w.cell[v].st = "open"
            THEN w.var[v].closed + 1 ELSE w.var[v].closed
      BY <1>10, <2>1, <2>2, <2>3
    <2>7. r.cell[v].st = IF w.var[v].home = c /\ w.cell[v].st = "open" THEN "closed"
                         ELSE w.cell[v].st
      <3>1. r.cell[v].st = IF v \in DOMAIN O THEN "open" ELSE k.cell[v].st
        BY <1>13, <2>2 DEF IsOpened
      <3>2. CASE v \in DOMAIN O
        BY <1>1, <1>3, <1>4, <3>1, <3>2
      <3>3. CASE v \notin DOMAIN O
        <4>1. m.cell[v].st = w.cell[v].st
          BY <1>6, <3>3 DEF IsShut
        <4> QED
          BY <1>10, <2>3, <3>1, <3>3, <4>1
      <3> QED
        BY <3>2, <3>3
    <2> QED
      BY <2>5, <2>6, <2>7
  <1>17. \A s \in Threads : Len(r.stack[s]) = IF s = c THEN 0 ELSE Len(w.stack[s])
    BY <1>6, <1>10, <1>11, <1>13 DEF IsShut, IsCut, IsOpened
  <1>18. IsKilled(w, c, r)
    BY <1>15, <1>16, <1>17 DEF IsKilled
  <1> QED
    BY <1>15, <1>18 DEF w

LEMMA CloseCoroutineKeeps ==
  ASSUME Habits = {}, CoroutineInv, NEW c \in Coroutines,
         NEW n \in 1..Cardinality(Vars), CloseCoroutine(c, n)
  PROVE  CoroutineInv' /\ \E K : ClosesTbc(K)
  <1>1. /\ MachineInv(Machine) /\ ContextInv /\ leaving[Running] = "no"
        /\ co[c].st = "suspended" /\ co[c].creator = Running
        /\ co' = [co EXCEPT ![c] = Dead(c, "ok")]
        /\ reach' = [reach EXCEPT ![c] = {}] /\ frames' = [frames EXCEPT ![c] = <<>>]
        /\ leaving' = [leaving EXCEPT ![c] = "no"] /\ chain' = chain
    BY DEF CoroutineInv, CloseCoroutine, Active, Busy
  <1>2. IsKilled(Machine, c, Machine')
    BY KilledFacts
  <1>3. /\ Machine.var = var /\ Machine.cell = cell /\ Machine.stack = stack
        /\ Machine'.var = var' /\ Machine'.cell = cell' /\ Machine'.stack = stack'
    BY DEF Machine
  <1> DEFINE m == Machine
             r == Machine'
  <1>4. IsKilled(m, c, r) /\ m.var = var /\ m.cell = cell /\ m.stack = stack
        /\ r.var = var' /\ r.cell = cell' /\ r.stack = stack'
    BY <1>2, <1>3
  <1> HIDE DEF m, r
  <1>5. /\ MachineInv(r)
        /\ \A v \in Vars :
             /\ var'[v].home = var[v].home /\ var'[v].idx = var[v].idx
             /\ var'[v].tbc = var[v].tbc
             /\ var'[v].live <=> var[v].live /\ var[v].home # c
             /\ cell'[v].st = IF var[v].home = c /\ cell[v].st = "open" THEN "closed"
                              ELSE cell[v].st
        /\ \A t \in Threads : Len(stack'[t]) = IF t = c THEN 0 ELSE Len(stack[t])
    BY <1>4 DEF IsKilled
  <1>6. MachineInv(Machine')
    BY <1>5 DEF r
  <1>7. ContextInv'
    BY <1>1, <1>5, <1>6, KillStep
  <1> DEFINE K == {v \in Vars : var[v].home = c /\ cell[v].st = "open"}
  <1>8. ClosesTbc(K)
    BY <1>5 DEF ClosesTbc, Upward
  <1> QED
    BY <1>6, <1>7, <1>8 DEF CoroutineInv

LEMMA CloseFailedKeeps ==
  ASSUME CoroutineInv, NEW c \in Coroutines, CloseFailed(c)
  PROVE  CoroutineInv' /\ ClosesTbc({})
  <1>1. /\ MachineInv(Machine) /\ ContextInv /\ co[c].st = "error"
        /\ co' = [co EXCEPT ![c].st = "ok"]
        /\ UNCHANGED <<chain, stack, frames, leaving, var, cell, list, reach>>
    BY DEF CoroutineInv, CloseFailed
  <1>2. Machine' = Machine
    BY <1>1 DEF Machine
  <1>3. ContextInv'
    BY <1>1, <1>2, ForgetStep
  <1>4. ClosesTbc({})
    BY <1>1, ClosesNone
  <1> QED
    BY <1>1, <1>2, <1>3, <1>4 DEF CoroutineInv

-----------------------------------------------------------------------------
(* The invariant holds.                                                      *)

LEMMA InitMachine ==
  ASSUME Init
  PROVE  MachineInv(Machine)
  <1> DEFINE y(v) == [live |-> FALSE, home |-> Main, idx |-> 0, ver |-> 0,
                      tbc |-> FALSE, closed |-> 0, via |-> v]
  <1>1. /\ \A v \in Vars : var[v] = y(v) /\ cell[v] = NoCell
        /\ \A t \in Threads : list[t] = {} /\ stack[t] = <<>>
        /\ var = [v \in Vars |-> y(v)] /\ cell = [v \in Vars |-> NoCell]
        /\ list = [t \in Threads |-> {}] /\ stack = [t \in Threads |-> <<>>]
    BY DEF Init
  <1>2. \A v \in Vars : y(v) \in VarRecs
    BY DEF VarRecs, Threads
  <1>3. NoCell \in Cells
    BY DEF NoCell, Cells, Value
  <1>4. <<>> \in Seq(Value)
    OBVIOUS
  <1>5. Machine \in Machines
    <2>1. /\ var \in [Vars -> VarRecs] /\ cell \in [Vars -> Cells]
          /\ list \in [Threads -> SUBSET Vars] /\ stack \in [Threads -> Seq(Value)]
      BY <1>1, <1>2, <1>3, <1>4
    <2> QED
      BY <2>1 DEF Machine, Machines
  <1>6. Machine.var = var /\ Machine.cell = cell /\ Machine.list = list /\ Machine.stack = stack
    BY DEF Machine
  <1>7. NoCell.st = "none"
    BY DEF NoCell
  <1>8. \A v \in Vars : /\ var[v].via = v /\ var[v].idx = 0 /\ var[v].live = FALSE
                        /\ var[v].tbc = FALSE /\ var[v].ver = 0 /\ var[v].closed = 0
    BY <1>1
  <1>9. \A v \in Vars : VarOK(Machine, v) /\ ValueOK(Machine, v) /\ TbcOK(Machine, v)
    BY <1>1, <1>6, <1>7, <1>8 DEF VarOK, ValueOK, TbcOK, Is
  <1>10. \A t \in Threads : ListOK(Machine, t)
    BY <1>1, <1>6, <1>7 DEF ListOK, Is
  <1> QED
    BY <1>5, <1>9, <1>10 DEF MachineInv

LEMMA InitContext ==
  ASSUME Init
  PROVE  ContextInv
  <1>1. /\ chain = <<Main>> /\ Len(chain) = 1 /\ chain[1] = Main
        /\ \A c \in Coroutines : co[c] = NoCo
        /\ \A t \in Threads : /\ stack[t] = <<>> /\ leaving[t] = "no" /\ reach[t] = {}
                              /\ t # Main => frames[t] = <<>>
        /\ frames[Main] = <<[base |-> 1, guard |-> "armed"]>>
        /\ \A v \in Vars : /\ cell[v].st = "none" /\ var[v].live = FALSE
                           /\ var[v].tbc = FALSE
    BY DEF Init, Threads, NoCell
  <1>2. /\ NoCo.st = "none" /\ NoCo.started = FALSE /\ NoCo.wrap = FALSE /\ NoCo.creator = Main
        /\ NoCo.body = {} /\ NoCo.origins = NoOrigins /\ NoCo.pending = NoOrigins
        /\ NoCo.inside = NoOrigins /\ NoCo.handler = "no"
    BY DEF NoCo
  <1>3. Main \in Threads /\ Main \notin Coroutines /\ Coroutines \subseteq Threads
    BY CoroutineConstants DEF Threads
  <1>4. ContextTypes
    <2>1. NoOrigins \in Indices /\ NoOrigins \in Saved
      BY NoOriginsFacts
    <2>2. NoCo \in Contexts
      BY <1>3, <2>1 DEF NoCo, Contexts
    <2>3. [base |-> 1, guard |-> "armed"] \in Frames
      BY DEF Frames
    <2>4. frames \in [Threads -> Seq(Frames)]
      BY <2>3 DEF Init
    <2>5. chain \in Seq(Threads)
      BY <1>1, <1>3
    <2>6. /\ co \in [Coroutines -> Contexts] /\ reach \in [Threads -> SUBSET Vars]
          /\ leaving \in [Threads -> {"no", "return", "error"}]
      BY <2>2 DEF Init
    <2> QED
      BY <2>4, <2>5, <2>6 DEF ContextTypes
  <1>5. \A c \in Coroutines : ~Alive(c) /\ ~Started(c) /\ ~Suspended(c)
    BY <1>1, <1>2, <1>3 DEF Alive, Started, Suspended
  <1>6. ChainInv
    <2>1. Main \notin DOMAIN Parents
      BY <1>3 DEF Parents
    <2>2. Above(Main) = {Main}
      BY <1>3, <2>1, AboveRoot DEF Above
    <2>3. Upto(chain, 1) = {Main}
      BY <1>1 DEF Upto
    <2>4. 1..Len(chain) = {1} /\ 2..Len(chain) = {}
      BY <1>1
    <2>5. \A c \in Coroutines : co[c].st # "normal"
      BY <1>1, <1>2
    <2>6. \A i \in 1..Len(chain) : Above(chain[i]) = Upto(chain, i)
      BY <1>1, <2>2, <2>3, <2>4
    <2> QED
      BY <1>1, <2>4, <2>5, <2>6 DEF ChainInv
  <1>7. TreeInv
    BY <1>1, <1>2 DEF TreeInv
  <1>8. FrameInv
    <2>1. FramesOK(<<[base |-> 1, guard |-> "armed"]>>, 0) /\ FramesOK(<<>>, 0)
      BY DEF FramesOK, Frames
    <2>2. \A t \in Threads : Len(stack[t]) = 0
      BY <1>1
    <2>3. \A t \in Threads : FramesOK(frames[t], Len(stack[t]))
      BY <1>1, <2>1, <2>2
    <2>4. frames[Main][1].guard = "armed"
      BY <1>1
    <2> QED
      BY <1>1, <1>3, <1>5, <2>3, <2>4 DEF FrameInv
  <1>9. HomeInv /\ AwayInv /\ ParkInv
    BY <1>1 DEF HomeInv, AwayInv, ParkInv
  <1>10. LinkInv
    BY <1>5 DEF LinkInv
  <1>11. LeaveInv
    BY <1>1 DEF LeaveInv
  <1>12. ReachInv
    BY <1>1, <1>2, <1>3, <1>5 DEF ReachInv, Captured
  <1> QED
    BY <1>4, <1>6, <1>7, <1>8, <1>9, <1>10, <1>11, <1>12 DEF ContextInv

LEMMA NextKeeps ==
  ASSUME Habits = {}, CoroutineInv, [Next]_vars
  PROVE  CoroutineInv' /\ \E K : ClosesTbc(K)
  <1> DEFINE Result == CoroutineInv' /\ \E K : ClosesTbc(K)
  <1>1. CASE UNCHANGED vars
    <2>1. Machine' = Machine
      BY <1>1 DEF vars, Machine
    <2>2. /\ chain' = chain /\ co' = co /\ stack' = stack /\ frames' = frames
          /\ leaving' = leaving /\ var' = var /\ cell' = cell /\ reach' = reach
      BY <1>1 DEF vars
    <2>3. \A t : Above(t)' = Above(t)
      BY <2>2 DEF Above, Parents
    <2>4. \A v : /\ Shared(v)' = Shared(v) /\ Parked(v)' = Parked(v) /\ Going(v)' = Going(v)
      BY <2>2 DEF Shared, Parked, Going, Suspended
    <2>5. \A t : Alive(t)' = Alive(t) /\ Started(t)' = Started(t) /\ Suspended(t)' = Suspended(t)
      BY <2>2 DEF Alive, Started, Suspended
    <2>6. /\ ContextTypes' = ContextTypes /\ TreeInv' = TreeInv /\ FrameInv' = FrameInv
          /\ HomeInv' = HomeInv
      BY <2>2, <2>5 DEF ContextTypes, TreeInv, FrameInv, HomeInv
    <2>7. ChainInv' = ChainInv
      BY <2>2, <2>3 DEF ChainInv
    <2>8. AwayInv' = AwayInv /\ ParkInv' = ParkInv
      BY <2>2, <2>4, <2>5 DEF AwayInv, ParkInv
    <2>9. LinkInv' = LinkInv
      BY <2>2 DEF LinkInv, LinksOK, Linked, Alive
    <2>10. LeaveInv' = LeaveInv
      BY <2>2, <2>4 DEF LeaveInv, Apart, Clean, Alive, Parked, Suspended
    <2>11. ReachInv' = ReachInv
      BY <2>2, <2>3, <2>5 DEF ReachInv, Captured, Given, Below
    <2>12. ClosesTbc({})
      BY <2>2, ClosesNone
    <2> QED
      BY <2>1, <2>6, <2>7, <2>8, <2>9, <2>10, <2>11, <2>12 DEF CoroutineInv, ContextInv
  <1>2. ASSUME NEW v \in Vars, NEW tbc \in BOOLEAN, Declare(v, tbc) PROVE Result
    BY <1>2, DeclareKeeps
  <1>3. ASSUME NEW v \in Vars, WriteLocal(v) PROVE Result
    BY <1>3, WriteLocalKeeps
  <1>4. ASSUME NEW v \in Vars, WriteUpval(v) PROVE Result
    BY <1>4, WriteUpvalKeeps
  <1>5. ASSUME NEW guard \in {"none", "armed"}, Call(guard) PROVE Result
    BY <1>5, CallKeeps
  <1>6. CASE BeginReturn
    BY <1>6, BeginReturnKeeps
  <1>7. CASE BeginError
    BY <1>7, BeginErrorKeeps
  <1>8. CASE EndReturn
    BY <1>8, EndReturnKeeps
  <1>9. CASE EndError
    BY <1>9, EndErrorKeeps
  <1>10. ASSUME NEW outcome \in {"ok", "error"}, CloseStep(outcome) PROVE Result
    BY <1>10, CloseStepKeeps
  <1>11. ASSUME NEW c \in Coroutines, NEW S \in SUBSET Vars, NEW wrap \in BOOLEAN,
                Create(c, S, wrap)
         PROVE  Result
    BY <1>11, CreateKeeps
  <1>12. ASSUME NEW c \in Coroutines, NEW A \in SUBSET Vars, Resume(c, A) PROVE Result
    BY <1>12, ResumeKeeps
  <1>13. ASSUME NEW A \in SUBSET Vars, Yield(A) PROVE Result
    BY <1>13, YieldKeeps
  <1>14. CASE \E lua \in BOOLEAN : YieldInHandler(lua)
    BY <1>14, YieldInHandlerKeeps
  <1>15. ASSUME NEW c \in Coroutines, NEW n \in 1..Cardinality(Vars), CloseCoroutine(c, n)
         PROVE  Result
    BY <1>15, CloseCoroutineKeeps
  <1>16. ASSUME NEW c \in Coroutines, CloseFailed(c) PROVE Result
    BY <1>16, CloseFailedKeeps
  <1>17. CASE HandlerYields
    BY <1>17, HandlerYieldsKeeps
  <1>18. CASE HandlerReturns
    BY <1>18, HandlerReturnsKeeps
  <1>19. CASE HandlerRaises
    BY <1>19, HandlerRaisesKeeps
  <1> QED
    BY <1>1, <1>2, <1>3, <1>4, <1>5, <1>6, <1>7, <1>8, <1>9, <1>10, <1>11, <1>12, <1>13,
       <1>14, <1>15, <1>16, <1>17, <1>18, <1>19
    DEF Next

(* The inductive invariant: a live variable has one slot and one value, kept *)
(* in its cell when that is closed, and a cell is closed away from its       *)
(* thread's stack only while another thread may write it.  It holds of every *)
(* program that has none of the habits.  A coroutine may be suspended in a   *)
(* __close handler, resumed in it and go on; it is closed there only when    *)
(* its frame has nothing left to close, so that the base coroutine.close     *)
(* starts from (coroutine_lib.rs:1121) does not matter.                      *)
THEOREM CoroutineInvariant ==
  ASSUME Habits = {}
  PROVE  Spec => []CoroutineInv
  <1>1. Init => CoroutineInv
    BY InitMachine, InitContext DEF CoroutineInv
  <1>2. CoroutineInv /\ [Next]_vars => CoroutineInv'
    BY NextKeeps
  <1> QED
    BY <1>1, <1>2, PTL DEF Spec

LEMMA InvImpliesTypes ==
  ASSUME CoroutineInv
  PROVE  TypeOK
  <1>1. /\ MachineInv(Machine) /\ Machine \in Machines
        /\ Machine.cell = cell /\ Machine.var = var /\ Machine.stack = stack
        /\ Machine.list = list
    BY DEF CoroutineInv, MachineInv, Machine
  <1>2. \A t \in Threads : stack[t] \in Seq(Value)
    BY <1>1, MachineFields
  <1>3. \A u \in Vars : cell[u].val \in Value
    BY <1>1, MachineFields DEF Cells
  <1>4. ASSUME NEW t \in Threads, NEW u \in list[t], IsOpen(Machine, u)
        PROVE  /\ u \in Vars /\ var[u].home = t /\ var[u].live /\ cell[u].idx = var[u].idx
               /\ cell[u].idx \in DOMAIN stack[t]
    <2>1. u \in Vars /\ Is(Machine, u, "open") /\ var[u].home = t
      BY <1>1, <1>4, ListMember
    <2> QED
      BY <1>1, <2>1, SlotContent
  <1>5. ASSUME NEW t \in Threads, NEW u \in list[t], IsOpen(Machine, u),
               NEW w \in list[t] \ {u}, IsOpen(Machine, w)
        PROVE  cell[w].idx # cell[u].idx
    <2>1. VarOK(Machine, u)
      BY <1>1, <1>4, <1>5 DEF MachineInv
    <2> QED
      BY <1>1, <1>4, <1>5, <2>1 DEF VarOK
  <1> QED
    BY <1>2, <1>3, <1>4, <1>5 DEF TypeOK

LEMMA InvImpliesReads ==
  ASSUME CoroutineInv
  PROVE  VariablesReadLastWrite /\ OpenMeansOwnStack
  <1> SUFFICES ASSUME Active PROVE VariablesReadLastWrite /\ OpenMeansOwnStack
    BY DEF VariablesReadLastWrite, OpenMeansOwnStack
  <1>1. /\ MachineInv(Machine) /\ ContextInv /\ Running \in Threads /\ leaving[Running] = "no"
        /\ Machine.cell = cell /\ Machine.var = var /\ Machine.stack = stack
        /\ Machine.list = list
    BY RunFacts DEF CoroutineInv, Machine, Active, Busy
  <1>2. ASSUME NEW v \in Vars, IsLocal(Running, v)
        PROVE  stack[Running][var[v].idx] = <<v, var[v].ver>>
    <2>1. var[v].live /\ var[v].home = Running /\ ValueOK(Machine, v)
      BY <1>1, <1>2 DEF IsLocal, MachineInv
    <2>2. ~Is(Machine, v, "closed")
      BY <1>1, <2>1, OwnCells DEF Is
    <2> QED
      BY <1>1, <2>1, <2>2 DEF ValueOK, Content
  <1>3. ASSUME NEW v \in reach[Running]
        PROVE  /\ ReadUpval(v) = <<v, var[v].ver>>
               /\ IsOpen(Machine, var[v].via) => var[v].via \in list[Running]
    <2>1. v \in Vars /\ cell[v].st # "none" /\ ~var[v].tbc
      BY <1>1 DEF ContextInv, ContextTypes, ReachInv, Captured
    <2>2. var[v].via = v /\ cell[v].st \in {"none", "open", "closed"} /\ ValueOK(Machine, v)
      BY <1>1, <2>1, VarFacts DEF MachineInv
    <2>3. CASE cell[v].st = "open"
      <3>1. var[v].home = Running
        BY <1>1, <2>3, OwnCells
      <3>2. SlotOf(Machine, Running, cell[v].idx) = <<v, var[v].ver>>
        BY <1>1, <2>1, <2>3, <3>1, SlotContent DEF Is, Content
      <3>3. v \in list[Running]
        BY <1>1, <2>1, <2>3, <3>1, ListMember DEF Is
      <3> QED
        BY <1>1, <2>2, <2>3, <3>2, <3>3 DEF ReadUpval, IsOpen
    <2>4. CASE cell[v].st = "closed"
      <3>1. cell[v].val = <<v, var[v].ver>>
        BY <1>1, <2>1, <2>2, <2>4 DEF ValueOK, Is, Content
      <3> QED
        BY <1>1, <2>2, <2>4, <3>1 DEF ReadUpval, IsOpen
    <2> QED
      BY <2>1, <2>2, <2>3, <2>4
  <1>4. VariablesReadLastWrite
    BY <1>2, <1>3 DEF VariablesReadLastWrite
  <1>5. OpenMeansOwnStack
    BY <1>3 DEF OpenMeansOwnStack
  <1> QED
    BY <1>4, <1>5

LEMMA InvImpliesClosed ==
  ASSUME CoroutineInv
  PROVE  ClosedExactlyOnce
  <1> SUFFICES ASSUME NEW v \in Vars, var[v].tbc
               PROVE  var[v].closed <= 1 /\ (~var[v].live => var[v].closed = 1)
    BY DEF ClosedExactlyOnce
  <1>1. /\ MachineInv(Machine) /\ Machine.cell = cell /\ Machine.var = var
        /\ TbcOK(Machine, v)
    BY DEF CoroutineInv, MachineInv, Machine
  <1>2. var[v].closed = IF cell[v].st = "open" THEN 0 ELSE 1
    BY <1>1 DEF TbcOK, Is
  <1>3. cell[v].st = "open" => var[v].live
    BY <1>1, VarFacts
  <1> QED
    BY <1>2, <1>3

(* The upvalue list of a thread has one open upvalue per slot and none       *)
(* beyond the stack, for any number of threads, variables and slots: what    *)
(* find_upval and close of func.rs rely on.                                  *)
THEOREM CoroutineTypes ==
  ASSUME Habits = {}
  PROVE  Spec => []TypeOK
  <1>1. CoroutineInv => TypeOK
    BY InvImpliesTypes
  <1> QED
    BY <1>1, CoroutineInvariant, PTL

(* Whichever thread reads a variable reads what was written to it last, by   *)
(* whichever thread: closing the shared upvalues on a switch of stacks and   *)
(* writing them back (coroutine_lib.rs) cannot be seen by the program.       *)
THEOREM ReadsLastWrite ==
  ASSUME Habits = {}
  PROVE  Spec => []VariablesReadLastWrite
  <1>1. CoroutineInv => VariablesReadLastWrite
    BY InvImpliesReads
  <1> QED
    BY <1>1, CoroutineInvariant, PTL

(* A running thread looks up no stack index in the stack of another thread:  *)
(* the open upvalues in its reach are on its own list.                       *)
THEOREM OwnStack ==
  ASSUME Habits = {}
  PROVE  Spec => []OpenMeansOwnStack
  <1>1. CoroutineInv => OpenMeansOwnStack
    BY InvImpliesReads
  <1> QED
    BY <1>1, CoroutineInvariant, PTL

(* Every to-be-closed variable has its __close called once, when its scope   *)
(* is left by a return or an error, also when a handler yields, is resumed   *)
(* and then returns or raises (func.rs close, finish_close_continuation).    *)
(* Of the habits that are excluded, five leave a variable open or close it   *)
(* for nothing: an error, or coroutine.close, while outer frames have        *)
(* variables (outer_scope); coroutine.close inside a suspended handler while *)
(* its frame has (close_in_handler); callers lost after a resumed handler or *)
(* a caught error (lost_callers); closures over to-be-closed variables       *)
(* (share_tbc); and a yield out of coroutine.close (yield_in_close).         *)
THEOREM ClosedOnce ==
  ASSUME Habits = {}
  PROVE  Spec => []ClosedExactlyOnce
  <1>1. CoroutineInv => ClosedExactlyOnce
    BY InvImpliesClosed
  <1> QED
    BY <1>1, CoroutineInvariant, PTL

(* In a step that closes cells, latest first, __close is called in that      *)
(* order.                                                                    *)
Reversed ==
    \A v \in Vars : var'[v].closed > var[v].closed =>
        /\ var[v].tbc
        /\ \A w \in Vars :
             (/\ var[w].live /\ var[w].tbc
              /\ var[w].home = var[v].home /\ var[w].idx > var[v].idx)
             => var'[w].closed = 1

LEMMA ClosesReversed ==
  ASSUME CoroutineInv, CoroutineInv', NEW K, ClosesTbc(K)
  PROVE  Reversed
  <1>1. \A v \in Vars : /\ cell[v].st \in {"none", "open", "closed"}
                        /\ var[v].tbc \in BOOLEAN /\ (var[v].tbc => cell[v].st # "none")
    BY VarFacts DEF CoroutineInv
  <1>2. \A v \in Vars : var[v].closed = IF var[v].tbc /\ cell[v].st # "open" THEN 1 ELSE 0
    BY DEF CoroutineInv, MachineInv, Machine, TbcOK, Is
  <1>3. \A v \in Vars : var'[v].closed = IF var'[v].tbc /\ cell'[v].st # "open" THEN 1 ELSE 0
    <2>1. MachineInv(Machine') /\ Machine'.var = var' /\ Machine'.cell = cell'
      BY DEF CoroutineInv, Machine
    <2> QED
      BY <2>1 DEF MachineInv, TbcOK, Is
  <1> SUFFICES ASSUME NEW v \in Vars, var'[v].closed > var[v].closed
               PROVE  /\ var[v].tbc
                      /\ \A w \in Vars :
                           (/\ var[w].live /\ var[w].tbc
                            /\ var[w].home = var[v].home /\ var[w].idx > var[v].idx)
                           => var'[w].closed = 1
    BY DEF Reversed
  <1>4. var'[v].tbc /\ cell'[v].st # "open" /\ ~(var[v].tbc /\ cell[v].st # "open")
    BY <1>2, <1>3
  <1>5. var[v].tbc /\ cell[v].st = "open" /\ v \in K
    BY <1>1, <1>4 DEF ClosesTbc
  <1>6. ASSUME NEW w \in Vars, var[w].tbc, var[w].home = var[v].home,
               var[w].idx > var[v].idx
        PROVE  var'[w].closed = 1
    <2>1. cell[w].st = "open" => w \in K
      BY <1>5, <1>6 DEF ClosesTbc, Upward
    <2>2. var'[w].tbc /\ cell'[w].st # "open"
      BY <1>6, <2>1 DEF ClosesTbc
    <2> QED
      BY <1>3, <2>2
  <1> QED
    BY <1>5, <1>6

(* __close is called for nothing but a to-be-closed variable, and only after *)
(* those declared later in the same thread: close of func.rs takes the       *)
(* highest upvalue first, also when a handler raises or yields.              *)
THEOREM ClosesInReverse ==
  ASSUME Habits = {}
  PROVE  Spec => ClosedInReverse
  <1>1. CoroutineInv /\ [Next]_vars /\ CoroutineInv' =>
          [\A v \in Vars : var'[v].closed > var[v].closed =>
              /\ var[v].tbc
              /\ \A w \in Vars :
                   (/\ var[w].live /\ var[w].tbc
                    /\ var[w].home = var[v].home /\ var[w].idx > var[v].idx)
                   => var'[w].closed = 1]_vars
    <2> SUFFICES ASSUME CoroutineInv, CoroutineInv', [Next]_vars PROVE Reversed
      BY DEF Reversed
    <2> QED
      BY NextKeeps, ClosesReversed
  <1> QED
    BY <1>1, CoroutineInvariant, PTL DEF Spec, ClosedInReverse
=============================================================================
