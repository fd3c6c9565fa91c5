--------------------------- MODULE KernelHost_proofs ---------------------------
(***************************************************************************)
(* Proofs about KernelHost.  The visits of the constructor and the builds  *)
(* of a call are the same recursion, over declared requirements and over   *)
(* what is asked for: both stacks are a Chain, and what holds of one step  *)
(* of a Chain is proved once.                                              *)
(***************************************************************************)
EXTENDS KernelHost, SequenceTheorems, WellFoundedInduction, TLAPS

USE SizeAssumption, WorldsAssumption, ClosersAssumption

LEMMA LeastElement ==
  ASSUME NEW S \in SUBSET Nat, S # {}
  PROVE  \E i \in S : \A k \in S : i <= k
<1> DEFINE Less == OpToRel(<, Nat)
<1>1. IsWellFoundedOn(Less, Nat)
  BY NatLessThanWellFounded
<1>2. \A a, b \in Nat : a < b => <<a, b>> \in Less
  BY DEF OpToRel
<1> HIDE DEF Less
<1>3. PICK i \in S : \A k \in S : ~(<<k, i>> \in Less)
  BY <1>1, WFMin
<1>4. \A k \in S : ~(k < i)
  BY <1>2, <1>3
<1>5. \A k \in S : i <= k
  BY <1>4
<1> QED
  BY <1>5

LEMMA LeastFacts ==
  ASSUME NEW S \in SUBSET Caps, S # {}
  PROVE  Least(S) \in S
<1>1. S \in SUBSET Nat
  BY DEF Caps
<1> QED
  BY <1>1, LeastElement DEF Least

LEMMA PopFacts ==
  ASSUME NEW S, NEW s \in Seq(S), s # << >>
  PROVE  /\ Len(s) \in 1 .. Len(s) /\ Len(s) - 1 \in Nat
         /\ Top(s) = s[Len(s)] /\ Top(s) \in S
         /\ Pop(s) \in Seq(S) /\ Len(Pop(s)) = Len(s) - 1
         /\ \A i \in 1 .. Len(s) - 1 : Pop(s)[i] = s[i]
<1>1. Len(s) \in Nat /\ Len(s) > 0
  BY LenProperties, EmptySeq
<1>2. \A i \in 1 .. Len(s) : s[i] \in S
  BY ElementOfSeq
<1> DEFINE n == Len(s) - 1
<1>3. n \in Nat /\ n \in Int /\ 1 \in Int /\ \A i \in 1 .. n : s[i] \in S
  BY <1>1, <1>2
<1> HIDE DEF n
<1>4. /\ SubSeq(s, 1, n) \in Seq(S)
      /\ Len(SubSeq(s, 1, n)) = IF 1 <= n THEN n - 1 + 1 ELSE 0
      /\ \A i \in 1 .. n - 1 + 1 : SubSeq(s, 1, n)[i] = s[1 + i - 1]
  BY <1>3, SubSeqProperties
<1>5. Len(SubSeq(s, 1, n)) = n /\ \A i \in 1 .. n : SubSeq(s, 1, n)[i] = s[i]
  BY <1>3, <1>4
<1> QED
  BY <1>1, <1>2, <1>4, <1>5 DEF Pop, Top, n

(* The building list may be empty where Pop is taken of it in Register.    *)
LEMMA PoppedSeq ==
  ASSUME NEW S, NEW s \in Seq(S)
  PROVE  Pop(s) \in Seq(S)
<1>1. Len(s) \in Nat /\ \A i \in 1 .. Len(s) : s[i] \in S
  BY LenProperties, ElementOfSeq
<1> DEFINE n == Len(s) - 1
<1>2. n \in Int /\ 1 \in Int /\ \A i \in 1 .. n : s[i] \in S
  BY <1>1
<1> HIDE DEF n
<1>3. SubSeq(s, 1, n) \in Seq(S)
  BY <1>2, SubSeqProperties
<1> QED
  BY <1>3 DEF Pop, n

LEMMA LookedFacts ==
  ASSUME NEW s \in Seq(FrameType), s # << >>, NEW d
  PROVE  /\ Looked(s, d) \in Seq(FrameType) /\ Len(Looked(s, d)) = Len(s)
         /\ \A i \in 1 .. Len(s) : Looked(s, d)[i].cap = s[i].cap
         /\ \A i \in 1 .. Len(s) :
              Looked(s, d)[i].todo = IF i = Len(s) THEN s[i].todo \ {d} ELSE s[i].todo
<1> DEFINE new == [s[Len(s)] EXCEPT !.todo = @ \ {d}]
<1>1. Len(s) \in 1 .. Len(s) /\ s[Len(s)] \in FrameType
  BY PopFacts
<1>2. new \in FrameType /\ new.cap = s[Len(s)].cap /\ new.todo = s[Len(s)].todo \ {d}
  BY <1>1 DEF FrameType
<1>3. Looked(s, d) = [s EXCEPT ![Len(s)] = new]
  BY DEF Looked
<1> HIDE DEF new
<1>4. /\ Looked(s, d) \in Seq(FrameType) /\ Len(Looked(s, d)) = Len(s)
      /\ \A i \in 1 .. Len(s) : Looked(s, d)[i] = IF i = Len(s) THEN new ELSE s[i]
  BY <1>1, <1>2, <1>3, ExceptSeq
<1> QED
  BY <1>2, <1>4

LEMMA PushFacts ==
  ASSUME NEW s \in Seq(FrameType), NEW c \in Caps, NEW needs \in SUBSET Caps
  PROVE  LET t == Append(s, Frame(c, needs))
         IN  /\ t \in Seq(FrameType) /\ Len(t) = Len(s) + 1 /\ t # << >>
             /\ \A i \in 1 .. Len(s) : t[i] = s[i]
             /\ t[Len(s) + 1].cap = c /\ t[Len(s) + 1].todo = needs
<1>1. Frame(c, needs) \in FrameType /\ Frame(c, needs).cap = c /\ Frame(c, needs).todo = needs
  BY DEF Frame, FrameType
<1> QED
  BY <1>1, AppendProperties

----------------------------------------------------------------------------
(* A recursion over `needs` that is on its way into I, having been done    *)
(* with D: no capability twice, each needed by the one it was reached from, *)
(* what a frame has looked at is done.                                     *)
Chain(s, needs, I, D) ==
  /\ \A i, k \in 1 .. Len(s) : s[i].cap = s[k].cap => i = k
  /\ \A i \in 1 .. Len(s) : /\ s[i].cap \in I /\ s[i].cap \notin D
                            /\ s[i].todo \subseteq needs[s[i].cap]
                            /\ needs[s[i].cap] \ s[i].todo \subseteq D
  /\ \A i \in 1 .. Len(s) - 1 : s[i + 1].cap \in needs[s[i].cap]

LEMMA EmptyChain ==
  ASSUME NEW needs, NEW I, NEW D
  PROVE  Chain(<< >>, needs, I, D)
  BY EmptySeq DEF Chain

LEMMA ChainPush ==
  ASSUME NEW needs \in [Caps -> SUBSET Caps], NEW I \in SUBSET Caps, NEW D,
         NEW s \in Seq(FrameType), Chain(s, needs, I, D),
         NEW d \in I, d \notin D, ~OnStack(s, d),
         s # << >> => d \in Top(s).todo
  PROVE  Chain(Append(s, Frame(d, needs[d])), needs, I, D)
<1> DEFINE t == Append(s, Frame(d, needs[d]))
<1>1. /\ t \in Seq(FrameType) /\ Len(t) = Len(s) + 1
      /\ \A i \in 1 .. Len(s) : t[i] = s[i]
      /\ t[Len(s) + 1].cap = d /\ t[Len(s) + 1].todo = needs[d]
  BY PushFacts
<1>2. Len(s) \in Nat /\ (s = << >> => Len(s) = 0) /\ DOMAIN s = 1 .. Len(s)
  BY LenProperties, EmptySeq
<1>3. s # << >> => /\ Len(s) \in 1 .. Len(s)
                   /\ d \in needs[s[Len(s)].cap]
  BY PopFacts DEF Chain
<1>4. \A i \in 1 .. Len(s) : s[i].cap # d
  BY <1>2 DEF OnStack
<1> HIDE DEF t
<1>5. \A i, k \in 1 .. Len(t) : t[i].cap = t[k].cap => i = k
  BY <1>1, <1>2, <1>4 DEF Chain
<1>6. ASSUME NEW i \in 1 .. Len(t)
      PROVE  /\ t[i].cap \in I /\ t[i].cap \notin D
             /\ t[i].todo \subseteq needs[t[i].cap]
             /\ needs[t[i].cap] \ t[i].todo \subseteq D
  <2>1. CASE i \in 1 .. Len(s)
    BY <1>1, <2>1 DEF Chain
  <2>2. CASE i = Len(s) + 1
    BY <1>1, <2>2
  <2> QED
    BY <1>1, <1>2, <2>1, <2>2
<1>7. ASSUME NEW i \in 1 .. Len(t) - 1
      PROVE  t[i + 1].cap \in needs[t[i].cap]
  <2> USE <1>7
  <2> DEFINE n == Len(s)
  <2>n. n \in Nat /\ i \in 1 .. n + 1 - 1
    BY <1>1, <1>2
  <2> HIDE DEF n
  <2>0. i = n \/ i \in 1 .. n - 1
    BY <2>n
  <2>1. CASE i = Len(s)
    BY <1>1, <1>2, <1>3, <2>1
  <2>2. CASE i \in 1 .. Len(s) - 1
    BY <1>1, <1>2, <2>2 DEF Chain
  <2> QED
    BY <2>0, <2>1, <2>2 DEF n
<1> QED
  BY <1>5, <1>6, <1>7 DEF Chain, t

LEMMA ChainLooked ==
  ASSUME NEW needs, NEW I, NEW D, NEW d \in D,
         NEW s \in Seq(FrameType), s # << >>, Chain(s, needs, I, D)
  PROVE  Chain(Looked(s, d), needs, I, D)
<1> DEFINE t == Looked(s, d)
<1>1. /\ Len(t) = Len(s)
      /\ \A i \in 1 .. Len(s) : t[i].cap = s[i].cap
      /\ \A i \in 1 .. Len(s) :
           t[i].todo = IF i = Len(s) THEN s[i].todo \ {d} ELSE s[i].todo
  BY LookedFacts
<1>2. Len(s) \in Nat
  BY LenProperties
<1> HIDE DEF t
<1>3. ASSUME NEW i \in 1 .. Len(t)
      PROVE  /\ t[i].cap \in I /\ t[i].cap \notin D
             /\ t[i].todo \subseteq needs[t[i].cap]
             /\ needs[t[i].cap] \ t[i].todo \subseteq D
  <2>1. /\ s[i].cap \in I /\ s[i].cap \notin D
        /\ s[i].todo \subseteq needs[s[i].cap]
        /\ needs[s[i].cap] \ s[i].todo \subseteq D
    BY <1>1, <1>3 DEF Chain
  <2>2. t[i].cap = s[i].cap /\ (t[i].todo = s[i].todo \/ t[i].todo = s[i].todo \ {d})
    BY <1>1, <1>3
  <2> QED
    BY <2>1, <2>2
<1>4. \A i, k \in 1 .. Len(t) : t[i].cap = t[k].cap => i = k
  BY <1>1 DEF Chain
<1>5. \A i \in 1 .. Len(t) - 1 : t[i + 1].cap \in needs[t[i].cap]
  BY <1>1, <1>2 DEF Chain
<1> QED
  BY <1>3, <1>4, <1>5 DEF Chain, t

LEMMA ChainPop ==
  ASSUME NEW needs, NEW I, NEW D,
         NEW s \in Seq(FrameType), s # << >>, Chain(s, needs, I, D)
  PROVE  Chain(Pop(s), needs, I, D \cup {Top(s).cap})
<1>1. /\ Len(s) \in 1 .. Len(s) /\ Len(s) - 1 \in Nat
      /\ Top(s) = s[Len(s)] /\ Len(Pop(s)) = Len(s) - 1
      /\ \A i \in 1 .. Len(s) - 1 : Pop(s)[i] = s[i]
  BY PopFacts
<1> QED
  BY <1>1 DEF Chain

(* A recursion that meets itself has found a cycle: what is on the stack   *)
(* from there on.                                                          *)
LEMMA ChainCycle ==
  ASSUME NEW needs, NEW I, NEW D,
         NEW s \in Seq(FrameType), s # << >>, Chain(s, needs, I, D),
         NEW d \in Top(s).todo, OnStack(s, d)
  PROVE  HasCycle(I, needs)
<1>1. PICK m \in 1 .. Len(s) : s[m].cap = d
  BY DEF OnStack
<1>2. Len(s) \in Nat /\ Len(s) \in 1 .. Len(s) /\ Top(s) = s[Len(s)]
  BY PopFacts, LenProperties
<1> DEFINE K == {s[i].cap : i \in m .. Len(s)}
<1>3. K \in SUBSET I /\ K # {}
  BY <1>1, <1>2 DEF Chain
<1>4. ASSUME NEW i \in m .. Len(s)
      PROVE  needs[s[i].cap] \cap K # {}
  <2>1. CASE i = Len(s)
    BY <1>1, <1>2, <2>1 DEF Chain
  <2>2. CASE i # Len(s)
    BY <1>1, <1>2, <2>2 DEF Chain
  <2> QED
    BY <2>1, <2>2
<1>5. \A c \in K : needs[c] \cap K # {}
  BY <1>4
<1> QED
  BY <1>3, <1>5 DEF HasCycle

----------------------------------------------------------------------------
(* What may be installed is a World.                                       *)
LEMMA WorldFacts ==
  ASSUME world \in Worlds
  PROVE  /\ world.installed \in SUBSET Caps /\ world.flawed \in BOOLEAN
         /\ world.requires \in [Caps -> SUBSET Caps]
         /\ world.asks \in [Caps -> SUBSET Caps]
  BY DEF World

LEMMA ReverseFacts ==
  ASSUME NEW s \in Seq(Caps)
  PROVE  Reverse(s) \in Seq(Caps)
<1>1. Len(s) \in Nat /\ \A i \in 1 .. Len(s) : s[i] \in Caps
  BY LenProperties, ElementOfSeq
<1>2. Reverse(s) \in [1 .. Len(s) -> Caps]
  BY <1>1 DEF Reverse
<1> QED
  BY <1>1, <1>2, SeqDef

(* TypeOK needs that only what is installed is built.                      *)
InstalledOnStack == \A i \in 1 .. Len(stack) : stack[i].cap \in world.installed
TypeInv == TypeOK /\ InstalledOnStack

LEMMA TypesInit == Init => TypeInv
<1> SUFFICES ASSUME Init PROVE TypeInv
  OBVIOUS
<1>1. << >> \in Seq(FrameType) /\ << >> \in Seq(Caps) /\ Len(<< >>) = 0
  BY EmptySeq
<1>2. TypeOK
  BY <1>1 DEF Init, TypeOK
<1>3. InstalledOnStack
  BY <1>1 DEF Init, InstalledOnStack
<1> QED
  BY <1>2, <1>3 DEF TypeInv

(* What one call does to its own variables, an exception included.         *)
LEMMA FailTypes ==
  ASSUME TypeInv, UNCHANGED <<world, phase, ordering, closure>>,
         NEW why \in {"unavailable", "cycle", "malformed"}, Fail(why)
  PROVE  TypeInv'
<1>1. << >> \in Seq(FrameType) /\ << >> \in Seq(Caps) /\ Len(<< >>) = 0
  BY EmptySeq
<1> QED
  BY <1>1 DEF TypeInv, TypeOK, InstalledOnStack, Fail, ordering, closure

LEMMA TypesNext == TypeInv /\ [Next]_vars => TypeInv'
<1> SUFFICES ASSUME TypeInv, [Next]_vars PROVE TypeInv'
  OBVIOUS
<1> USE DEF TypeInv, TypeOK, InstalledOnStack, ordering, calls, closure
<1>0. /\ << >> \in Seq(FrameType) /\ << >> \in Seq(Caps)
      /\ Len(<< >>) = 0
      /\ Len(stack) \in Nat /\ Len(active) \in Nat
  BY EmptySeq, LenProperties
<1>w. /\ world.installed \in SUBSET Caps /\ world.flawed \in BOOLEAN
      /\ world.requires \in [Caps -> SUBSET Caps]
      /\ world.asks \in [Caps -> SUBSET Caps]
  BY WorldFacts
<1>1. CASE Check
  BY <1>1 DEF Check
<1>2. CASE VisitRoot
  <2>1. CASE Unvisited # {} /\ UNCHANGED <<phase, ordered>>
             /\ active' = << Frame(Least(Unvisited), world.requires[Least(Unvisited)]) >>
    <3>1. Unvisited \in SUBSET Caps
      BY <1>w DEF Unvisited
    <3>2. Least(Unvisited) \in Caps
      BY <2>1, <3>1, LeastFacts
    <3>3. active' \in Seq(FrameType)
      BY <1>w, <2>1, <3>2 DEF Frame, FrameType
    <3> QED
      BY <1>2, <2>1, <3>3 DEF VisitRoot
  <2>2. CASE phase' = "open" /\ UNCHANGED ordering
    BY <1>2, <2>2 DEF VisitRoot
  <2> QED
    BY <1>2, <2>1, <2>2 DEF VisitRoot
<1>3. CASE VisitRequirement
  <2> DEFINE d == Least(Top(active).todo)
  <2>1. Top(active) \in FrameType
    BY <1>3, PopFacts DEF VisitRequirement
  <2>2. d \in Caps
    BY <1>3, <2>1, LeastFacts DEF VisitRequirement, FrameType
  <2>3. Looked(active, d) \in Seq(FrameType)
    BY <1>3, LookedFacts DEF VisitRequirement
  <2>4. Append(active, Frame(d, world.requires[d])) \in Seq(FrameType)
    BY <1>w, <2>2, PushFacts
  <2> HIDE DEF d
  <2>5. /\ active' \in {active, Looked(active, d), Append(active, Frame(d, world.requires[d]))}
        /\ phase' \in {phase, "failed"}
    BY <1>3 DEF VisitRequirement, d
  <2> QED
    BY <1>3, <2>3, <2>4, <2>5 DEF VisitRequirement
<1>4. CASE Place
  <2>1. Top(active) \in FrameType /\ Pop(active) \in Seq(FrameType)
    BY <1>4, PopFacts DEF Place
  <2>2. ordered' \in Seq(Caps)
    BY <1>4, <2>1, AppendProperties DEF Place, FrameType
  <2> QED
    BY <1>4, <2>1, <2>2 DEF Place
<1>5. ASSUME NEW c \in Caps, Require(c) PROVE TypeInv'
  BY <1>5 DEF Require, Call
<1>6. CASE Freeze
  BY <1>6 DEF Freeze, Call
<1>7. ASSUME NEW d \in Caps, Obtain(d) PROVE TypeInv'
  <2>1. CASE Deliver(d)
    <3>1. CASE stack = << >>
      <4>1. Tail(queue) \in Seq(Caps)
        BY <1>7, <3>1, HeadTailProperties DEF Obtain, Wanted
      <4> QED
        BY <1>7, <2>1, <3>1, <4>1 DEF Obtain, Deliver
    <3>2. CASE stack # << >>
      <4>1. /\ Looked(stack, d) \in Seq(FrameType) /\ Len(Looked(stack, d)) = Len(stack)
            /\ \A i \in 1 .. Len(stack) : Looked(stack, d)[i].cap = stack[i].cap
        BY <3>2, LookedFacts
      <4>2. stack' = Looked(stack, d) /\ UNCHANGED <<world, phase, ordering, closure>>
            /\ UNCHANGED <<queue, building, built, error, builds>>
        BY <1>7, <2>1, <3>2 DEF Obtain, Deliver
      <4> QED
        BY <4>1, <4>2
    <3> QED
      BY <3>1, <3>2
  <2>2. ASSUME NEW why \in {"unavailable", "cycle", "malformed"}, Fail(why)
        PROVE  TypeInv'
    BY <1>7, <2>2, FailTypes DEF Obtain
  <2>3. CASE Buildable(d) /\ Push(d)
    <3> DEFINE t == Append(stack, Frame(d, world.asks[d]))
    <3>1. /\ t \in Seq(FrameType) /\ Len(t) = Len(stack) + 1
          /\ \A i \in 1 .. Len(stack) : t[i] = stack[i]
          /\ t[Len(stack) + 1].cap = d
      BY <1>w, PushFacts
    <3>2. Append(building, d) \in Seq(Caps)
      BY AppendProperties
    <3> HIDE DEF t
    <3>3. stack' = t /\ building' = Append(building, d) /\ d \in world.installed
          /\ UNCHANGED <<world, phase, ordering, closure>>
          /\ UNCHANGED <<queue, built, error, builds>>
      BY <1>7, <2>3 DEF Obtain, Push, Buildable, t
    <3>4. ASSUME NEW i \in 1 .. Len(t) PROVE t[i].cap \in world.installed
      <4>1. CASE i = Len(stack) + 1
        BY <3>1, <3>3, <4>1
      <4>2. CASE i \in 1 .. Len(stack)
        BY <3>1, <4>2
      <4> QED
        BY <1>0, <3>1, <3>4, <4>1, <4>2
    <3> QED
      BY <3>1, <3>2, <3>3, <3>4
  <2> QED
    BY <1>7, <2>1, <2>2, <2>3 DEF Obtain
<1>8. CASE Register
  <2>1. /\ Len(stack) \in 1 .. Len(stack) /\ Top(stack) = stack[Len(stack)]
        /\ Top(stack) \in FrameType
        /\ Pop(stack) \in Seq(FrameType) /\ Len(Pop(stack)) = Len(stack) - 1
        /\ \A i \in 1 .. Len(stack) - 1 : Pop(stack)[i] = stack[i]
    BY <1>8, PopFacts DEF Register
  <2>2. Top(stack).cap \in world.installed /\ Top(stack).cap \in Caps
    BY <2>1 DEF FrameType
  <2>3. Pop(building) \in Seq(Caps)
    BY <1>8, PoppedSeq DEF Register
  <2>4. built' \subseteq world.installed /\ builds' \in [Caps -> Nat]
    BY <1>8, <2>2 DEF Register
  <2>5. ASSUME NEW i \in 1 .. Len(Pop(stack))
        PROVE  Pop(stack)[i].cap \in world.installed
    <3>0. Len(Pop(stack)) = Len(stack) - 1 /\ Len(stack) \in Nat /\ i \in 1 .. Len(Pop(stack))
      BY <1>0, <2>1, <2>5
    <3>1. i \in 1 .. Len(stack) - 1 /\ i \in 1 .. Len(stack)
      BY <3>0
    <3>2. Pop(stack)[i] = stack[i]
      BY <2>1, <3>1
    <3> QED
      BY <3>1, <3>2
  <2> QED
    BY <1>8, <2>1, <2>3, <2>4, <2>5 DEF Register
<1>9. CASE BuildRaises
  BY <1>9, FailTypes DEF BuildRaises
<1>10. CASE Close
  BY <1>10, ReverseFacts DEF Close
<1>11. CASE CloseNext
  <2>1. Tail(closing) \in Seq(Caps) /\ Head(closing) \in Caps
    BY <1>11, HeadTailProperties DEF CloseNext
  <2> QED
    BY <1>11, <2>1 DEF CloseNext
<1>12. CASE CloseRaises
  <2>1. Head(closing) \in Caps
    BY <1>12, HeadTailProperties DEF CloseRaises
  <2> QED
    BY <1>0, <1>12, <2>1 DEF CloseRaises
<1>13. CASE Closed
  BY <1>13 DEF Closed
<1>14. CASE UNCHANGED vars
  BY <1>14 DEF vars
<1> QED
  BY <1>1, <1>2, <1>3, <1>4, <1>5, <1>6, <1>7, <1>8, <1>9, <1>10, <1>11,
     <1>12, <1>13, <1>14 DEF Next, Construct, Build, Shut

(* Every variable of the host keeps its type; only what is installed is    *)
(* ever built (_registration, host.py:86-128).                             *)
THEOREM TypeCorrect == Spec => []TypeOK
<1>1. Spec => []TypeInv
  BY TypesInit, TypesNext, PTL DEF Spec
<1> QED
  BY <1>1, PTL DEF TypeInv

----------------------------------------------------------------------------
(* What a call keeps: the host's list is Python's stack, the stack is a    *)
(* Chain over what is asked for, and a registration is there from the end  *)
(* of its one build, after what that build asked for.                      *)
Aligned == /\ Len(building) = Len(stack)
           /\ \A i \in 1 .. Len(stack) : building[i] = stack[i].cap

CallsInv ==
  /\ Aligned
  /\ Chain(stack, world.asks, world.installed, built)
  /\ BuiltOnceAfterItsNeeds
  /\ CyclesAreReal

LEMMA CallsInit == Init => CallsInv
<1> SUFFICES ASSUME Init PROVE CallsInv
  OBVIOUS
<1>1. Len(<< >>) = 0
  BY EmptySeq
<1>2. Aligned
  BY <1>1 DEF Init, Aligned
<1>3. Chain(stack, world.asks, world.installed, built)
  BY EmptyChain DEF Init
<1>4. BuiltOnceAfterItsNeeds /\ CyclesAreReal
  BY DEF Init, BuiltOnceAfterItsNeeds, CyclesAreReal
<1> QED
  BY <1>2, <1>3, <1>4 DEF CallsInv

(* An exception empties both lists together.                               *)
LEMMA FailCalls ==
  ASSUME CallsInv, UNCHANGED world, NEW why, Fail(why),
         why = "cycle" => HasCycle(world.installed, world.asks)
  PROVE  CallsInv'
<1>1. Len(<< >>) = 0
  BY EmptySeq
<1>2. Aligned'
  BY <1>1 DEF Fail, Aligned
<1>3. Chain(stack, world.asks, world.installed, built)'
  BY EmptyChain DEF Fail
<1>4. BuiltOnceAfterItsNeeds' /\ CyclesAreReal'
  BY DEF Fail, CallsInv, BuiltOnceAfterItsNeeds, CyclesAreReal
<1> QED
  BY <1>2, <1>3, <1>4 DEF CallsInv

(* The host looks for cycles in its own list: it finds those of the stack. *)
LEMMA BuildingIsStack ==
  ASSUME TypeInv, CallsInv, NEW d
  PROVE  In(building, d) <=> OnStack(stack, d)
<1>1. /\ DOMAIN building = 1 .. Len(building)
      /\ DOMAIN stack = 1 .. Len(stack)
  BY LenProperties DEF TypeInv, TypeOK
<1> QED
  BY <1>1 DEF CallsInv, Aligned, In, OnStack

LEMMA ObtainCalls ==
  ASSUME TypeInv, CallsInv, NEW d \in Caps, Obtain(d)
  PROVE  CallsInv'
<1>w. /\ world.installed \in SUBSET Caps
      /\ world.asks \in [Caps -> SUBSET Caps]
  BY WorldFacts DEF TypeInv, TypeOK
<1>t. stack \in Seq(FrameType) /\ building \in Seq(Caps)
  BY DEF TypeInv, TypeOK
<1>n. Len(stack) \in Nat /\ DOMAIN stack = 1 .. Len(stack)
  BY <1>t, LenProperties
<1>c. /\ Chain(stack, world.asks, world.installed, built) /\ Aligned
      /\ BuiltOnceAfterItsNeeds /\ CyclesAreReal
      /\ UNCHANGED world
  BY DEF CallsInv, Obtain
<1>1. CASE d \in built /\ Deliver(d)
  <2>1. BuiltOnceAfterItsNeeds' /\ CyclesAreReal'
    BY <1>1, <1>c DEF Deliver, BuiltOnceAfterItsNeeds, CyclesAreReal
  <2>2. CASE stack = << >>
    BY <1>1, <1>c, <2>1, <2>2 DEF Deliver, Aligned, CallsInv
  <2>3. CASE stack # << >>
    <3>1. stack' = Looked(stack, d) /\ UNCHANGED <<world, building, built>>
      BY <1>1, <1>c, <2>3 DEF Deliver
    <3>2. Chain(Looked(stack, d), world.asks, world.installed, built)
      BY <1>1, <1>c, <1>t, <2>3, ChainLooked
    <3>3. /\ Len(Looked(stack, d)) = Len(stack)
          /\ \A i \in 1 .. Len(stack) : Looked(stack, d)[i].cap = stack[i].cap
      BY <1>t, <2>3, LookedFacts
    <3>4. Aligned'
      BY <1>c, <3>1, <3>3 DEF Aligned
    <3> QED
      BY <2>1, <3>1, <3>2, <3>4 DEF CallsInv
  <2> QED
    BY <2>2, <2>3
<1>2. CASE Unavailable(d) /\ Fail("unavailable")
  BY <1>2, <1>c, FailCalls
<1>3. CASE Cyclic(d) /\ Fail("cycle")
  <2>1. OnStack(stack, d)
    BY <1>3, BuildingIsStack DEF Cyclic
  <2>2. stack # << >>
    BY <2>1, <1>n, EmptySeq DEF OnStack
  <2>3. d \in Top(stack).todo
    BY <2>2 DEF Obtain, Wanted
  <2>4. HasCycle(world.installed, world.asks)
    BY <1>t, <1>c, <2>1, <2>2, <2>3, ChainCycle
  <2> QED
    BY <1>3, <1>c, <2>4, FailCalls
<1>4. CASE Buildable(d) /\ Push(d)
  <2> DEFINE t == Append(stack, Frame(d, world.asks[d]))
             b == Append(building, d)
  <2>1. stack' = t /\ building' = b /\ UNCHANGED <<world, built, builds, error>>
    BY <1>4, <1>c DEF Push
  <2>2. d \in world.installed /\ d \notin built /\ ~OnStack(stack, d)
    BY <1>4, BuildingIsStack DEF Buildable
  <2>3. stack # << >> => d \in Top(stack).todo
    BY DEF Obtain, Wanted
  <2>4. Chain(t, world.asks, world.installed, built)
    BY <1>w, <1>t, <1>c, <2>2, <2>3, ChainPush
  <2>5. /\ Len(t) = Len(stack) + 1
        /\ \A i \in 1 .. Len(stack) : t[i] = stack[i]
        /\ t[Len(stack) + 1].cap = d
    BY <1>w, <1>t, PushFacts
  <2>6. /\ Len(b) = Len(building) + 1
        /\ \A i \in 1 .. Len(building) : b[i] = building[i]
        /\ b[Len(building) + 1] = d
    BY <1>t, AppendProperties
  <2> HIDE DEF t, b
  <2>7. Len(b) = Len(t)
    BY <1>c, <2>5, <2>6 DEF Aligned
  <2>8. ASSUME NEW i \in 1 .. Len(t) PROVE b[i] = t[i].cap
    <3> USE <2>8
    <3>1. i = Len(stack) + 1 \/ i \in 1 .. Len(stack)
      BY <1>n, <2>5
    <3>2. CASE i = Len(stack) + 1
      BY <1>c, <2>5, <2>6, <3>2 DEF Aligned
    <3>3. CASE i \in 1 .. Len(stack)
      BY <1>c, <2>5, <2>6, <3>3 DEF Aligned
    <3> QED
      BY <3>1, <3>2, <3>3
  <2>9. Aligned'
    BY <2>1, <2>7, <2>8 DEF Aligned
  <2>10. BuiltOnceAfterItsNeeds' /\ CyclesAreReal'
    BY <1>c, <2>1 DEF BuiltOnceAfterItsNeeds, CyclesAreReal
  <2> QED
    BY <2>1, <2>4, <2>9, <2>10 DEF CallsInv
<1> QED
  BY <1>1, <1>2, <1>3, <1>4 DEF Obtain

LEMMA RegisterCalls ==
  ASSUME TypeInv, CallsInv, Register
  PROVE  CallsInv'
<1> DEFINE c == Top(stack).cap
<1>w. /\ world.installed \in SUBSET Caps
      /\ world.asks \in [Caps -> SUBSET Caps] /\ builds \in [Caps -> Nat]
  BY WorldFacts DEF TypeInv, TypeOK
<1>t. stack \in Seq(FrameType) /\ building \in Seq(Caps) /\ stack # << >>
  BY DEF TypeInv, TypeOK, Register
<1>i. /\ Chain(stack, world.asks, world.installed, built) /\ Aligned
      /\ BuiltOnceAfterItsNeeds /\ CyclesAreReal
  BY DEF CallsInv
<1>1. /\ Len(stack) \in 1 .. Len(stack) /\ Len(stack) \in Nat
      /\ Top(stack) = stack[Len(stack)]
      /\ Len(Pop(stack)) = Len(stack) - 1
      /\ \A i \in 1 .. Len(stack) - 1 : Pop(stack)[i] = stack[i]
  BY <1>t, PopFacts, LenProperties
<1>2. building # << >>
  BY <1>1, <1>i, EmptySeq DEF Aligned
<1>3. /\ Len(Pop(building)) = Len(building) - 1
      /\ \A i \in 1 .. Len(building) - 1 : Pop(building)[i] = building[i]
  BY <1>t, <1>2, PopFacts
<1>4. /\ stack' = Pop(stack) /\ building' = Pop(building)
      /\ built' = built \cup {c} /\ builds' = [builds EXCEPT ![c] = @ + 1]
      /\ UNCHANGED <<world, error>>
      /\ Top(stack).todo = {}
  BY DEF Register
<1>5. /\ c \in Caps /\ c \notin built
      /\ world.asks[c] \ Top(stack).todo \subseteq built
  BY <1>w, <1>1, <1>i DEF Chain
<1> HIDE DEF c
<1>6. Aligned'
  <2>1. Len(Pop(building)) = Len(Pop(stack))
    BY <1>1, <1>3, <1>i DEF Aligned
  <2>2. ASSUME NEW i \in 1 .. Len(Pop(stack))
        PROVE  Pop(building)[i] = Pop(stack)[i].cap
    <3>1. i \in 1 .. Len(stack) - 1 /\ i \in 1 .. Len(stack)
      BY <1>1, <2>2
    <3> QED
      BY <1>1, <1>3, <1>i, <3>1 DEF Aligned
  <2> QED
    BY <1>4, <2>1, <2>2 DEF Aligned
<1>7. Chain(Pop(stack), world.asks, world.installed, built \cup {c})
  BY <1>t, <1>i, ChainPop DEF c
<1>8. BuiltOnceAfterItsNeeds'
  BY <1>w, <1>4, <1>5, <1>i DEF BuiltOnceAfterItsNeeds
<1>9. CyclesAreReal'
  BY <1>4, <1>i DEF CyclesAreReal
<1> QED
  BY <1>4, <1>6, <1>7, <1>8, <1>9 DEF CallsInv

LEMMA CallsNext == TypeInv /\ CallsInv /\ [Next]_vars => CallsInv'
<1> SUFFICES ASSUME TypeInv, CallsInv, [Next]_vars PROVE CallsInv'
  OBVIOUS
<1>1. ASSUME UNCHANGED <<world, stack, building, built, builds>>,
             error' \in {error, "none"}
      PROVE  CallsInv'
  BY <1>1 DEF CallsInv, Aligned, BuiltOnceAfterItsNeeds, CyclesAreReal
<1>2. CASE Construct
  BY <1>1, <1>2 DEF Construct, Check, VisitRoot, VisitRequirement, Place, calls
<1>3. CASE \/ \E c \in Caps : Require(c)
           \/ Freeze
  BY <1>1, <1>3 DEF Require, Freeze, Call
<1>4. ASSUME NEW d \in Caps, Obtain(d) PROVE CallsInv'
  BY <1>4, ObtainCalls
<1>5. CASE Register
  BY <1>5, RegisterCalls
<1>6. CASE BuildRaises
  BY <1>6, FailCalls DEF BuildRaises
<1>7. CASE Close \/ Shut
  BY <1>1, <1>7 DEF Close, Shut, CloseNext, CloseRaises, Closed, calls
<1>8. CASE UNCHANGED vars
  BY <1>1, <1>8 DEF vars, calls
<1> QED
  BY <1>2, <1>3, <1>4, <1>5, <1>6, <1>7, <1>8 DEF Next, Build

LEMMA CallsHold == Spec => []CallsInv
<1>1. Spec => []TypeInv
  BY TypesInit, TypesNext, PTL DEF Spec
<1> QED
  BY <1>1, CallsInit, CallsNext, PTL DEF Spec

(* A provider is built at most once in the life of a host, whatever calls  *)
(* fail and are made again, and after everything its build asked for       *)
(* (_registration, host.py:86-128), for any capabilities and any asking.   *)
THEOREM BuiltOnce == Spec => []BuiltOnceAfterItsNeeds
  BY CallsHold, PTL DEF CallsInv

(* The recursion over build functions never enters one it is in.           *)
THEOREM NeverReentered == Spec => []NoReentry
<1>1. TypeInv /\ CallsInv => NoReentry
  <2> SUFFICES ASSUME TypeInv, CallsInv PROVE NoReentry
    OBVIOUS
  <2>1. DOMAIN stack = 1 .. Len(stack)
    BY LenProperties DEF TypeInv, TypeOK
  <2> QED
    BY <2>1 DEF CallsInv, Chain, NoReentry
<1>2. Spec => []TypeInv
  BY TypesInit, TypesNext, PTL DEF Spec
<1> QED
  BY <1>1, <1>2, CallsHold, PTL

(* The cycle error is raised only where asking really goes in a circle.    *)
THEOREM CyclesReported == Spec => []CyclesAreReal
  BY CallsHold, PTL DEF CallsInv

----------------------------------------------------------------------------
(* What the constructor keeps: the visits are a Chain over what is         *)
(* required, those that are over are in the order, each after what it      *)
(* requires.                                                               *)
Placed == {ordered[i] : i \in DOMAIN ordered}

Impossible ==
  \/ world.flawed
  \/ \E c \in world.installed : ~(world.requires[c] \subseteq world.installed)
  \/ HasCycle(world.installed, world.requires)

Sound == /\ ~world.flawed
         /\ \A c \in world.installed : world.requires[c] \subseteq world.installed

OrderedSoFar ==
  /\ \A i \in 1 .. Len(ordered) : ordered[i] \in world.installed
  /\ \A i, k \in 1 .. Len(ordered) : ordered[i] = ordered[k] => i = k
  /\ \A i \in 1 .. Len(ordered) : \A d \in world.requires[ordered[i]] :
       \E k \in 1 .. i - 1 : ordered[k] = d

SnapshotInv ==
  /\ OrderedSoFar
  /\ phase = "new" => active = << >> /\ ordered = << >>
  /\ phase = "ordering" => Chain(active, world.requires, world.installed, Placed)
  /\ phase \notin {"new", "failed"} => Sound
  /\ phase = "failed" => Impossible
  /\ Constructed => world.installed \subseteq Placed

LEMMA SnapshotInit == Init => SnapshotInv
<1> SUFFICES ASSUME Init PROVE SnapshotInv
  OBVIOUS
<1>1. Len(<< >>) = 0
  BY EmptySeq
<1>2. OrderedSoFar
  BY <1>1 DEF Init, OrderedSoFar
<1> QED
  BY <1>2 DEF Init, SnapshotInv, Constructed

LEMMA InPlaced ==
  ASSUME NEW c
  PROVE  In(ordered, c) <=> c \in Placed
  BY DEF In, Placed

LEMMA PlaceSnapshot ==
  ASSUME TypeInv, SnapshotInv, Place
  PROVE  SnapshotInv'
<1> DEFINE c == Top(active).cap
<1>w. /\ world.installed \in SUBSET Caps
      /\ world.requires \in [Caps -> SUBSET Caps]
  BY WorldFacts DEF TypeInv, TypeOK
<1>t. /\ active \in Seq(FrameType) /\ ordered \in Seq(Caps) /\ active # << >>
      /\ Len(ordered) \in Nat /\ DOMAIN ordered = 1 .. Len(ordered)
  BY LenProperties DEF TypeInv, TypeOK, Place
<1>i. /\ Chain(active, world.requires, world.installed, Placed)
      /\ OrderedSoFar /\ Sound
  BY DEF SnapshotInv, Place
<1>1. /\ Len(active) \in 1 .. Len(active) /\ Top(active) = active[Len(active)]
  BY <1>t, PopFacts
<1>2. ordered' = Append(ordered, c) /\ active' = Pop(active)
      /\ UNCHANGED <<world, phase>> /\ phase = "ordering" /\ Top(active).todo = {}
  BY DEF Place
<1>3. /\ c \in world.installed /\ c \in Caps /\ c \notin Placed
      /\ world.requires[c] \ Top(active).todo \subseteq Placed
  BY <1>w, <1>1, <1>i DEF Chain
<1>4. world.requires[c] \subseteq Placed
  BY <1>2, <1>3
<1>7. Chain(Pop(active), world.requires, world.installed, Placed \cup {c})
  BY <1>t, <1>i, ChainPop
<1> HIDE DEF c
<1>5. /\ ordered' \in Seq(Caps) /\ Len(ordered') = Len(ordered) + 1
      /\ DOMAIN ordered' = 1 .. Len(ordered) + 1
      /\ \A i \in 1 .. Len(ordered) : ordered'[i] = ordered[i]
      /\ ordered'[Len(ordered) + 1] = c
  BY <1>t, <1>2, <1>3, AppendProperties, LenProperties
<1>6. Placed' = Placed \cup {c}
  <2>1. ASSUME NEW x \in Placed' PROVE x \in Placed \cup {c}
    <3>1. PICK i \in 1 .. Len(ordered) + 1 : x = ordered'[i]
      BY <1>5, <2>1 DEF Placed
    <3>2. i = Len(ordered) + 1 \/ i \in 1 .. Len(ordered)
      BY <1>t
    <3> QED
      BY <1>t, <1>5, <3>1, <3>2 DEF Placed
  <2>2. ASSUME NEW x \in Placed PROVE x \in Placed'
    <3>1. PICK i \in 1 .. Len(ordered) : x = ordered[i]
      BY <1>t, <2>2 DEF Placed
    <3>2. i \in 1 .. Len(ordered) + 1
      BY <1>t
    <3> QED
      BY <1>5, <3>1, <3>2 DEF Placed
  <2>3. c \in Placed'
    <3>1. Len(ordered) + 1 \in 1 .. Len(ordered) + 1
      BY <1>t
    <3> QED
      BY <1>5, <3>1 DEF Placed
  <2> QED
    BY <2>1, <2>2, <2>3
<1>8. OrderedSoFar'
  <2>1. ASSUME NEW i \in 1 .. Len(ordered')
        PROVE  i = Len(ordered) + 1 \/ i \in 1 .. Len(ordered)
    BY <1>t, <1>5, <2>1
  <2>2. \A k \in 1 .. Len(ordered) : ordered[k] # c
    BY <1>t, <1>3 DEF Placed
  <2>3. ASSUME NEW i \in 1 .. Len(ordered') PROVE ordered'[i] \in world'.installed
    BY <1>2, <1>3, <1>5, <1>i, <2>1 DEF OrderedSoFar
  <2>4. ASSUME NEW i \in 1 .. Len(ordered'), NEW k \in 1 .. Len(ordered'),
               ordered'[i] = ordered'[k]
        PROVE  i = k
    BY <1>5, <1>i, <2>1, <2>2, <2>4 DEF OrderedSoFar
  <2>5. ASSUME NEW i \in 1 .. Len(ordered'), NEW d \in world'.requires[ordered'[i]]
        PROVE  \E k \in 1 .. i - 1 : ordered'[k] = d
    <3>1. CASE i \in 1 .. Len(ordered)
      <4>1. d \in world.requires[ordered[i]]
        BY <1>2, <1>5, <2>5, <3>1
      <4>2. PICK k \in 1 .. i - 1 : ordered[k] = d
        BY <1>i, <3>1, <4>1 DEF OrderedSoFar
      <4>3. k \in 1 .. Len(ordered)
        BY <1>t, <3>1, <4>2
      <4> QED
        BY <1>5, <4>2, <4>3
    <3>2. CASE i = Len(ordered) + 1
      <4>1. d \in Placed
        BY <1>2, <1>4, <1>5, <2>5, <3>2
      <4>2. PICK k \in 1 .. Len(ordered) : ordered[k] = d
        BY <1>t, <4>1 DEF Placed
      <4>3. k \in 1 .. i - 1
        BY <1>t, <3>2
      <4> QED
        BY <1>5, <4>2, <4>3
    <3> QED
      BY <2>1, <3>1, <3>2
  <2> QED
    BY <2>3, <2>4, <2>5 DEF OrderedSoFar
<1> QED
  BY <1>2, <1>6, <1>7, <1>8, <1>i DEF SnapshotInv, Sound, Constructed

LEMMA VisitSnapshot ==
  ASSUME TypeInv, SnapshotInv, VisitRequirement
  PROVE  SnapshotInv'
<1> DEFINE d == Least(Top(active).todo)
<1>w. /\ world.installed \in SUBSET Caps
      /\ world.requires \in [Caps -> SUBSET Caps]
  BY WorldFacts DEF TypeInv, TypeOK
<1>t. active \in Seq(FrameType) /\ active # << >>
  BY DEF TypeInv, TypeOK, VisitRequirement
<1>i. /\ Chain(active, world.requires, world.installed, Placed)
      /\ OrderedSoFar /\ Sound
  BY DEF SnapshotInv, VisitRequirement
<1>1. /\ Len(active) \in 1 .. Len(active) /\ Top(active) = active[Len(active)]
      /\ Top(active) \in FrameType
  BY <1>t, PopFacts
<1>2. d \in Top(active).todo
  BY <1>1, LeastFacts DEF VisitRequirement, FrameType
<1>3. d \in world.installed
  BY <1>1, <1>2, <1>i DEF Chain, Sound
<1> HIDE DEF d
<1>4. phase = "ordering" /\ UNCHANGED <<world, ordered>> /\ Placed' = Placed
      /\ OrderedSoFar' /\ Sound'
  BY <1>i DEF VisitRequirement, Placed, OrderedSoFar, Sound
<1>5. CASE OnStack(active, d) /\ phase' = "failed"
  <2>1. Impossible'
    BY <1>2, <1>4, <1>5, <1>t, <1>i, ChainCycle DEF Impossible
  <2> QED
    BY <1>4, <1>5, <2>1 DEF SnapshotInv, Constructed
<1>6. CASE ~OnStack(active, d) /\ UNCHANGED phase /\ In(ordered, d)
           /\ active' = Looked(active, d)
  <2>1. d \in Placed
    BY <1>6, InPlaced
  <2>2. Chain(active', world.requires, world.installed, Placed)
    BY <1>6, <1>t, <1>i, <2>1, ChainLooked
  <2> QED
    BY <1>4, <1>6, <2>2 DEF SnapshotInv, Constructed
<1>7. CASE ~OnStack(active, d) /\ UNCHANGED phase /\ ~In(ordered, d)
           /\ active' = Append(active, Frame(d, world.requires[d]))
  <2>1. d \notin Placed
    BY <1>7, InPlaced
  <2>2. Chain(active', world.requires, world.installed, Placed)
    BY <1>2, <1>3, <1>7, <1>w, <1>t, <1>i, <2>1, ChainPush
  <2> QED
    BY <1>4, <1>7, <2>2 DEF SnapshotInv, Constructed
<1> QED
  BY <1>5, <1>6, <1>7 DEF VisitRequirement, d

LEMMA RootSnapshot ==
  ASSUME TypeInv, SnapshotInv, VisitRoot
  PROVE  SnapshotInv'
<1>w. /\ world.installed \in SUBSET Caps
      /\ world.requires \in [Caps -> SUBSET Caps]
  BY WorldFacts DEF TypeInv, TypeOK
<1>i. /\ Chain(active, world.requires, world.installed, Placed)
      /\ OrderedSoFar /\ Sound /\ phase = "ordering" /\ active = << >>
      /\ active \in Seq(FrameType)
  BY DEF SnapshotInv, VisitRoot, TypeInv, TypeOK
<1>1. UNCHANGED <<world, ordered>> /\ Placed' = Placed /\ OrderedSoFar' /\ Sound'
  BY <1>i DEF VisitRoot, ordering, Placed, OrderedSoFar, Sound
<1>2. ASSUME Unvisited # {}, phase' = phase,
             active' = << Frame(Least(Unvisited), world.requires[Least(Unvisited)]) >>
      PROVE  SnapshotInv'
  <2> DEFINE c == Least(Unvisited)
  <2>1. c \in Unvisited
    BY <1>w, <1>2, LeastFacts DEF Unvisited
  <2>2. c \in world.installed /\ c \notin Placed
    BY <2>1, InPlaced DEF Unvisited
  <2> HIDE DEF c
  <2>3. ~OnStack(active, c)
    BY <1>i, EmptySeq DEF OnStack
  <2>4. Chain(Append(active, Frame(c, world.requires[c])), world.requires,
              world.installed, Placed)
    BY <1>w, <1>i, <2>2, <2>3, ChainPush
  <2>5. active' = Append(active, Frame(c, world.requires[c]))
    BY <1>2, <1>i DEF c
  <2> QED
    BY <1>1, <1>2, <1>i, <2>4, <2>5 DEF SnapshotInv, Constructed
<1>3. CASE Unvisited = {} /\ phase' = "open"
  <2>1. world.installed \subseteq Placed
    BY <1>3, InPlaced DEF Unvisited
  <2> QED
    BY <1>1, <1>3, <2>1 DEF SnapshotInv, Constructed
<1> QED
  BY <1>2, <1>3 DEF VisitRoot

LEMMA SnapshotNext == TypeInv /\ SnapshotInv /\ [Next]_vars => SnapshotInv'
<1> SUFFICES ASSUME TypeInv, SnapshotInv, [Next]_vars PROVE SnapshotInv'
  OBVIOUS
<1>1. ASSUME UNCHANGED <<world, active, ordered>>,
             phase' = phase \/ (Constructed /\ Constructed')
      PROVE  SnapshotInv'
  BY <1>1 DEF SnapshotInv, OrderedSoFar, Placed, Constructed, Sound, Impossible
<1>2. CASE Check
  <2>1. /\ UNCHANGED <<world, active, ordered>> /\ phase = "new"
        /\ phase' = IF Sound THEN "ordering" ELSE "failed"
        /\ active = << >> /\ OrderedSoFar
    BY <1>2 DEF Check, Sound, ordering, SnapshotInv
  <2>2. OrderedSoFar' /\ (Sound => Sound') /\ (~Sound => Impossible')
    BY <2>1 DEF OrderedSoFar, Sound, Impossible
  <2>3. Chain(active, world.requires, world.installed, Placed)'
    BY <2>1, EmptyChain
  <2> QED
    BY <2>1, <2>2, <2>3 DEF SnapshotInv, Constructed
<1>3. CASE VisitRoot
  BY <1>3, RootSnapshot
<1>4. CASE VisitRequirement
  BY <1>4, VisitSnapshot
<1>5. CASE Place
  BY <1>5, PlaceSnapshot
<1>6. CASE \/ \E c \in Caps : Require(c)
           \/ Freeze
           \/ \E d \in Caps : Obtain(d)
           \/ Register \/ BuildRaises
  BY <1>1, <1>6 DEF Require, Freeze, Call, Obtain, Register, BuildRaises, ordering
<1>7. CASE Close \/ Shut
  BY <1>1, <1>7 DEF Close, Quiet, Shut, CloseNext, CloseRaises, Closed, ordering,
                    Constructed
<1>8. CASE UNCHANGED vars
  BY <1>1, <1>8 DEF vars, ordering
<1> QED
  BY <1>2, <1>3, <1>4, <1>5, <1>6, <1>7, <1>8 DEF Next, Construct, Build

LEMMA SnapshotHolds == Spec => [](TypeInv /\ SnapshotInv)
<1>1. Spec => []TypeInv
  BY TypesInit, TypesNext, PTL DEF Spec
<1> QED
  BY <1>1, SnapshotInit, SnapshotNext, PTL DEF Spec

(* The snapshot has every installed capability once, after all it requires *)
(* (_dependency_order, registry.py:172-195), for any declarations.         *)
THEOREM Ordered == Spec => []SnapshotIsOrdered
<1>1. TypeInv /\ SnapshotInv => SnapshotIsOrdered
  <2> SUFFICES ASSUME TypeInv, SnapshotInv, Constructed PROVE SnapshotIsOrdered
    BY DEF SnapshotIsOrdered
  <2>1. DOMAIN ordered = 1 .. Len(ordered)
    BY LenProperties DEF TypeInv, TypeOK
  <2>2. \A c \in world.installed : In(ordered, c)
    BY InPlaced DEF SnapshotInv
  <2> QED
    BY <2>1, <2>2 DEF SnapshotInv, OrderedSoFar, SnapshotIsOrdered
<1> QED
  BY <1>1, SnapshotHolds, PTL

(* What has been put in order has no cycle: of the members of one, the     *)
(* first in the order requires another, which then comes earlier.          *)
LEMMA OrderedIsAcyclic ==
  ASSUME TypeInv, OrderedSoFar, world.installed \subseteq Placed
  PROVE  ~HasCycle(world.installed, world.requires)
<1> SUFFICES ASSUME NEW K \in SUBSET world.installed, K # {},
                    \A c \in K : world.requires[c] \cap K # {}
             PROVE  FALSE
  BY DEF HasCycle
<1> DEFINE At == {i \in 1 .. Len(ordered) : ordered[i] \in K}
<1>1. DOMAIN ordered = 1 .. Len(ordered) /\ Len(ordered) \in Nat
  BY LenProperties DEF TypeInv, TypeOK
<1>2. At \in SUBSET Nat /\ At # {}
  BY <1>1 DEF Placed
<1>3. PICK i \in At : \A k \in At : i <= k
  BY <1>2, LeastElement
<1>4. PICK d \in world.requires[ordered[i]] : d \in K
  BY <1>3
<1>5. PICK k \in 1 .. i - 1 : ordered[k] = d
  BY <1>3, <1>4 DEF OrderedSoFar
<1>6. k \in At /\ k < i
  BY <1>1, <1>3, <1>4, <1>5
<1> QED
  BY <1>1, <1>3, <1>6

(* The constructor refuses exactly what cannot be ordered.                 *)
THEOREM RefusalIsJust == Spec => []RefusesOnlyTheImpossible
<1>1. TypeInv /\ SnapshotInv => RefusesOnlyTheImpossible
  <2> SUFFICES ASSUME TypeInv, SnapshotInv PROVE RefusesOnlyTheImpossible
    OBVIOUS
  <2>1. phase = "failed" => Impossible
    BY DEF SnapshotInv
  <2>2. ASSUME Constructed PROVE ~Impossible
    <3>1. Sound
      BY <2>2 DEF SnapshotInv, Constructed
    <3>2. ~HasCycle(world.installed, world.requires)
      BY <2>2, OrderedIsAcyclic DEF SnapshotInv
    <3> QED
      BY <3>1, <3>2 DEF Impossible, Sound
  <2> QED
    BY <2>1, <2>2 DEF RefusesOnlyTheImpossible, Impossible
<1> QED
  BY <1>1, SnapshotHolds, PTL

----------------------------------------------------------------------------
(* What close() keeps.  It walks the snapshot from its end, so that what    *)
(* it has still to look at is the snapshot's beginning, backwards; as long  *)
(* as no close has raised, none of that has been closed yet, and before    *)
(* the first close() nothing has.                                          *)
BackFrom(q, s) == /\ Len(q) <= Len(s)
                  /\ \A i \in 1 .. Len(q) : q[i] = s[Len(q) + 1 - i]

ClosureInv ==
  /\ phase = "closing" => BackFrom(closing, ordered)
  /\ ~raised => /\ \A c \in Caps : closes[c] <= 1
                /\ phase \notin {"closing", "closed"} => \A c \in Caps : closes[c] = 0
                /\ phase = "closing" =>
                     \A i \in 1 .. Len(closing) : closes[closing[i]] = 0

LEMMA ClosureInit == Init => ClosureInv
  BY DEF Init, ClosureInv

(* Where close() looks next: at the last of the snapshot that is left, and *)
(* then at those before it.                                                *)
LEMMA ClosingFacts ==
  ASSUME TypeInv, SnapshotInv, ClosureInv, phase = "closing", closing # << >>
  PROVE  /\ Len(closing) \in Nat \ {0} /\ Head(closing) = closing[1]
         /\ Head(closing) \in Caps
         /\ Tail(closing) \in Seq(Caps) /\ Len(Tail(closing)) = Len(closing) - 1
         /\ \A i \in 1 .. Len(closing) - 1 : Tail(closing)[i] = closing[i + 1]
         /\ \A i \in 1 .. Len(closing) - 1 : closing[i + 1] # Head(closing)
<1>1. /\ closing \in Seq(Caps) /\ Len(closing) \in Nat /\ Len(closing) # 0
      /\ Len(ordered) \in Nat
  BY LenProperties, EmptySeq DEF TypeInv, TypeOK
<1>2. /\ Head(closing) = closing[1] /\ Head(closing) \in Caps
      /\ Tail(closing) \in Seq(Caps) /\ Len(Tail(closing)) = Len(closing) - 1
      /\ \A i \in 1 .. Len(closing) - 1 : Tail(closing)[i] = closing[i + 1]
  BY <1>1, HeadTailProperties
<1>3. ASSUME NEW i \in 1 .. Len(closing) - 1
      PROVE  closing[i + 1] # closing[1]
  <2>1. /\ closing[i + 1] = ordered[Len(closing) + 1 - (i + 1)]
        /\ closing[1] = ordered[Len(closing) + 1 - 1]
        /\ Len(closing) <= Len(ordered)
    BY <1>1, <1>3 DEF ClosureInv, BackFrom
  <2>2. /\ Len(closing) + 1 - (i + 1) \in 1 .. Len(ordered)
        /\ Len(closing) + 1 - 1 \in 1 .. Len(ordered)
        /\ Len(closing) + 1 - (i + 1) # Len(closing) + 1 - 1
    BY <1>1, <1>3, <2>1
  <2> QED
    BY <2>1, <2>2 DEF SnapshotInv, OrderedSoFar
<1> QED
  BY <1>1, <1>2, <1>3

LEMMA ReverseBack ==
  ASSUME NEW s \in Seq(Caps)
  PROVE  BackFrom(Reverse(s), s)
<1>1. Len(s) \in Nat /\ \A i \in 1 .. Len(s) : s[i] \in Caps
  BY LenProperties, ElementOfSeq
<1>2. /\ Reverse(s) = [i \in 1 .. Len(s) |-> s[(Len(s) - i) + 1]]
      /\ Reverse(s) \in Seq(Caps)
  BY ReverseFacts DEF Reverse
<1>3. Len(Reverse(s)) = Len(s)
  BY <1>1, <1>2, LenProperties
<1>4. \A i \in 1 .. Len(s) : Reverse(s)[i] = s[Len(s) + 1 - i]
  BY <1>1, <1>2
<1> QED
  BY <1>1, <1>3, <1>4 DEF BackFrom

LEMMA ClosureNext == TypeInv /\ SnapshotInv /\ ClosureInv /\ [Next]_vars => ClosureInv'
<1> SUFFICES ASSUME TypeInv, SnapshotInv, ClosureInv, [Next]_vars PROVE ClosureInv'
  OBVIOUS
<1>0. closes \in [Caps -> Nat] /\ raised \in BOOLEAN /\ ordered \in Seq(Caps)
  BY DEF TypeInv, TypeOK
<1>1. ASSUME UNCHANGED closure, phase \notin {"closing", "closed"},
             phase' \notin {"closing", "closed"}
      PROVE  ClosureInv'
  BY <1>1 DEF ClosureInv, closure
<1>2. CASE Construct
  BY <1>1, <1>2 DEF Construct, Check, VisitRoot, VisitRequirement, Place
<1>3. CASE \/ \E c \in Caps : Require(c)
           \/ Freeze
  BY <1>1, <1>3 DEF Require, Freeze, Call, Quiet
<1>4. CASE UNCHANGED <<phase, ordering, closure>>
  BY <1>4 DEF ClosureInv, BackFrom, closure, ordering
<1>5. CASE Build \/ BuildRaises
  BY <1>4, <1>5 DEF Build, Obtain, Register, BuildRaises
<1>6. CASE Close
  <2>1. phase = "open" /\ phase' = "closing" /\ closing' = Reverse(ordered)
        /\ UNCHANGED <<ordered, closes, raised>>
    BY <1>6 DEF Close, Quiet, ordering
  <2>2. BackFrom(closing, ordered)'
    BY <1>0, <2>1, ReverseBack
  <2>3. ~raised => \A c \in Caps : closes[c] = 0
    BY <2>1 DEF ClosureInv
  <2>4. closing' \in Seq(Caps)
    BY <1>0, <2>1, ReverseFacts
  <2>5. \A i \in 1 .. Len(closing') : closing'[i] \in Caps
    BY <2>4, ElementOfSeq
  <2> QED
    BY <1>0, <2>1, <2>2, <2>3, <2>5 DEF ClosureInv
<1>7. CASE CloseNext
  <2>1. /\ phase = "closing" /\ closing # << >> /\ closing' = Tail(closing)
        /\ closes' \in {closes, [closes EXCEPT ![Head(closing)] = @ + 1]}
        /\ UNCHANGED <<phase, ordered, raised>>
    BY <1>7 DEF CloseNext, ordering
  <2>2. /\ Len(closing) \in Nat \ {0} /\ Head(closing) = closing[1]
        /\ Head(closing) \in Caps
        /\ Len(closing') = Len(closing) - 1
        /\ \A i \in 1 .. Len(closing) - 1 : closing'[i] = closing[i + 1]
        /\ \A i \in 1 .. Len(closing) - 1 : closing[i + 1] # Head(closing)
    BY <2>1, ClosingFacts
  <2>n. Len(ordered) \in Nat
    BY <1>0, LenProperties
  <2>3. BackFrom(closing, ordered)'
    <3>1. /\ Len(closing) <= Len(ordered)
          /\ \A i \in 1 .. Len(closing) : closing[i] = ordered[Len(closing) + 1 - i]
      BY <2>1 DEF ClosureInv, BackFrom
    <3>2. ASSUME NEW i \in 1 .. Len(closing')
          PROVE  closing'[i] = ordered[Len(closing') + 1 - i]
      <4> DEFINE n == Len(closing)
      <4>0. n \in Nat /\ i \in 1 .. n - 1 /\ Len(closing') = n - 1
        BY <2>2, <3>2
      <4> HIDE DEF n
      <4>1. /\ i \in 1 .. n - 1 /\ i + 1 \in 1 .. n
            /\ n + 1 - (i + 1) = Len(closing') + 1 - i
        BY <4>0
      <4> QED
        BY <2>2, <3>1, <4>1 DEF n
    <3>3. Len(closing') <= Len(ordered')
      BY <2>1, <2>2, <2>n, <3>1
    <3> QED
      BY <2>1, <3>2, <3>3 DEF BackFrom
  <2>4. ASSUME ~raised
        PROVE  /\ \A c \in Caps : closes'[c] <= 1
               /\ \A i \in 1 .. Len(closing') : closes'[closing'[i]] = 0
    <3>1. /\ \A c \in Caps : closes[c] <= 1
          /\ \A i \in 1 .. Len(closing) : closes[closing[i]] = 0
      BY <2>1, <2>4 DEF ClosureInv
    <3>2. closes[Head(closing)] = 0
      BY <2>2, <3>1
    <3>3. \A c \in Caps : closes'[c] <= 1
      BY <1>0, <2>1, <2>2, <3>1, <3>2
    <3>4. ASSUME NEW i \in 1 .. Len(closing')
          PROVE  closes'[closing'[i]] = 0
      <4>1. i \in 1 .. Len(closing) - 1 /\ i + 1 \in 1 .. Len(closing)
        BY <2>2, <3>4
      <4>2. closing'[i] = closing[i + 1] /\ closing[i + 1] # Head(closing)
            /\ closes[closing[i + 1]] = 0
        BY <2>2, <3>1, <4>1
      <4>3. closing[i + 1] \in Caps
        BY <4>1, ElementOfSeq DEF TypeInv, TypeOK
      <4> QED
        BY <1>0, <2>1, <4>2, <4>3
    <3> QED
      BY <3>3, <3>4
  <2> QED
    BY <2>1, <2>3, <2>4 DEF ClosureInv
<1>8. CASE CloseRaises
  BY <1>8 DEF CloseRaises, ClosureInv
<1>9. CASE Closed
  BY <1>9 DEF Closed, ClosureInv, closure
<1>10. CASE UNCHANGED vars
  BY <1>4, <1>10 DEF vars
<1> QED
  BY <1>2, <1>3, <1>5, <1>6, <1>7, <1>8, <1>9, <1>10 DEF Next, Shut

LEMMA ClosureHolds == Spec => [](TypeInv /\ SnapshotInv /\ ClosureInv)
  BY SnapshotHolds, ClosureInit, ClosureNext, PTL DEF Spec

(* No registration is closed twice, by however many calls of close(),      *)
(* unless the close of some registration raised (close, host.py:50-62).    *)
THEOREM ClosedOnce == Spec => []SecondCloseMeansRaised
<1>1. ClosureInv => SecondCloseMeansRaised
  BY DEF ClosureInv, SecondCloseMeansRaised
<1> QED
  BY <1>1, ClosureHolds, PTL

(* When a registration is closed, nothing that declared to need it is left *)
(* to be closed: what needs it comes after it in the snapshot.             *)
THEOREM DependentsGoFirst == Spec => ClosedInReverse
<1> DEFINE Step == \A c \in Caps : closes'[c] # closes[c] =>
                     \A d \in built \cap Closers :
                       c \in world.requires[d] /\ d # c => ~In(closing, d)
<1>1. TypeInv /\ SnapshotInv /\ ClosureInv /\ [Next]_vars => [Step]_vars
  <2> SUFFICES ASSUME TypeInv, SnapshotInv, ClosureInv, [Next]_vars,
                      NEW c \in Caps, closes'[c] # closes[c],
                      NEW d, c \in world.requires[d], d # c, In(closing, d)
               PROVE  FALSE
    OBVIOUS
  <2>1. CloseNext \/ CloseRaises
    BY DEF Next, Construct, Check, VisitRoot, VisitRequirement, Place, Require,
           Freeze, Call, Build, Obtain, Register, BuildRaises, Close, Shut, Closed,
           closure, vars
  <2>2. /\ phase = "closing" /\ closing # << >>
        /\ closes' \in {closes, [closes EXCEPT ![Head(closing)] = @ + 1]}
    BY <2>1 DEF CloseNext, CloseRaises
  <2>3. closes \in [Caps -> Nat] /\ ordered \in Seq(Caps) /\ closing \in Seq(Caps)
    BY DEF TypeInv, TypeOK
  <2>4. Len(closing) \in Nat \ {0} /\ closing[1] = Head(closing)
    BY <2>2, ClosingFacts
  <2>5. c = closing[1]
    BY <2>2, <2>3, <2>4
  <2>6. /\ Len(closing) <= Len(ordered)
        /\ \A i \in 1 .. Len(closing) : closing[i] = ordered[Len(closing) + 1 - i]
    BY <2>2 DEF ClosureInv, BackFrom
  <2>n. Len(ordered) \in Nat /\ DOMAIN closing = 1 .. Len(closing)
    BY <2>3, LenProperties
  <2>7. PICK i \in 1 .. Len(closing) : closing[i] = d
    BY <2>n DEF In
  <2> DEFINE at == Len(closing) + 1 - i
  <2>8. /\ at \in 1 .. Len(ordered) /\ ordered[at] = d
        /\ Len(closing) \in 1 .. Len(ordered) /\ at < Len(closing)
        /\ ordered[Len(closing)] = c
    BY <2>4, <2>5, <2>6, <2>7, <2>n
  <2> HIDE DEF at
  <2>c. c \in world.requires[ordered[at]]
    BY <2>8
  <2>9. PICK k \in 1 .. at - 1 : ordered[k] = c
    BY <2>8, <2>c DEF SnapshotInv, OrderedSoFar
  <2>10. k \in 1 .. Len(ordered) /\ k # Len(closing)
    <3> DEFINE l == Len(ordered)
               m == Len(closing)
    <3>1. /\ at \in Nat /\ at <= l /\ at < m /\ k \in 1 .. at - 1
          /\ l \in Nat /\ m \in Nat
      BY <2>4, <2>8, <2>9, <2>n
    <3> HIDE DEF l, m
    <3>2. k \in 1 .. l /\ k # m
      BY <3>1
    <3> QED
      BY <3>2 DEF l, m
  <2> QED
    BY <2>8, <2>9, <2>10 DEF SnapshotInv, OrderedSoFar
<1>2. [](TypeInv /\ SnapshotInv /\ ClosureInv) /\ [][Next]_vars => [][Step]_vars
  BY <1>1, PTL
<1> QED
  BY <1>2, ClosureHolds, PTL DEF Spec, ClosedInReverse
=============================================================================
