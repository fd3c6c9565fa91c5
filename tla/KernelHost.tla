------------------------------ MODULE KernelHost ------------------------------
(***************************************************************************)
(* The capability host: one Python object that orders the installed        *)
(* capabilities by their declared requirements, builds each when it is     *)
(* first asked for, and closes what it built.  Building is recursive: a    *)
(* provider's build function asks the host for the ports it needs, which    *)
(* may or may not be those it declared, and may raise.                     *)
(***************************************************************************)
EXTENDS Naturals, Sequences, SequencesExt

CONSTANTS
  N,          \* number of capability names; 1 .. N are in alphabetical order
  Worlds,     \* what may be installed (see World)
  Closers,    \* capabilities whose registration has a close method
  MaxCloses   \* bound: how often one registration's close may be called

Caps == 1 .. N

(* installed: capabilities with a provider, requires: what it declares,    *)
(* asks: what its build asks the host for, flawed: an implementation is    *)
(* ambiguous or pinned to another one, or two providers claim one name.    *)
World == [installed : SUBSET Caps, requires : [Caps -> SUBSET Caps],
          asks : [Caps -> SUBSET Caps], flawed : BOOLEAN]

ASSUME SizeAssumption   == N \in Nat /\ MaxCloses \in Nat
ASSUME WorldsAssumption == Worlds \subseteq World
ASSUME ClosersAssumption == Closers \subseteq Caps

VARIABLES
  world,      \* the installation, which does not change
  phase,      \* the host's life: constructor, open, closing, closed
  active,     \* the constructor's visits, outermost first
  ordered,    \* the snapshot: capabilities in dependency order
  queue,      \* what the call in progress has still to construct
  stack,      \* the build functions Python is in, outermost first
  building,   \* the host's own list of what is being built
  built,      \* capabilities with a registration
  error,      \* how the last call failed, if it did
  closing,    \* what close() has still to look at
  builds,     \* history: completed builds of each capability
  closes,     \* history: calls of each registration's close
  raised      \* history: some registration's close raised

ordering == <<active, ordered>>
calls    == <<queue, stack, building, built, error, builds>>
closure  == <<closing, closes, raised>>
vars     == <<world, phase, ordering, calls, closure>>

(* A visit or build under way, with what it has not yet looked at.         *)
Frame(c, needs) == [cap |-> c, todo |-> needs]
In(s, c) == \E i \in DOMAIN s : s[i] = c
OnStack(s, c) == \E i \in DOMAIN s : s[i].cap = c
Looked(s, d)  == [s EXCEPT ![Len(s)].todo = @ \ {d}]
Pop(s) == SubSeq(s, 1, Len(s) - 1)
Top(s) == s[Len(s)]

Least(S) == CHOOSE c \in S : \A d \in S : c <= d

----------------------------------------------------------------------------
Init ==
  /\ world \in Worlds
  /\ phase = "new"
  /\ active = << >> /\ ordered = << >>
  /\ queue = << >> /\ stack = << >> /\ building = << >>
  /\ built = {} /\ error = "none"
  /\ closing = << >>
  /\ builds = [c \in Caps |-> 0] /\ closes = [c \in Caps |-> 0]
  /\ raised = FALSE

(* The constructor checks the selection, then its requirements ...         *)
Check ==
  /\ phase = "new"
  /\ phase' = IF /\ ~world.flawed
                 /\ \A c \in world.installed :
                      world.requires[c] \subseteq world.installed
              THEN "ordering" ELSE "failed"
  /\ UNCHANGED <<world, ordering, calls, closure>>

(* ... and visits the capabilities in alphabetical order ...               *)
Unvisited == {c \in world.installed : ~In(ordered, c)}

VisitRoot ==
  /\ phase = "ordering"
  /\ active = << >>
  /\ \/ /\ Unvisited # {}
        /\ LET c == Least(Unvisited)
           IN  active' = << Frame(c, world.requires[c]) >>
        /\ UNCHANGED <<phase, ordered>>
     \/ /\ Unvisited = {}
        /\ phase' = "open"
        /\ UNCHANGED ordering
  /\ UNCHANGED <<world, calls, closure>>

(* ... each after its requirements, unless it meets itself again ...       *)
VisitOnce ==              \* a mutant: what is being visited is taken for visited
  /\ phase = "ordering"
  /\ active # << >>
  /\ Top(active).todo # {}
  /\ LET d == Least(Top(active).todo)
     IN  active' = IF In(ordered, d) \/ OnStack(active, d)
                   THEN Looked(active, d)
                   ELSE Append(active, Frame(d, world.requires[d]))
  /\ UNCHANGED <<world, phase, ordered, calls, closure>>

VisitRequirement ==
  /\ phase = "ordering"
  /\ active # << >>
  /\ Top(active).todo # {}
  /\ LET d == Least(Top(active).todo)
     IN  \/ /\ OnStack(active, d)
            /\ phase' = "failed"
            /\ UNCHANGED active
         \/ /\ ~OnStack(active, d)
            /\ active' = IF In(ordered, d) THEN Looked(active, d)
                         ELSE Append(active, Frame(d, world.requires[d]))
            /\ UNCHANGED phase
  /\ UNCHANGED <<world, ordered, calls, closure>>

(* ... and appends it to the order when they are all there.                *)
PlaceFirst ==             \* a mutant: the order is built from the wrong end
  /\ phase = "ordering"
  /\ active # << >>
  /\ Top(active).todo = {}
  /\ ordered' = << Top(active).cap >> \o ordered
  /\ active' = Pop(active)
  /\ UNCHANGED <<world, phase, calls, closure>>

Place ==
  /\ phase = "ordering"
  /\ active # << >>
  /\ Top(active).todo = {}
  /\ ordered' = Append(ordered, Top(active).cap)
  /\ active' = Pop(active)
  /\ UNCHANGED <<world, phase, calls, closure>>

----------------------------------------------------------------------------
(* A caller asks for one capability, or for all of them.                   *)
Quiet == phase = "open" /\ queue = << >> /\ stack = << >>

Call(caps) ==
  /\ Quiet
  /\ queue' = caps
  /\ error' = "none"
  /\ UNCHANGED <<world, phase, ordering, stack, building, built, builds, closure>>

Require(c) == Call(<<c>>)
Freeze     == Call(ordered)

(* An exception unwinds every build, and each takes itself off the list.   *)
FailWithoutPop(why) ==    \* a mutant: the list is not unwound (no finally)
  /\ queue' = << >> /\ stack' = << >>
  /\ error' = why
  /\ UNCHANGED <<building, built, builds>>

FailAndRetry(why) ==      \* a mutant: what failed is tried again
  /\ stack' = << >> /\ building' = << >>
  /\ error' = why
  /\ UNCHANGED <<queue, built, builds>>

Fail(why) ==
  /\ queue' = << >> /\ stack' = << >> /\ building' = << >>
  /\ error' = why
  /\ UNCHANGED <<built, builds>>

(* _registration(d), asked for by the caller or by the innermost build.    *)
Unavailable(d) == d \notin built /\ d \notin world.installed
Cyclic(d)      == d \in world.installed \ built /\ In(building, d)

Reenter(d) ==             \* a mutant: no cycle check
  d \in world.installed \ built

Buildable(d)   == d \in world.installed \ built /\ ~In(building, d)

Push(d) ==
  /\ stack' = Append(stack, Frame(d, world.asks[d]))
  /\ building' = Append(building, d)
  /\ UNCHANGED <<queue, built, error, builds>>

Wanted(d) == IF stack = << >> THEN queue # << >> /\ d = Head(queue)
                              ELSE d \in Top(stack).todo

Deliver(d) ==
  /\ IF stack = << >> THEN queue' = Tail(queue) /\ UNCHANGED stack
                      ELSE stack' = Looked(stack, d) /\ UNCHANGED queue
  /\ UNCHANGED <<building, built, error, builds>>

Obtain(d) ==
  /\ Wanted(d)
  /\ \/ d \in built /\ Deliver(d)
     \/ Unavailable(d) /\ Fail("unavailable")
     \/ Cyclic(d) /\ Fail("cycle")
     \/ Buildable(d) /\ Push(d)
  /\ UNCHANGED <<world, phase, ordering, closure>>

RegisterEarly ==          \* a mutant: registered before its needs are met
  /\ stack # << >>
  /\ LET c == Top(stack).cap
     IN  /\ built' = built \cup {c}
         /\ builds' = [builds EXCEPT ![c] = @ + 1]
  /\ stack' = Pop(stack)
  /\ building' = Pop(building)
  /\ UNCHANGED <<world, phase, ordering, queue, error, closure>>

(* The build function has returned a registration with the right claims.   *)
Register ==
  /\ stack # << >>
  /\ Top(stack).todo = {}
  /\ LET c == Top(stack).cap
     IN  /\ built' = built \cup {c}
         /\ builds' = [builds EXCEPT ![c] = @ + 1]
  /\ stack' = Pop(stack)
  /\ building' = Pop(building)
  /\ UNCHANGED <<world, phase, ordering, queue, error, closure>>

(* It raises, or returns something else, or other claims than declared.    *)
BuildRaises ==
  /\ stack # << >>
  /\ Fail("malformed")
  /\ UNCHANGED <<world, phase, ordering, closure>>

----------------------------------------------------------------------------
CloseForward ==           \* a mutant: in the order of construction
  /\ Quiet
  /\ \A c \in Caps : closes[c] < MaxCloses
  /\ phase' = "closing"
  /\ closing' = ordered
  /\ UNCHANGED <<world, ordering, calls, closes, raised>>

(* close() goes through the snapshot backwards ...                         *)
Close ==
  /\ Quiet
  /\ \A c \in Caps : closes[c] < MaxCloses
  /\ phase' = "closing"
  /\ closing' = Reverse(ordered)
  /\ UNCHANGED <<world, ordering, calls, closes, raised>>

Closes(c) == c \in built \cap Closers

(* ... closing what was built, if it can be closed ...                     *)
CloseNext ==
  /\ phase = "closing"
  /\ closing # << >>
  /\ closes' = IF Closes(Head(closing))
               THEN [closes EXCEPT ![Head(closing)] = @ + 1] ELSE closes
  /\ closing' = Tail(closing)
  /\ UNCHANGED <<world, phase, ordering, calls, raised>>

(* ... until one raises: the host stays open, and all of it is done again  *)
(* by the next close() ...                                                 *)
CloseRaises ==
  /\ phase = "closing"
  /\ closing # << >>
  /\ Closes(Head(closing))
  /\ closes' = [closes EXCEPT ![Head(closing)] = @ + 1]
  /\ raised' = TRUE
  /\ closing' = << >>
  /\ phase' = "open"
  /\ UNCHANGED <<world, ordering, calls>>

StayOpen ==               \* a mutant: the closed flag is never set
  /\ phase = "closing"
  /\ closing = << >>
  /\ phase' = "open"
  /\ UNCHANGED <<world, ordering, calls, closure>>

(* ... or all is closed, and every later call is refused.                  *)
Closed ==
  /\ phase = "closing"
  /\ closing = << >>
  /\ phase' = "closed"
  /\ UNCHANGED <<world, ordering, calls, closure>>

----------------------------------------------------------------------------
Construct == Check \/ VisitRoot \/ VisitRequirement \/ Place
Build     == (\E d \in Caps : Obtain(d)) \/ Register
Shut      == CloseNext \/ CloseRaises \/ Closed

Next ==
  \/ Construct
  \/ (\E c \in Caps : Require(c)) \/ Freeze
  \/ Build \/ BuildRaises
  \/ Close \/ Shut

Spec == Init /\ [][Next]_vars

(* The interpreter runs on: constructor, calls and close() are not paused  *)
(* for ever.  Nobody has to make a call.                                   *)
FairSpec == Spec /\ WF_vars(Construct) /\ WF_vars(Build) /\ WF_vars(Shut)

----------------------------------------------------------------------------
FrameType == [cap : Caps, todo : SUBSET Caps]

TypeOK ==
  /\ world \in Worlds
  /\ phase \in {"new", "ordering", "failed", "open", "closing", "closed"}
  /\ active \in Seq(FrameType)
  /\ ordered \in Seq(Caps)
  /\ queue \in Seq(Caps)
  /\ stack \in Seq(FrameType)
  /\ building \in Seq(Caps)
  /\ built \subseteq world.installed
  /\ error \in {"none", "unavailable", "cycle", "malformed"}
  /\ closing \in Seq(Caps)
  /\ builds \in [Caps -> Nat]
  /\ closes \in [Caps -> Nat]
  /\ raised \in BOOLEAN

(* A set of capabilities each of which needs one of the set: a cycle.      *)
HasCycle(S, needs) ==
  \E K \in SUBSET S : K # {} /\ \A c \in K : needs[c] \cap K # {}

Constructed == phase \in {"open", "closing", "closed"}

(* The snapshot of _dependency_order (registry.py:172-195): every installed *)
(* capability once, after all it requires.                                 *)
SnapshotIsOrdered ==
  Constructed =>
    /\ \A c \in world.installed : In(ordered, c)
    /\ \A i, k \in DOMAIN ordered : ordered[i] = ordered[k] => i = k
    /\ \A i \in DOMAIN ordered : \A d \in world.requires[ordered[i]] :
         \E k \in 1 .. i - 1 : ordered[k] = d

(* The constructor refuses what cannot be ordered, and nothing else: a     *)
(* flawed selection, an absent requirement, a cycle of requirements.       *)
RefusesOnlyTheImpossible ==
  LET impossible == \/ world.flawed
                    \/ \E c \in world.installed :
                         ~(world.requires[c] \subseteq world.installed)
                    \/ HasCycle(world.installed, world.requires)
  IN  /\ phase = "failed" => impossible
      /\ Constructed => ~impossible

(* "constructing it at most once" (capability.py:130), in spite of calls    *)
(* that fail half-way and are made again, and after all it asked for.      *)
BuiltOnceAfterItsNeeds ==
  /\ \A c \in Caps : builds[c] = IF c \in built THEN 1 ELSE 0
  /\ \A c \in built : world.asks[c] \subseteq built

(* The recursion never enters a build function that is on the stack        *)
(* (host.py:97-102), which would not end.                                  *)
NoReentry ==
  \A i, k \in DOMAIN stack : stack[i].cap = stack[k].cap => i = k

(* A caller who is told of a cycle has one, also after calls that failed:   *)
(* no failed call leaves its builds on the stack (host.py:127-128).         *)
CyclesAreReal == error = "cycle" => HasCycle(world.installed, world.asks)

(* When a registration is closed, nothing that declared to need it is left *)
(* to be closed (host.py:53).                                              *)
ClosedInReverse ==
  [][\A c \in Caps : closes'[c] # closes[c] =>
       \A d \in built \cap Closers :
         c \in world.requires[d] /\ d # c => ~In(closing, d)]_vars

(* "once" (host.py:50): no registration is closed a second time unless the *)
(* close of some registration raised before.                               *)
SecondCloseMeansRaised == ~raised => \A c \in Caps : closes[c] <= 1

(* Constructor, calls and close() all come to an end, whatever providers    *)
(* ask for and raise: the recursions over cyclic declarations included.     *)
AlwaysReturns ==
  []<>(phase \notin {"new", "ordering", "closing"} /\ queue = << >>)
=============================================================================
