---------------------------- MODULE Server_proofs ----------------------------
(* That the calls are counted, the endpoint files true and the ports apart   *)
(* whatever the processes, wikis and ports are and however many calls and    *)
(* launches there may be. What has to be added to make the three inductive   *)
(* is little: a process that is more than off has a wiki to count for        *)
(* (Placed), and what it holds fits the stage it is at (CountsFit), so that  *)
(* a process that changes its wiki holds nothing, and one that shuts down    *)
(* has nothing left to lose. The sum over the processes moves by what the    *)
(* one that moves does (SumOfChange).                                        *)
EXTENDS Server, FiniteSetTheorems, TLAPS

-----------------------------------------------------------------------------
(* Facts about SumFunction and SumFunctionOnSet of module Functions, with  *)
(* which the calls in memory are summed up.  Both are a fold, a function   *)
(* defined by recursion over the subsets of a finite set: that there is    *)
(* such a function, and that it does not matter in which order it takes    *)
(* the elements, is an induction over their number, done here by looking   *)
(* at a least counterexample.                                              *)

Less == {ss \in Nat \X Nat : ss[1] < ss[2]}

\* There is no endless descent among the natural numbers.
LEMMA LessWellFounded == IsWellFoundedOn(Less, Nat)
  BY NatLessThanWellFounded DEF OpToRel, Less

\* Some number of them is the least.
LEMMA LeastNumber ==
  ASSUME NEW T \in SUBSET Nat, T # {}
  PROVE  \E n \in T : \A k \in Nat : k < n => k \notin T
<1>1. PICK n \in T : \A m \in T : ~(<<m, n>> \in Less)
  BY LessWellFounded, WFMin
<1>2. \A m \in T : ~(m < n)
  BY <1>1 DEF Less
<1> QED BY <1>2

-----------------------------------------------------------------------------
(* The fold and the equation it solves.                                    *)

\* The element the fold takes first.
Pick(s) == CHOOSE x \in s : TRUE

\* g is, for each part of S, the sum of m over it.
Adds(g, m, S) == g = [s \in SUBSET S |-> IF s = {} THEN 0
                                        ELSE m[Pick(s)] + g[s \ {Pick(s)}]]

SumOver(m, S) == (CHOOSE g : Adds(g, m, S))[S]

\* SumFunctionOnSet is that sum.
LEMMA SumUnfolds ==
  ASSUME NEW m, NEW S
  PROVE  SumFunctionOnSet(m, S) = SumOver(m, S)
  BY DEF SumFunctionOnSet, FoldFunctionOnSet, MapThenFoldSet, SumOver, Adds, Pick

\* The fold takes an element that is there.
LEMMA PickIn ==
  ASSUME NEW s, s # {}
  PROVE  Pick(s) \in s
  BY DEF Pick

\* And leaves one fewer.
LEMMA Smaller ==
  ASSUME NEW S, IsFiniteSet(S), NEW s \in SUBSET S, NEW x \in s
  PROVE  /\ IsFiniteSet(s) /\ Cardinality(s) \in Nat
         /\ IsFiniteSet(s \ {x}) /\ Cardinality(s \ {x}) \in Nat
         /\ Cardinality(s) = Cardinality(s \ {x}) + 1
<1>1. IsFiniteSet(s)  BY FS_Subset
<1>2. Cardinality(s) \in Nat BY <1>1, FS_CardinalityType
<1>3. IsFiniteSet(s \ {x}) /\ Cardinality(s \ {x}) = Cardinality(s) - 1
  BY <1>1, FS_RemoveElement
<1>4. Cardinality(s \ {x}) \in Nat BY <1>3, FS_CardinalityType
<1> QED BY <1>1, <1>2, <1>3, <1>4

\* There is such a sum.
LEMMA SumExists ==
  ASSUME NEW S, IsFiniteSet(S), NEW m \in [S -> Nat]
  PROVE  \E g \in [SUBSET S -> Nat] : Adds(g, m, S)
<1> DEFINE Value(g, s) == IF s = {} THEN 0 ELSE m[Pick(s)] + g[s \ {Pick(s)}]
           UpTo(n) == \E g \in [SUBSET S -> Nat] :
                         \A s \in SUBSET S : Cardinality(s) <= n => g[s] = Value(g, s)
           Fails == {n \in Nat : ~UpTo(n)}
<1>1. \A s \in SUBSET S : s # {} => Pick(s) \in s
  BY PickIn
<1>2. \A s \in SUBSET S : Cardinality(s) \in Nat /\ (Cardinality(s) <= 0 => s = {})
  BY FS_Subset, FS_CardinalityType, FS_EmptySet
<1>3. UpTo(0)
  <2> DEFINE g == [s \in SUBSET S |-> 0]
  <2>1. g \in [SUBSET S -> Nat] /\ \A s \in SUBSET S : Cardinality(s) <= 0 => g[s] = Value(g, s)
    BY <1>2
  <2> QED BY <2>1
<1>4. ASSUME NEW n \in Nat, UpTo(n) PROVE UpTo(n + 1)
  <2>1. PICK g \in [SUBSET S -> Nat] : \A s \in SUBSET S : Cardinality(s) <= n => g[s] = Value(g, s)
    BY <1>4
  <2> DEFINE h == [s \in SUBSET S |-> Value(g, s)]
  <2>2. h \in [SUBSET S -> Nat]
    BY <1>1
  <2>3. ASSUME NEW s \in SUBSET S, Cardinality(s) <= n + 1, s # {}
        PROVE  h[s] = Value(h, s)
    <3> DEFINE t == s \ {Pick(s)}
    <3>1. Pick(s) \in s BY <1>1, <2>3
    <3>2. t \in SUBSET S /\ Cardinality(t) <= n
      <4>1. PICK x \in s : x = Pick(s) BY <3>1
      <4>2. Cardinality(s) \in Nat /\ Cardinality(s \ {x}) \in Nat
            /\ Cardinality(s) = Cardinality(s \ {x}) + 1
        BY <4>1, Smaller
      <4> QED BY <4>1, <4>2, <2>3
    <3>3. g[t] = Value(g, t) BY <2>1, <3>2
    <3>4. h[t] = Value(g, t) BY <3>2
    <3> QED BY <3>3, <3>4, <2>3
  <2>4. \A s \in SUBSET S : Cardinality(s) <= n + 1 => h[s] = Value(h, s)
    BY <2>3
  <2> HIDE DEF h, Value
  <2> QED BY <2>2, <2>4
<1> HIDE DEF UpTo
<1>5. Fails = {}
  <2> SUFFICES ASSUME Fails # {} PROVE FALSE
    OBVIOUS
  <2>1. PICK n \in Fails : \A k \in Nat : k < n => k \notin Fails
    BY LeastNumber
  <2>2. n \in Nat /\ n # 0 /\ ~UpTo(n) BY <1>3
  <2>3. n - 1 \in Nat /\ n - 1 \notin Fails /\ (n - 1) + 1 = n BY <2>1, <2>2
  <2>4. UpTo(n - 1) BY <2>3
  <2> QED BY <1>4, <2>2, <2>3, <2>4
<1>6. UpTo(Cardinality(S))
  BY <1>5, FS_CardinalityType
<1>7. PICK g \in [SUBSET S -> Nat] : \A s \in SUBSET S : Cardinality(s) <= Cardinality(S) => g[s] = Value(g, s)
  BY <1>6 DEF UpTo
<1>8. \A s \in SUBSET S : g[s] = Value(g, s)
  BY <1>7, FS_Subset
<1>9. g = [s \in SUBSET S |-> Value(g, s)]
  BY <1>8
<1> QED BY <1>9 DEF Adds

\* What it says of nothing, and of something.
LEMMA SumEquation ==
  ASSUME NEW S, IsFiniteSet(S), NEW m \in [S -> Nat], NEW g, Adds(g, m, S)
  PROVE  /\ g[{}] = 0
         /\ \A s \in SUBSET S : s # {} => g[s] = m[Pick(s)] + g[s \ {Pick(s)}]
  BY DEF Adds

\* Two sums of what agrees on a set agree on the set.
LEMMA SameTerms ==
  ASSUME NEW S, IsFiniteSet(S), NEW m \in [S -> Nat], NEW g, Adds(g, m, S),
         NEW T, IsFiniteSet(T), NEW k \in [T -> Nat], NEW h, Adds(h, k, T),
         NEW R \in SUBSET (S \cap T), \A x \in R : m[x] = k[x]
  PROVE  g[R] = h[R]
<1> DEFINE Wrong == {n \in Nat : \E s \in SUBSET R : Cardinality(s) = n /\ g[s] # h[s]}
<1>1. Wrong = {}
  <2> SUFFICES ASSUME Wrong # {} PROVE FALSE
    OBVIOUS
  <2>1. PICK n \in Wrong : \A i \in Nat : i < n => i \notin Wrong
    BY LeastNumber
  <2>2. PICK s \in SUBSET R : Cardinality(s) = n /\ g[s] # h[s]
    OBVIOUS
  <2>3. s # {}
    BY <2>2, SumEquation
  <2>4. PICK x \in s : x = Pick(s)
    BY <2>3, PickIn
  <2>5. g[s] = m[x] + g[s \ {x}] /\ h[s] = k[x] + h[s \ {x}]
    <3>1. s \in SUBSET S /\ s \in SUBSET T
      OBVIOUS
    <3>2. g[s] = m[Pick(s)] + g[s \ {Pick(s)}]
      BY <3>1, <2>3, SumEquation
    <3>3. h[s] = k[Pick(s)] + h[s \ {Pick(s)}]
      BY <3>1, <2>3, SumEquation
    <3> QED BY <3>2, <3>3, <2>4
  <2>6. g[s \ {x}] = h[s \ {x}]
    <3>1. s \in SUBSET S OBVIOUS
    <3>2. Cardinality(s \ {x}) \in Nat /\ n = Cardinality(s \ {x}) + 1
      BY <3>1, <2>2, <2>4, Smaller
    <3>3. Cardinality(s \ {x}) \notin Wrong
      <4> HIDE DEF Wrong
      <4> QED BY <2>1, <3>2
    <3> QED BY <3>2, <3>3
  <2> QED BY <2>2, <2>4, <2>5, <2>6
<1>2. Cardinality(R) \in Nat
  <2>1. IsFiniteSet(R) BY FS_Subset
  <2> QED BY <2>1, FS_CardinalityType
<1> QED BY <1>1, <1>2

\* It does not matter which element is taken first.
LEMMA AnyOrder ==
  ASSUME NEW S, IsFiniteSet(S), NEW m \in [S -> Nat],
         NEW g \in [SUBSET S -> Nat], Adds(g, m, S)
  PROVE  \A s \in SUBSET S, x \in S : x \in s => g[s] = m[x] + g[s \ {x}]
<1> DEFINE Astray(s, x) == x \in s /\ g[s] # m[x] + g[s \ {x}]
           Wrong == {n \in Nat : \E s \in SUBSET S, x \in S : Cardinality(s) = n /\ Astray(s, x)}
<1>1. Wrong = {}
  <2> SUFFICES ASSUME Wrong # {} PROVE FALSE
    OBVIOUS
  <2>1. PICK n \in Wrong : \A i \in Nat : i < n => i \notin Wrong
    BY LeastNumber
  <2>2. PICK s \in SUBSET S, x \in S : Cardinality(s) = n /\ Astray(s, x)
    OBVIOUS
  <2>3. PICK y \in s : y = Pick(s)
    BY <2>2, PickIn
  <2>4. g[s] = m[y] + g[s \ {y}]
    BY <2>3, SumEquation
  <2>5. x # y
    BY <2>2, <2>4
  <2>6. y \in s \ {x} /\ x \in s \ {y} /\ s \ {x} \in SUBSET S /\ s \ {y} \in SUBSET S
        /\ (s \ {y}) \ {x} = (s \ {x}) \ {y}
    BY <2>2, <2>3, <2>5
  <2>7. /\ Cardinality(s \ {x}) \in Nat /\ n = Cardinality(s \ {x}) + 1
        /\ Cardinality(s \ {y}) \in Nat /\ n = Cardinality(s \ {y}) + 1
    BY <2>2, <2>3, Smaller
  <2>8. Cardinality(s \ {x}) \notin Wrong /\ Cardinality(s \ {y}) \notin Wrong
    <3> HIDE DEF Wrong
    <3>1. ASSUME NEW i \in Nat, n = i + 1 PROVE i \notin Wrong
      <4>1. i < n BY <3>1
      <4> QED BY <2>1, <4>1
    <3> QED BY <2>7, <3>1
  <2>9. g[s \ {x}] = m[y] + g[(s \ {x}) \ {y}]
    BY <2>3, <2>6, <2>7, <2>8
  <2>10. g[s \ {y}] = m[x] + g[(s \ {x}) \ {y}]
    <3>1. g[s \ {y}] = m[x] + g[(s \ {y}) \ {x}]
      BY <2>2, <2>6, <2>7, <2>8
    <3> QED BY <3>1, <2>6
  <2>11. g[(s \ {x}) \ {y}] \in Nat /\ m[x] \in Nat /\ m[y] \in Nat
    BY <2>6, <2>3
  <2>12. g[s] = m[x] + g[s \ {x}]
    BY <2>4, <2>9, <2>10, <2>11
  <2> QED BY <2>2, <2>12
<1>2. \A s \in SUBSET S : Cardinality(s) \in Nat
  BY FS_Subset, FS_CardinalityType
<1> QED BY <1>1, <1>2

\* SumOver is a sum of that kind, and a number.
LEMMA SumIs ==
  ASSUME NEW S, IsFiniteSet(S), NEW m \in [S -> Nat]
  PROVE  \E g \in [SUBSET S -> Nat] : Adds(g, m, S) /\ SumOver(m, S) = g[S]
<1> DEFINE c == CHOOSE g : Adds(g, m, S)
<1>1. PICK g \in [SUBSET S -> Nat] : Adds(g, m, S)
  BY SumExists
<1>2. Adds(c, m, S)
  BY <1>1
<1>3. DOMAIN c = SUBSET S /\ c = [s \in SUBSET S |-> c[s]]
  BY <1>2 DEF Adds
<1>4. \A s \in SUBSET S : c[s] = g[s]
  <2> SUFFICES ASSUME NEW s \in SUBSET S PROVE c[s] = g[s]
    OBVIOUS
  <2> HIDE DEF c
  <2> QED BY <1>1, <1>2, SameTerms
<1>5. c \in [SUBSET S -> Nat]
  BY <1>3, <1>4
<1> QED BY <1>2, <1>5 DEF SumOver

-----------------------------------------------------------------------------
(* What the sums of the models need.                                       *)

\* A sum of numbers is a number.
THEOREM SumIsNat ==
  ASSUME NEW S, IsFiniteSet(S), NEW m \in [S -> Nat]
  PROVE  SumFunction(m) \in Nat
<1>1. PICK g \in [SUBSET S -> Nat] : Adds(g, m, S) /\ SumOver(m, S) = g[S]
  BY SumIs
<1>2. g[S] \in Nat
  OBVIOUS
<1> QED BY <1>1, <1>2, SumUnfolds DEF SumFunction

\* One element's share and the others'.
THEOREM SumTakesOut ==
  ASSUME NEW S, IsFiniteSet(S), NEW m \in [S -> Nat], NEW x \in S
  PROVE  \E g \in [SUBSET S -> Nat] :
            Adds(g, m, S) /\ SumFunction(m) = m[x] + g[S \ {x}]
<1>1. PICK g \in [SUBSET S -> Nat] : Adds(g, m, S) /\ SumOver(m, S) = g[S]
  BY SumIs
<1>2. g[S] = m[x] + g[S \ {x}]
  BY <1>1, AnyOrder
<1> QED BY <1>1, <1>2, SumUnfolds DEF SumFunction

\* No share is more than the sum.
THEOREM SumAtLeast ==
  ASSUME NEW S, IsFiniteSet(S), NEW m \in [S -> Nat], NEW x \in S
  PROVE  m[x] <= SumFunction(m)
<1>1. PICK g \in [SUBSET S -> Nat] : Adds(g, m, S) /\ SumFunction(m) = m[x] + g[S \ {x}]
  BY SumTakesOut
<1>2. g[S \ {x}] \in Nat /\ m[x] \in Nat
  OBVIOUS
<1> QED BY <1>1, <1>2

LEMMA SumsApart ==
  ASSUME NEW S, IsFiniteSet(S), NEW m \in [S -> Nat], NEW k \in [S -> Nat], NEW x \in S
  PROVE  (\A y \in S \ {x} : m[y] = k[y]) =>
            SumFunction(k) + m[x] = SumFunction(m) + k[x]
<1>1. PICK g \in [SUBSET S -> Nat] : Adds(g, m, S) /\ SumFunction(m) = m[x] + g[S \ {x}]
  BY SumTakesOut
<1>2. PICK h \in [SUBSET S -> Nat] : Adds(h, k, S) /\ SumFunction(k) = k[x] + h[S \ {x}]
  BY SumTakesOut
<1> HAVE \A y \in S \ {x} : m[y] = k[y]
<1>3. g[S \ {x}] = h[S \ {x}]
  <2>1. S \ {x} \in SUBSET (S \cap S)
    OBVIOUS
  <2> QED
    BY <1>1, <1>2, <2>1, SameTerms
<1>4. g[S \ {x}] \in Nat /\ m[x] \in Nat /\ k[x] \in Nat
  OBVIOUS
<1> QED BY <1>1, <1>2, <1>3, <1>4

\* When one share changes, the sum changes by as much.
LEMMA SumOfChange ==
  ASSUME NEW S, IsFiniteSet(S), NEW m \in [S -> Nat], NEW k \in [S -> Nat],
         NEW x \in S, \A y \in S \ {x} : m[y] = k[y]
  PROVE  SumFunction(k) + m[x] = SumFunction(m) + k[x]
BY SumsApart

\* Nothing adds up to nothing.
THEOREM SumOfZeros ==
  ASSUME NEW S, IsFiniteSet(S), NEW m \in [S -> Nat], \A x \in S : m[x] = 0
  PROVE  SumFunction(m) = 0
<1> DEFINE h == [s \in SUBSET S |-> 0]
<1>1. PICK g \in [SUBSET S -> Nat] : Adds(g, m, S) /\ SumOver(m, S) = g[S]
  BY SumIs
<1>2. Adds(h, m, S)
  <2>1. \A s \in SUBSET S : s # {} => Pick(s) \in s
    BY PickIn
  <2>2. \A s \in SUBSET S : h[s] = IF s = {} THEN 0 ELSE m[Pick(s)] + h[s \ {Pick(s)}]
    BY <2>1
  <2>3. h = [s \in SUBSET S |-> IF s = {} THEN 0 ELSE m[Pick(s)] + h[s \ {Pick(s)}]]
    BY <2>2
  <2> HIDE DEF h
  <2> QED BY <2>3 DEF Adds
<1>3. g[S] = h[S]
  <2>1. S \in SUBSET (S \cap S)
    OBVIOUS
  <2> HIDE DEF h
  <2> QED BY <1>1, <1>2, <2>1, SameTerms
<1> QED BY <1>1, <1>3, SumUnfolds DEF SumFunction

-----------------------------------------------------------------------------
(* The server: what makes the invariants inductive.                        *)

\* A process that is more than off has a wiki.
Placed == \A a \in Apps : app[a].at # "off" => app[a].wiki \in Wikis

\* There is something to count only while a server serves or stops; calls are
\* over once it settles, and when it flushes for the last time all is drained.
CountsFit == \A a \in Apps :
    /\ app[a].at \notin Answering \cup Stopping => use[a] = Idle /\ reading[a] = None
    /\ app[a].at \in {"settling", "flushing"} => use[a].flying = 0 /\ reading[a] = None
    /\ app[a].at = "flushing" => use[a].tally = 0

IInv == TypeOK /\ Placed /\ CountsFit /\ EveryCallIsCounted /\ EndpointsAreTrue

\* What one process may do.
AppStep(a) ==
    \/ Launch(a) \/ ReadEndpoint(a) \/ NotServed(a) \/ AlreadyOpen(a)
    \/ Bind(a) \/ PortTaken(a) \/ Serve(a) \/ Publish(a)
    \/ Call(a) \/ Answer(a) \/ Tick(a) \/ RecordUsage(a)
    \/ ReadUsage(a) \/ MergeUsage(a)
    \/ Halt(a) \/ Withdraw(a) \/ Served(a) \/ FinalDrain(a) \/ ShutDown(a)
    \/ StopAgain(a) \/ ServingFails(a) \/ Crash(a)

-----------------------------------------------------------------------------
(* Types.                                                                    *)

\* A process that is off is a process.
LEMMA OffIsTyped == Off \in Processes
BY ServerPorts DEF Off, Preferably, Listens, Stages, Processes

\* The default port is something to listen on.
LEMMA PreferenceIsTyped == Preferably(DefaultPort) \in Listens
BY ServerPorts DEF Preferably, Listens

\* So is a shell that starts, at work on the wiki it remembers.
LEMMA ShellIsTyped ==
    ASSUME VariablesTyped
    PROVE  OpenShell \in Processes /\ OpenShell.wiki \in Wikis /\ OpenShell.at = "reading"
<1>1. ListenFor(settings.port) \in Listens
  BY PreferenceIsTyped DEF VariablesTyped, ListenFor, Exactly, Listens
<1> QED BY <1>1, OffIsTyped DEF OpenShell, VariablesTyped, Off, Stages, Processes

\* Counting a call.
LEMMA CountedIsTyped ==
    ASSUME VariablesTyped, NEW b \in Apps, Counted(b)
    PROVE  use' \in [Apps -> Usages] /\ answered' \in [Wikis -> Nat]
<1>1. [use[b] EXCEPT !.tally = @ + 1] \in Usages
  BY DEF VariablesTyped, Usages
<1>2. use' \in [Apps -> Usages]
  BY <1>1 DEF VariablesTyped, Counted
<1>3. answered' = [answered EXCEPT ![app[b].wiki] = answered[app[b].wiki] + 1]
  BY DEF Counted
<1>4. ASSUME NEW w \in Wikis PROVE answered'[w] \in Nat
  BY <1>3 DEF VariablesTyped
<1>5. answered' \in [Wikis -> Nat]
  BY <1>3, <1>4 DEF VariablesTyped
<1> QED BY <1>2, <1>5

\* The initial states fit.
LEMMA TypesInitially == Init => VariablesTyped /\ PortsApart /\ Placed /\ CountsFit
<1> SUFFICES ASSUME Init PROVE VariablesTyped /\ PortsApart /\ Placed /\ CountsFit
  OBVIOUS
<1> USE DEF Init
<1>2. endpoint \in [Wikis -> Ports \cup {None}] /\ mishaps \in 0..MaxMishaps
  BY ServerBounds
<1>3. VariablesTyped
  BY OffIsTyped, <1>2, ServerSettings, ServerBounds DEF VariablesTyped, Idle, Usages
<1>4. PortsApart /\ Placed /\ CountsFit
  BY DEF PortsApart, Placed, CountsFit, Off, Listening, Answering, Stopping
<1> QED BY <1>3, <1>4

\* No step of a process leaves the types.
LEMMA TypesStep ==
    ASSUME VariablesTyped, Placed, NEW a \in Apps, AppStep(a)
    PROVE VariablesTyped'
<1> USE ServerBounds DEF VariablesTyped
<1>0. app[a] \in Processes /\ use[a] \in Usages
  OBVIOUS
<1>1. CASE Launch(a)
  <2>0. app' \in [Apps -> Processes]
    <3>1. CASE a \in Desks
      BY <1>1, <3>1, ShellIsTyped DEF Launch
    <3>2. CASE a \notin Desks
      <4>1. PICK port \in Ports, exactly \in BOOLEAN : app' = [app EXCEPT ![a] =
                       [Off EXCEPT !.at = "starting", !.wiki = Home[a],
                                   !.listen = [exactly |-> exactly, port |-> port]]]
         BY <1>1, <3>2 DEF Launch
      <4>2. [exactly |-> exactly, port |-> port] \in Listens
         BY DEF Listens
      <4>3. [Off EXCEPT !.at = "starting", !.wiki = Home[a],
                                   !.listen = [exactly |-> exactly, port |-> port]] \in Processes
         BY <4>2, <3>2, OffIsTyped, ServerApps DEF Processes, Stages
      <4> QED BY <4>1, <4>3
    <3> QED BY <3>1, <3>2
  <2>1. launches' \in 0..MaxLaunches
    <3>1. launches < MaxLaunches /\ launches' = launches + 1
      BY <1>1 DEF Launch
    <3>2. launches \in 0..MaxLaunches /\ MaxLaunches \in Nat
      OBVIOUS
    <3> QED BY <3>1, <3>2
  <2>2. UNCHANGED <<use, endpoint, settings, persisted, reading, calls, mishaps, answered, lost>>
    BY <1>1 DEF Launch
  <2> QED BY <2>0, <2>1, <2>2
<1>2. CASE ReadEndpoint(a)
  <2>1. app[a].wiki \in Wikis BY <1>2 DEF ReadEndpoint, Placed
  <2>2. app' \in [Apps -> Processes]
    BY <1>0, <1>2, <2>1 DEF ReadEndpoint, Processes, Stages
  <2> QED BY <1>2, <2>2 DEF ReadEndpoint
<1>3. CASE NotServed(a)
  <2>2. app' \in [Apps -> Processes]
    BY <1>0, <1>3 DEF NotServed, Processes, Stages
  <2>3. use' \in [Apps -> Usages] /\ answered' \in [Wikis -> Nat]
    BY <1>3, CountedIsTyped DEF NotServed
  <2> QED BY <1>3, <2>2, <2>3 DEF NotServed
<1>4. CASE AlreadyOpen(a)
  <2>2. app' \in [Apps -> Processes]
    <3>1. ASSUME NEW w \in Wikis
          PROVE  [app[a] EXCEPT !.at = "reading", !.wiki = w, !.seen = None] \in Processes
      BY <1>0 DEF Processes, Stages
    <3> QED BY <1>4, <3>1, OffIsTyped DEF AlreadyOpen
  <2>3. use' \in [Apps -> Usages] /\ answered' \in [Wikis -> Nat]
    BY <1>4, CountedIsTyped DEF AlreadyOpen
  <2> QED BY <1>4, <2>2, <2>3 DEF AlreadyOpen
<1>5. CASE Bind(a)
  <2>1. PICK port \in Bindable(app[a].listen) :
          app' = [app EXCEPT ![a] = [@ EXCEPT !.at = "bound", !.port = port,
                                             !.listen = Preferably(DefaultPort)]]
    BY <1>5 DEF Bind
  <2>2. port \in Ports
    BY <1>0 DEF Bindable, Processes, Listens
  <2>3. [app[a] EXCEPT !.at = "bound", !.port = port,
                                             !.listen = Preferably(DefaultPort)] \in Processes
    BY <1>0, <2>2, PreferenceIsTyped DEF Processes, Stages
  <2> QED BY <1>5, <2>1, <2>3 DEF Bind
<1>6. CASE PortTaken(a)
  <2>2. app' \in [Apps -> Processes]
    BY <1>0, <1>6, PreferenceIsTyped, OffIsTyped DEF PortTaken, Processes
  <2> QED BY <1>6, <2>2 DEF PortTaken
<1>7. CASE Serve(a)
  BY <1>0, <1>7 DEF Serve, Stages, Processes
<1>8. CASE Publish(a)
  <2>2. app' \in [Apps -> Processes] /\ app[a].port \in Ports \cup {None}
    BY <1>0, <1>8 DEF Publish, Processes, Stages
  <2> QED BY <1>8, <2>2 DEF Publish
<1>9. CASE Call(a)
  BY <1>0, <1>9 DEF Call, Usages
<1>10. CASE Answer(a)
  BY <1>0, <1>10 DEF Answer, Usages
<1>11. CASE Tick(a)
  BY <1>0, <1>11 DEF Tick, Drained, Usages
<1>12. CASE RecordUsage(a)
  <2>2. use' \in [Apps -> Usages]
    BY <1>0, <1>12 DEF RecordUsage, Usages
  <2>3. use[a].hand \in Nat
    BY <1>0 DEF Usages
  <2>4. persisted' \in [Wikis -> Nat] /\ lost' \in [Wikis -> Nat]
    BY <1>12, <2>3 DEF RecordUsage
  <2> QED BY <1>12, <2>2, <2>4 DEF RecordUsage
<1>13. CASE ReadUsage(a)
  <2>1. app[a].wiki \in Wikis BY <1>13 DEF ReadUsage, Answering, Placed
  <2> QED BY <1>13, <2>1 DEF ReadUsage
<1>14. CASE MergeUsage(a)
  BY <1>14 DEF MergeUsage
<1>15. CASE Halt(a)
  <2>2. app' \in [Apps -> Processes]
    BY <1>0, <1>15 DEF Halt, Processes, Stages
  <2>3. settings' \in [wiki : Wikis, port : Ports \cup {None}]
    BY <1>15 DEF Halt
  <2> QED BY <1>15, <2>2, <2>3 DEF Halt
<1>16. CASE Withdraw(a)
  <2>2. app' \in [Apps -> Processes]
    BY <1>0, <1>16 DEF Withdraw, Processes, Stages
  <2> QED BY <1>16, <2>2 DEF Withdraw
<1>17. CASE Served(a)
  BY <1>0, <1>17 DEF Served, Stages, Processes
<1>18. CASE FinalDrain(a)
  BY <1>0, <1>18 DEF FinalDrain, Drained, Stages, Usages, Processes
<1>19. CASE ShutDown(a)
  <2>2. app' \in [Apps -> Processes] /\ launches' \in 0..MaxLaunches
    BY <1>19, OffIsTyped, ShellIsTyped DEF ShutDown
  <2>3. use' \in [Apps -> Usages] /\ use[a].tally \in Nat
    BY <1>0, <1>19 DEF ShutDown, Idle, Usages
  <2>4. reading' \in [Apps -> Nat \cup {None}]
    BY <1>19 DEF ShutDown
  <2>5. lost' = [lost EXCEPT ![app[a].wiki] = lost[app[a].wiki] + use[a].tally]
    BY <1>19 DEF ShutDown
  <2>6. ASSUME NEW w \in Wikis PROVE lost'[w] \in Nat
    BY <2>3, <2>5
  <2>7. lost' \in [Wikis -> Nat]
    BY <2>5, <2>6
  <2> QED BY <1>19, <2>2, <2>3, <2>4, <2>7 DEF ShutDown
<1>20. ASSUME Gone(a)
       PROVE  /\ app' \in [Apps -> Processes] /\ use' \in [Apps -> Usages]
              /\ lost' \in [Wikis -> Nat] /\ reading' \in [Apps -> Nat \cup {None}]
  <2>1. use[a].tally + use[a].hand \in Nat
    BY <1>0 DEF Usages
  <2>2. lost' \in [Wikis -> Nat]
    <3>1. CASE app[a].wiki = None
      BY <1>20, <3>1 DEF Gone
    <3>2. CASE app[a].wiki # None
      <4>1. ASSUME NEW n \in Nat PROVE n + use[a].tally + use[a].hand \in Nat
        BY <1>0 DEF Usages
      <4> QED BY <1>20, <3>2, <4>1 DEF Gone
    <3> QED BY <3>1, <3>2
  <2>3. Idle \in Usages
    BY DEF Idle, Usages
  <2> QED BY <1>20, <2>2, <2>3, OffIsTyped DEF Gone
<1>21. CASE StopAgain(a)
  BY <1>20, <1>21 DEF StopAgain
<1>22. CASE ServingFails(a)
  BY <1>20, <1>22 DEF ServingFails
<1>23. CASE Crash(a)
  BY <1>20, <1>23 DEF Crash
<1> QED BY <1>1, <1>2, <1>3, <1>4, <1>5, <1>6, <1>7, <1>8, <1>9, <1>10, <1>11,
           <1>12, <1>13, <1>14, <1>15, <1>16, <1>17, <1>18, <1>19, <1>21, <1>22, <1>23
       DEF AppStep

-----------------------------------------------------------------------------
(* Where the counts may be.                                                  *)

\* No step moves a process past a stage with counts that do not belong there.
LEMMA CountsFitStep ==
    ASSUME VariablesTyped, Placed, CountsFit, NEW a \in Apps, AppStep(a), VariablesTyped'
    PROVE  Placed' /\ CountsFit'
<1> USE DEF Placed, CountsFit, Answering, Stopping
<1> DEFINE Fits(b) ==
             /\ app'[b].at # "off" => app'[b].wiki \in Wikis
             /\ app'[b].at \notin Answering \cup Stopping => use'[b] = Idle /\ reading'[b] = None
             /\ app'[b].at \in {"settling", "flushing"} => use'[b].flying = 0 /\ reading'[b] = None
             /\ app'[b].at = "flushing" => use'[b].tally = 0
<1>0. /\ app \in [Apps -> Processes] /\ use \in [Apps -> Usages]
      /\ app[a] \in Processes /\ use[a] \in Usages /\ None \notin Wikis
  BY ServerNone DEF VariablesTyped
<1>a. ASSUME Fits(a), \A b \in Apps \ {a} : app'[b] = app[b] /\ use'[b] = use[b] /\ reading'[b] = reading[b]
      PROVE  Placed' /\ CountsFit'
  <2>1. \A b \in Apps : Fits(b)
    BY <1>a
  <2> QED BY <2>1
<1>b. Off.at = "off"
  BY DEF Off
<1> HIDE DEF Fits
<1>1. CASE Launch(a)
  <2>1. use' = use /\ reading' = reading /\ app[a].at = "off" /\ \A b \in Apps \ {a} : app'[b] = app[b]
    BY <1>0, <1>1 DEF Launch
  <2>2. app'[a].wiki \in Wikis /\ app'[a].at \in {"reading", "starting"}
    BY <1>0, <1>1, OffIsTyped, ShellIsTyped, ServerApps DEF Launch, Off
  <2>3. Fits(a)
    BY <2>1, <2>2 DEF Fits
  <2> QED BY <1>a, <2>1, <2>3
<1>2. CASE ReadEndpoint(a)
  BY <1>0, <1>2 DEF ReadEndpoint, Processes, Usages
<1>3. CASE NotServed(a)
  BY <1>0, <1>3 DEF NotServed, Counted, Confirms, Processes, Usages
<1>4. CASE AlreadyOpen(a)
  <2>1. PICK b \in Apps : Confirms(a, b) /\ Counted(b)
    BY <1>4 DEF AlreadyOpen
  <2>2. b # a /\ app[b].at \in {"serving", "up"} /\ app[a].at = "asking"
    BY <1>4, <2>1 DEF AlreadyOpen, Confirms
  <2>3. reading' = reading /\ \A c \in Apps \ {a} : app'[c] = app[c]
    BY <1>0, <1>4 DEF AlreadyOpen
  <2>4. /\ app'[a].at \in {"off", "reading"}
        /\ app'[a].at # "off" => app'[a].wiki \in Wikis
    <3>1. ASSUME NEW w \in Wikis, app' = [app EXCEPT ![a] = [@ EXCEPT !.at = "reading",
                                                    !.wiki = w, !.seen = None]]
          PROVE  app'[a].at = "reading" /\ app'[a].wiki \in Wikis
      BY <1>0, <3>1 DEF Processes
    <3>2. CASE app' = [app EXCEPT ![a] = Off]
      BY <1>0, <1>b, <3>2
    <3> QED BY <1>4, <3>1, <3>2 DEF AlreadyOpen
  <2>5. use'[b].flying = use[b].flying /\ \A c \in Apps \ {b} : use'[c] = use[c]
    BY <1>0, <2>1 DEF Counted, Usages
  <2>6. \A c \in Apps : Fits(c)
    BY <2>2, <2>3, <2>4, <2>5 DEF Fits
  <2> QED BY <2>6 DEF Fits
<1>5. CASE Bind(a)
  BY <1>0, <1>5 DEF Bind, Processes, Usages
<1>6. CASE PortTaken(a)
  BY <1>0, <1>6 DEF PortTaken, Off, Idle, Processes, Usages
<1>7. CASE Serve(a)
  BY <1>0, <1>7 DEF Serve, Processes, Usages
<1>8. CASE Publish(a)
  BY <1>0, <1>8 DEF Publish, Processes, Usages
<1>9. CASE Call(a)
  BY <1>0, <1>9 DEF Call, Processes, Usages
<1>10. CASE Answer(a)
  BY <1>0, <1>10 DEF Answer, Processes, Usages
<1>11. CASE Tick(a)
  BY <1>0, <1>11 DEF Tick, Drained, Processes, Usages
<1>12. CASE RecordUsage(a)
  <2>1. app' = app /\ reading' = reading /\ use' = [use EXCEPT ![a].hand = 0] /\ use[a].hand > 0
    BY <1>12 DEF RecordUsage
  <2>2. app[a].at \in Answering \cup Stopping
    BY <1>0, <2>1 DEF Idle
  <2> QED BY <1>0, <2>1, <2>2 DEF Usages
<1>13. CASE ReadUsage(a)
  BY <1>0, <1>13 DEF ReadUsage, Processes, Usages
<1>14. CASE MergeUsage(a)
  BY <1>0, <1>14 DEF MergeUsage, Processes, Usages
<1>15. CASE Halt(a)
  <2>1. /\ use' = use /\ reading' = reading /\ app[a].at = "up"
        /\ app'[a].at = "halted" /\ app'[a].wiki = app[a].wiki
        /\ \A b \in Apps \ {a} : app'[b] = app[b]
    BY <1>0, <1>15 DEF Halt, Processes
  <2>2. Fits(a)
    BY <2>1 DEF Fits
  <2> QED BY <1>a, <2>1, <2>2
<1>16. CASE Withdraw(a)
  BY <1>0, <1>16 DEF Withdraw, Processes, Usages
<1>17. CASE Served(a)
  <2>1. /\ use' = use /\ reading' = reading /\ app[a].at = "draining"
        /\ app'[a].at = "settling" /\ app'[a].wiki = app[a].wiki
        /\ \A b \in Apps \ {a} : app'[b] = app[b]
        /\ use[a].flying = 0 /\ reading[a] = None
    BY <1>0, <1>17 DEF Served, CallsOver, Processes
  <2>2. Fits(a)
    BY <2>1 DEF Fits
  <2> QED BY <1>a, <2>1, <2>2
<1>18. CASE FinalDrain(a)
  BY <1>0, <1>18 DEF FinalDrain, Drained, Processes, Usages
<1>19. CASE ShutDown(a)
  BY <1>0, <1>19, OffIsTyped, ShellIsTyped, ServerApps DEF ShutDown, Off, Idle, Processes, Usages
<1>20. ASSUME Gone(a) PROVE Placed' /\ CountsFit'
  <2>1. /\ app'[a] = Off /\ use'[a] = Idle /\ reading'[a] = None
        /\ \A b \in Apps \ {a} : app'[b] = app[b] /\ use'[b] = use[b] /\ reading'[b] = reading[b]
    BY <1>0, <1>20 DEF Gone, VariablesTyped
  <2>2. Fits(a)
    BY <1>b, <2>1 DEF Fits
  <2> QED BY <1>a, <2>1, <2>2
<1>21. CASE StopAgain(a)
  BY <1>20, <1>21 DEF StopAgain
<1>22. CASE ServingFails(a)
  BY <1>20, <1>22 DEF ServingFails
<1>23. CASE Crash(a)
  BY <1>20, <1>23 DEF Crash
<1> QED BY <1>1, <1>2, <1>3, <1>4, <1>5, <1>6, <1>7, <1>8, <1>9, <1>10, <1>11, <1>12, <1>13, <1>14, <1>15, <1>16, <1>17, <1>18, <1>19, <1>21, <1>22, <1>23 DEF AppStep

-----------------------------------------------------------------------------
(* Ports and endpoint files.                                                 *)

\* Where an endpoint file may point.
Pointed == {"serving", "up", "halted"}

\* A step in which nobody comes to listen, and nobody an endpoint file may name
\* goes.
Steady(a) ==
    /\ app'[a].at \in Listening => app[a].at \in Listening /\ app'[a].port = app[a].port
    /\ app[a].at \in Pointed => /\ app'[a].at \in Pointed
                                /\ app'[a].port = app[a].port /\ app'[a].wiki = app[a].wiki
    /\ \A b \in Apps \ {a} : app'[b] = app[b]

\* Such a step leaves the ports apart.
LEMMA SteadyPorts ==
    ASSUME PortsApart, NEW a \in Apps, Steady(a)
    PROVE  PortsApart'
BY DEF PortsApart, Steady

\* So do the endpoint files.
LEMMA SteadyEndpoints ==
    ASSUME EndpointsAreTrue, NEW a \in Apps, Steady(a), UNCHANGED <<endpoint, mishaps>>
    PROVE  EndpointsAreTrue'
BY DEF EndpointsAreTrue, Steady, Pointed

\* A process that goes frees its port.
LEMMA GonePorts ==
    ASSUME PortsApart, VariablesTyped, NEW a \in Apps, Gone(a)
    PROVE  PortsApart'
BY DEF PortsApart, Gone, VariablesTyped, Listening, Off

\* Once something went wrong nothing is said of the endpoint files.
LEMMA MishapEndpoints ==
    ASSUME VariablesTyped, mishaps' = mishaps + 1
    PROVE  EndpointsAreTrue'
<1>1. mishaps' # 0
  BY ServerBounds DEF VariablesTyped
<1> QED BY <1>1 DEF EndpointsAreTrue

\* A server binds a port nobody listens on, publishes it while it serves, and
\* withdraws the file before it may go.
LEMMA EndpointsStep ==
    ASSUME VariablesTyped, Placed, PortsApart, EndpointsAreTrue, NEW a \in Apps, AppStep(a)
    PROVE  PortsApart' /\ EndpointsAreTrue'
<1>0. app \in [Apps -> Processes] /\ app[a] \in Processes
  BY DEF VariablesTyped
<1>1. CASE Launch(a)
  <2>0. /\ app[a].at = "off" /\ app'[a].at \in {"reading", "starting"}
        /\ \A b \in Apps \ {a} : app'[b] = app[b]
    BY <1>0, <1>1, ShellIsTyped DEF Launch, Off
  <2>1. Steady(a)
    BY <2>0 DEF Steady, Listening, Pointed
  <2>2. UNCHANGED <<endpoint, mishaps>>
    BY <1>1 DEF Launch
  <2> QED BY <2>1, <2>2, SteadyPorts, SteadyEndpoints
<1>2. CASE ReadEndpoint(a)
  <2>1. Steady(a)
    BY <1>0, <1>2 DEF ReadEndpoint, Steady, Listening, Pointed, Processes
  <2>2. UNCHANGED <<endpoint, mishaps>>
    BY <1>2 DEF ReadEndpoint
  <2> QED BY <2>1, <2>2, SteadyPorts, SteadyEndpoints
<1>3. CASE NotServed(a)
  <2>1. Steady(a)
    BY <1>0, <1>3 DEF NotServed, Steady, Listening, Pointed, Processes
  <2>2. UNCHANGED <<endpoint, mishaps>>
    BY <1>3 DEF NotServed
  <2> QED BY <2>1, <2>2, SteadyPorts, SteadyEndpoints
<1>4. CASE AlreadyOpen(a)
  <2>a. app'[a].at \in {"off", "reading"}
    <3>1. CASE app' = [app EXCEPT ![a] = Off]
      BY <1>0, <3>1 DEF Off
    <3>2. ASSUME NEW w \in Wikis, app' = [app EXCEPT ![a] = [@ EXCEPT !.at = "reading",
                                                    !.wiki = w, !.seen = None]]
          PROVE  app'[a].at = "reading"
      BY <1>0, <3>2 DEF Processes
    <3> QED BY <1>4, <3>1, <3>2 DEF AlreadyOpen
  <2>b. app[a].at = "asking" /\ \A b \in Apps \ {a} : app'[b] = app[b]
    BY <1>0, <1>4 DEF AlreadyOpen
  <2>1. Steady(a)
    BY <2>a, <2>b DEF Steady, Listening, Pointed
  <2>2. UNCHANGED <<endpoint, mishaps>>
    BY <1>4 DEF AlreadyOpen
  <2> QED BY <2>1, <2>2, SteadyPorts, SteadyEndpoints
<1>5. CASE Bind(a)
  <2>1. PICK port \in Bindable(app[a].listen) :
          app' = [app EXCEPT ![a] = [@ EXCEPT !.at = "bound", !.port = port,
                                             !.listen = Preferably(DefaultPort)]]
    BY <1>5 DEF Bind
  <2>2. app'[a].at = "bound" /\ app'[a].port = port /\ \A b \in Apps \ {a} : app'[b] = app[b]
    BY <1>0, <2>1 DEF Processes
  <2>3. port \notin Busy
    BY DEF Bindable
  <2>4. \A b \in Apps : app[b].at \in Listening => app[b].port # port
    BY <2>3 DEF Busy
  <2>5. PortsApart'
    BY <2>2, <2>4 DEF PortsApart
  <2>6. app[a].at = "starting" /\ UNCHANGED <<endpoint, mishaps>>
    BY <1>5 DEF Bind
  <2>7. EndpointsAreTrue'
    BY <2>2, <2>6 DEF EndpointsAreTrue
  <2> QED BY <2>5, <2>7
<1>6. CASE PortTaken(a)
  <2>1. Steady(a)
    BY <1>0, <1>6 DEF PortTaken, Steady, Listening, Pointed, Processes, Off
  <2>2. UNCHANGED <<endpoint, mishaps>>
    BY <1>6 DEF PortTaken
  <2> QED BY <2>1, <2>2, SteadyPorts, SteadyEndpoints
<1>7. CASE Serve(a)
  <2>1. Steady(a)
    BY <1>0, <1>7 DEF Serve, Steady, Listening, Pointed, Processes
  <2>2. UNCHANGED <<endpoint, mishaps>>
    BY <1>7 DEF Serve
  <2> QED BY <2>1, <2>2, SteadyPorts, SteadyEndpoints
<1>8. CASE Publish(a)
  <2>1. Steady(a) /\ app[a].at = "serving" /\ app'[a].at = "up"
        /\ app'[a].port = app[a].port /\ app'[a].wiki = app[a].wiki
    BY <1>0, <1>8 DEF Publish, Steady, Listening, Pointed, Processes
  <2>2. CASE mishaps' = mishaps + 1
    BY <2>1, <2>2, SteadyPorts, MishapEndpoints
  <2>3. CASE endpoint' = [endpoint EXCEPT ![app[a].wiki] = app[a].port] /\ UNCHANGED mishaps
    <3>1. ASSUME NEW w \in Wikis, mishaps' = 0, endpoint'[w] # None
          PROVE  \E b \in Apps : /\ app'[b].wiki = w /\ app'[b].port = endpoint'[w]
                                 /\ app'[b].at \in Pointed
      <4>1. CASE w = app[a].wiki
        BY <2>1, <2>3, <4>1 DEF VariablesTyped, Pointed
      <4>2. CASE w # app[a].wiki
        <5>1. endpoint'[w] = endpoint[w]
          BY <2>3, <4>2 DEF VariablesTyped
        <5>2. PICK b \in Apps : /\ app[b].wiki = w /\ app[b].port = endpoint[w]
                                /\ app[b].at \in Pointed
          BY <2>3, <3>1, <5>1 DEF EndpointsAreTrue, Pointed
        <5> QED BY <2>1, <5>1, <5>2 DEF Steady
      <4> QED BY <4>1, <4>2
    <3>2. EndpointsAreTrue'
      BY <3>1 DEF EndpointsAreTrue, Pointed
    <3> QED BY <2>1, <3>2, SteadyPorts
  <2> QED BY <1>8, <2>2, <2>3 DEF Publish
<1>9. CASE Call(a)
  <2>1. Steady(a) /\ UNCHANGED <<endpoint, mishaps>>
    BY <1>9 DEF Call, Steady
  <2> QED BY <2>1, SteadyPorts, SteadyEndpoints
<1>10. CASE Answer(a)
  <2>1. Steady(a) /\ UNCHANGED <<endpoint, mishaps>>
    BY <1>10 DEF Answer, Steady
  <2> QED BY <2>1, SteadyPorts, SteadyEndpoints
<1>11. CASE Tick(a)
  <2>1. Steady(a) /\ UNCHANGED <<endpoint, mishaps>>
    BY <1>11 DEF Tick, Steady
  <2> QED BY <2>1, SteadyPorts, SteadyEndpoints
<1>12. CASE RecordUsage(a)
  <2>1. Steady(a)
    BY <1>12 DEF RecordUsage, Steady
  <2>2. UNCHANGED endpoint /\ (UNCHANGED mishaps \/ mishaps' = mishaps + 1)
    BY <1>12 DEF RecordUsage
  <2> QED BY <2>1, <2>2, SteadyPorts, SteadyEndpoints, MishapEndpoints
<1>13. CASE ReadUsage(a)
  <2>1. Steady(a) /\ UNCHANGED <<endpoint, mishaps>>
    BY <1>13 DEF ReadUsage, Steady
  <2> QED BY <2>1, SteadyPorts, SteadyEndpoints
<1>14. CASE MergeUsage(a)
  <2>1. Steady(a) /\ UNCHANGED <<endpoint, mishaps>>
    BY <1>14 DEF MergeUsage, Steady
  <2> QED BY <2>1, SteadyPorts, SteadyEndpoints
<1>15. CASE Halt(a)
  <2>1. Steady(a)
    BY <1>0, <1>15 DEF Halt, Steady, Listening, Pointed, Processes
  <2>2. UNCHANGED <<endpoint, mishaps>>
    BY <1>15 DEF Halt
  <2> QED BY <2>1, <2>2, SteadyPorts, SteadyEndpoints
<1>16. CASE Withdraw(a)
  <2>1. /\ app[a].at = "halted" /\ app'[a].at = "draining"
        /\ \A b \in Apps \ {a} : app'[b] = app[b]
    BY <1>0, <1>16 DEF Withdraw, Processes
  <2>2. PortsApart'
    BY <2>1 DEF PortsApart, Listening
  <2>3. CASE mishaps' = mishaps + 1
    BY <2>2, <2>3, MishapEndpoints
  <2>4. CASE endpoint' = [endpoint EXCEPT ![app[a].wiki] = None] /\ UNCHANGED mishaps
    <3>1. ASSUME NEW w \in Wikis, mishaps' = 0, endpoint'[w] # None
          PROVE  \E b \in Apps : /\ app'[b].wiki = w /\ app'[b].port = endpoint'[w]
                                 /\ app'[b].at \in Pointed
      <4>1. w # app[a].wiki /\ endpoint'[w] = endpoint[w]
        BY <2>4, <3>1 DEF VariablesTyped
      <4>2. PICK b \in Apps : /\ app[b].wiki = w /\ app[b].port = endpoint[w]
                              /\ app[b].at \in Pointed
        BY <2>4, <3>1, <4>1 DEF EndpointsAreTrue, Pointed
      <4> QED BY <2>1, <4>1, <4>2
    <3>2. EndpointsAreTrue'
      BY <3>1 DEF EndpointsAreTrue, Pointed
    <3> QED BY <2>2, <3>2
  <2> QED BY <1>16, <2>3, <2>4 DEF Withdraw
<1>17. CASE Served(a)
  <2>1. Steady(a)
    BY <1>0, <1>17 DEF Served, Steady, Listening, Pointed, Processes
  <2>2. UNCHANGED <<endpoint, mishaps>>
    BY <1>17 DEF Served
  <2> QED BY <2>1, <2>2, SteadyPorts, SteadyEndpoints
<1>18. CASE FinalDrain(a)
  <2>1. Steady(a)
    BY <1>0, <1>18 DEF FinalDrain, Steady, Listening, Pointed, Processes
  <2>2. UNCHANGED <<endpoint, mishaps>>
    BY <1>18 DEF FinalDrain
  <2> QED BY <2>1, <2>2, SteadyPorts, SteadyEndpoints
<1>19. CASE ShutDown(a)
  <2>1. Steady(a)
    BY <1>0, <1>19, ShellIsTyped DEF ShutDown, Steady, Listening, Pointed, Processes, Off
  <2>2. UNCHANGED <<endpoint, mishaps>>
    BY <1>19 DEF ShutDown
  <2> QED BY <2>1, <2>2, SteadyPorts, SteadyEndpoints
<1>20. CASE StopAgain(a)
  BY <1>20, GonePorts, MishapEndpoints DEF StopAgain
<1>21. CASE ServingFails(a)
  BY <1>21, GonePorts, MishapEndpoints DEF ServingFails
<1>22. CASE Crash(a)
  BY <1>22, GonePorts, MishapEndpoints DEF Crash
<1> QED BY <1>1, <1>2, <1>3, <1>4, <1>5, <1>6, <1>7, <1>8, <1>9, <1>10, <1>11, <1>12, <1>13, <1>14, <1>15, <1>16, <1>17, <1>18, <1>19, <1>20, <1>21, <1>22 DEF AppStep

-----------------------------------------------------------------------------
(* The books.                                                                *)

\* What a process holds of a wiki's counts.
Mine(c, w) == IF app[c].wiki = w THEN use[c].tally + use[c].hand ELSE 0

\* A process none of whose counts move, and one that has none.
Keeps(c) ==
    /\ app'[c].wiki = app[c].wiki /\ reading'[c] = reading[c]
    /\ use'[c].tally = use[c].tally /\ use'[c].hand = use[c].hand
Empty(c) ==
    /\ use[c].tally = 0 /\ use[c].hand = 0 /\ use'[c].tally = 0 /\ use'[c].hand = 0
    /\ reading[c] = None /\ reading'[c] = None
Aside(c) == Keeps(c) \/ Empty(c)

\* Only one process's counts move: the sum moves by as much as they do.
LEMMA MemoryOfChange ==
    ASSUME VariablesTyped, VariablesTyped', NEW w \in Wikis, NEW b \in Apps,
           \A c \in Apps \ {b} : Aside(c)
    PROVE  /\ InMemory(w) \in Nat /\ InMemory(w)' \in Nat
           /\ Mine(b, w) \in Nat /\ Mine(b, w)' \in Nat
           /\ InMemory(w)' + Mine(b, w) = InMemory(w) + Mine(b, w)'
<1> DEFINE m == [a \in Apps |-> Mine(a, w)]
           k == [a \in Apps |-> Mine(a, w)']
<1>1. \A c \in Apps : Mine(c, w) \in Nat /\ Mine(c, w)' \in Nat
  BY DEF Mine, VariablesTyped, Usages
<1>2. m \in [Apps -> Nat] /\ k \in [Apps -> Nat] /\ m[b] = Mine(b, w) /\ k[b] = Mine(b, w)'
  BY <1>1
<1>3. \A c \in Apps \ {b} : m[c] = k[c]
  <2>1. ASSUME NEW c \in Apps \ {b} PROVE Mine(c, w) = Mine(c, w)'
    BY DEF Mine, Aside, Keeps, Empty
  <2> QED BY <2>1
<1>4. InMemory(w) = SumFunction(m) /\ InMemory(w)' = SumFunction(k)
  BY DEF InMemory, Held, Mine
<1>5. IsFiniteSet(Apps)
  BY ServerApps
<1> HIDE DEF m, k
<1>6. SumFunction(m) \in Nat /\ SumFunction(k) \in Nat
  BY <1>2, <1>5, SumIsNat
<1>7. SumFunction(k) + m[b] = SumFunction(m) + k[b]
  BY <1>2, <1>3, <1>5, SumOfChange
<1> QED BY <1>1, <1>2, <1>4, <1>6, <1>7

\* A step that moves counts of one process keeps the books if what it answers
\* is what it records, loses and takes into memory; if it loses nothing without
\* a mishap; and if it counts nothing twice under a reader's eyes.
LEMMA BooksKept ==
    ASSUME VariablesTyped, VariablesTyped', EveryCallIsCounted, NEW b \in Apps,
           \A c \in Apps \ {b} : Aside(c),
           \A w \in Wikis : answered'[w] + persisted[w] + lost[w] + Mine(b, w)
                               = answered[w] + persisted'[w] + lost'[w] + Mine(b, w)',
           mishaps' = 0 => mishaps = 0 /\ lost' = lost,
           \A w \in Wikis : answered[w] <= answered'[w],
           reading'[b] # None =>
              /\ reading'[b] = reading[b] /\ app'[b].wiki = app[b].wiki
              /\ \A w \in Wikis : app[b].wiki = w =>
                    answered[w] + use'[b].tally <= answered'[w] + use[b].tally
    PROVE  EveryCallIsCounted'
<1> SUFFICES ASSUME NEW w \in Wikis
             PROVE  /\ answered'[w] = persisted'[w] + InMemory(w)' + lost'[w]
                    /\ mishaps' = 0 => lost'[w] = 0
                    /\ \A a \in Apps : (app'[a].wiki = w /\ reading'[a] # None) =>
                          reading'[a] + use'[a].tally <= answered'[w]
  BY DEF EveryCallIsCounted
<1>0. /\ answered[w] \in Nat /\ answered'[w] \in Nat /\ persisted[w] \in Nat
      /\ persisted'[w] \in Nat /\ lost[w] \in Nat /\ lost'[w] \in Nat
  BY DEF VariablesTyped
<1>1. /\ InMemory(w) \in Nat /\ InMemory(w)' \in Nat
      /\ Mine(b, w) \in Nat /\ Mine(b, w)' \in Nat
      /\ InMemory(w)' + Mine(b, w) = InMemory(w) + Mine(b, w)'
  BY MemoryOfChange
<1>2. answered[w] = persisted[w] + InMemory(w) + lost[w] /\ (mishaps = 0 => lost[w] = 0)
  BY DEF EveryCallIsCounted
<1>a. answered'[w] + persisted[w] + lost[w] + Mine(b, w)
         = answered[w] + persisted'[w] + lost'[w] + Mine(b, w)'
  OBVIOUS
<1>b. ASSUME NEW n \in Nat, NEW m \in Nat, NEW n1 \in Nat, NEW m1 \in Nat, n1 + m = n + m1,
             NEW x \in Nat, NEW p \in Nat, NEW l \in Nat, x = p + n + l,
             NEW x1 \in Nat, NEW p1 \in Nat, NEW l1 \in Nat, x1 + p + l + m = x + p1 + l1 + m1
      PROVE  x1 = p1 + n1 + l1
  BY <1>b
<1>3. answered'[w] = persisted'[w] + InMemory(w)' + lost'[w]
  BY <1>0, <1>1, <1>2, <1>a, <1>b
<1>4. mishaps' = 0 => lost'[w] = 0
  BY <1>2
<1>5. ASSUME NEW a \in Apps, app'[a].wiki = w, reading'[a] # None
      PROVE  reading'[a] + use'[a].tally <= answered'[w]
  <2>0. use[a].tally \in Nat /\ use'[a].tally \in Nat /\ reading'[a] \in Nat
    BY <1>5 DEF VariablesTyped, Usages
  <2>1. /\ reading'[a] = reading[a] /\ app[a].wiki = w
        /\ answered[w] + use'[a].tally <= answered'[w] + use[a].tally
    <3>1. CASE a = b
      BY <1>5, <3>1
    <3>2. CASE a # b
      BY <1>0, <1>5, <2>0, <3>2 DEF Aside, Keeps, Empty
    <3> QED BY <3>1, <3>2
  <2>2. reading[a] + use[a].tally <= answered[w]
    BY <1>5, <2>1 DEF EveryCallIsCounted
  <2> QED BY <1>0, <2>0, <2>1, <2>2
<1> QED BY <1>3, <1>4, <1>5

\* A step that moves no count.
LEMMA NothingMoves ==
    ASSUME VariablesTyped, VariablesTyped', EveryCallIsCounted, NEW b \in Apps,
           \A c \in Apps : Aside(c), UNCHANGED <<persisted, lost, answered>>,
           mishaps' = mishaps \/ mishaps' = mishaps + 1
    PROVE  EveryCallIsCounted'
<1>1. mishaps' = 0 => mishaps = 0
  BY ServerBounds DEF VariablesTyped
<1>2. ASSUME NEW w \in Wikis
      PROVE  Mine(b, w)' = Mine(b, w) /\ answered[w] <= answered'[w]
  BY DEF VariablesTyped, Aside, Keeps, Empty, Mine
<1>3. \A w \in Wikis : answered'[w] + persisted[w] + lost[w] + Mine(b, w)
                          = answered[w] + persisted'[w] + lost'[w] + Mine(b, w)'
  BY <1>2
<1>4. reading'[b] # None =>
              /\ reading'[b] = reading[b] /\ app'[b].wiki = app[b].wiki
              /\ \A w \in Wikis : app[b].wiki = w =>
                    answered[w] + use'[b].tally <= answered'[w] + use[b].tally
  BY DEF VariablesTyped, Usages, Aside, Keeps, Empty
<1> QED BY <1>1, <1>2, <1>3, <1>4, BooksKept

\* A flush takes the tally in hand.
Drains(a) == use' = Drained(a)

\* A call is counted: its process tallies it, and nothing else moves.
LEMMA CountedKeeps ==
    ASSUME VariablesTyped, VariablesTyped', Placed, EveryCallIsCounted, NEW b \in Apps, Counted(b),
           app[b].at # "off", app'[b] = app[b], UNCHANGED <<persisted, lost, reading, mishaps>>,
           \A c \in Apps \ {b} : app'[c].wiki = app[c].wiki \/ (use[c] = Idle /\ reading[c] = None)
    PROVE  EveryCallIsCounted'
<1> DEFINE v == app[b].wiki
<1>0. v \in Wikis
  BY DEF Placed
<1>1. /\ use'[b].tally = use[b].tally + 1 /\ use'[b].hand = use[b].hand
      /\ \A c \in Apps \ {b} : use'[c] = use[c]
      /\ use[b].tally \in Nat /\ use[b].hand \in Nat
  BY DEF Counted, VariablesTyped, Usages
<1>2. answered'[v] = answered[v] + 1 /\ \A w \in Wikis \ {v} : answered'[w] = answered[w]
  BY <1>0 DEF Counted, VariablesTyped
<1>3. \A c \in Apps \ {b} : Aside(c)
  BY <1>1 DEF Aside, Keeps, Empty, Idle
<1>4. ASSUME NEW w \in Wikis
      PROVE  /\ answered'[w] + persisted[w] + lost[w] + Mine(b, w)
                  = answered[w] + persisted'[w] + lost'[w] + Mine(b, w)'
             /\ answered[w] <= answered'[w]
  <2>0. answered[w] \in Nat /\ persisted[w] \in Nat /\ lost[w] \in Nat
    BY DEF VariablesTyped
  <2>1. CASE w = v
    BY <1>1, <1>2, <2>0, <2>1 DEF Mine
  <2>2. CASE w # v
    BY <1>1, <1>2, <2>0, <2>2 DEF Mine
  <2> QED BY <2>1, <2>2
<1>5. answered[v] + use'[b].tally <= answered'[v] + use[b].tally
  BY <1>0, <1>1, <1>2 DEF VariablesTyped
<1> QED BY <1>3, <1>4, <1>5, BooksKept

\* A process that goes takes what it held with it.
LEMMA GoneKeeps ==
    ASSUME VariablesTyped, VariablesTyped', Placed, EveryCallIsCounted, NEW a \in Apps, Gone(a),
           app[a].at # "off", mishaps' = mishaps + 1, UNCHANGED <<persisted, answered>>
    PROVE  EveryCallIsCounted'
<1> DEFINE v == app[a].wiki
<1>0. v \in Wikis /\ v # None
  BY ServerNone DEF Placed
<1>1. /\ use[a].tally \in Nat /\ use[a].hand \in Nat
      /\ app'[a].wiki = None /\ reading'[a] = None
      /\ \A c \in Apps \ {a} : app'[c] = app[c] /\ use'[c] = use[c] /\ reading'[c] = reading[c]
  BY DEF VariablesTyped, Usages, Gone, Off
<1>2. /\ lost'[v] = lost[v] + use[a].tally + use[a].hand
      /\ \A w \in Wikis \ {v} : lost'[w] = lost[w]
  BY <1>0 DEF Gone, VariablesTyped
<1>3. \A c \in Apps \ {a} : Aside(c)
  BY <1>1 DEF Aside, Keeps
<1>4. ASSUME NEW w \in Wikis
      PROVE  /\ answered'[w] + persisted[w] + lost[w] + Mine(a, w)
                  = answered[w] + persisted'[w] + lost'[w] + Mine(a, w)'
             /\ answered[w] <= answered'[w]
  <2>0. answered[w] \in Nat /\ persisted[w] \in Nat /\ lost[w] \in Nat
    BY DEF VariablesTyped
  <2>1. Mine(a, w)' = 0
    BY <1>1, ServerNone DEF Mine
  <2>2. Mine(a, w) = IF w = v THEN use[a].tally + use[a].hand ELSE 0
    BY DEF Mine
  <2> QED BY <1>1, <1>2, <2>0, <2>1, <2>2
<1>5. mishaps' # 0
  BY ServerBounds DEF VariablesTyped
<1> QED BY <1>1, <1>3, <1>4, <1>5, BooksKept

\* No step counts a call twice or forgets one.
LEMMA BooksStep ==
    ASSUME VariablesTyped, VariablesTyped', Placed, CountsFit, EveryCallIsCounted,
           NEW a \in Apps, AppStep(a)
    PROVE  EveryCallIsCounted'
<1>0. /\ app \in [Apps -> Processes] /\ app[a] \in Processes
      /\ use \in [Apps -> Usages] /\ use[a] \in Usages
      /\ reading \in [Apps -> Nat \cup {None}]
  BY DEF VariablesTyped
<1>a. app[a].at \notin Answering \cup Stopping => use[a] = Idle /\ reading[a] = None
  BY DEF CountsFit
<1>1. CASE Launch(a)
  <2>1. \A c \in Apps \ {a} : app'[c] = app[c]
    BY <1>0, <1>1 DEF Launch
  <2>2. UNCHANGED <<use, reading, persisted, lost, answered, mishaps>> /\ app[a].at = "off"
    BY <1>1 DEF Launch
  <2>3. \A c \in Apps : Aside(c)
    BY <1>a, <2>1, <2>2 DEF Aside, Keeps, Empty, Idle, Answering, Stopping
  <2> QED BY <2>2, <2>3, NothingMoves
<1>2. CASE ReadEndpoint(a)
  <2>1. \A c \in Apps : Aside(c)
    BY <1>0, <1>2 DEF ReadEndpoint, Aside, Keeps, Processes
  <2>2. UNCHANGED <<persisted, lost, answered>> /\ (mishaps' = mishaps \/ mishaps' = mishaps + 1)
    BY <1>2 DEF ReadEndpoint
  <2> QED BY <2>1, <2>2, NothingMoves
<1>3. CASE NotServed(a)
  <2>1. /\ \A c \in Apps : app'[c].wiki = app[c].wiki
        /\ \A c \in Apps \ {a} : app'[c] = app[c]
    BY <1>0, <1>3 DEF NotServed, Processes
  <2>2. UNCHANGED <<persisted, lost, reading, mishaps>>
    BY <1>3 DEF NotServed
  <2>3. CASE UNCHANGED <<use, answered>>
    <3>1. \A c \in Apps : Aside(c)
      BY <2>1, <2>2, <2>3 DEF Aside, Keeps
    <3> QED BY <2>2, <2>3, <3>1, NothingMoves
  <2>4. ASSUME NEW b \in Apps, Confirms(a, b), Counted(b) PROVE EveryCallIsCounted'
    <3>1. app[b].at # "off" /\ app'[b] = app[b]
      BY <2>1, <2>4 DEF Confirms, Answering
    <3> QED BY <2>1, <2>2, <2>4, <3>1, CountedKeeps
  <2> QED BY <1>3, <2>3, <2>4 DEF NotServed
<1>4. CASE AlreadyOpen(a)
  <2>1. \A c \in Apps \ {a} : app'[c] = app[c]
    BY <1>0, <1>4 DEF AlreadyOpen
  <2>2. UNCHANGED <<persisted, lost, reading, mishaps>> /\ use[a] = Idle /\ reading[a] = None
    BY <1>4, <1>a DEF AlreadyOpen, Answering, Stopping
  <2>3. PICK b \in Apps : Confirms(a, b) /\ Counted(b)
    BY <1>4 DEF AlreadyOpen
  <2>4. app[b].at # "off" /\ app'[b] = app[b]
    BY <2>1, <2>3 DEF Confirms, Answering
  <2> QED BY <2>1, <2>2, <2>3, <2>4, CountedKeeps
<1>5. CASE Bind(a)
  <2>1. \A c \in Apps : Aside(c)
    BY <1>0, <1>5 DEF Bind, Aside, Keeps, Processes
  <2>2. UNCHANGED <<persisted, lost, answered>> /\ (mishaps' = mishaps \/ mishaps' = mishaps + 1)
    BY <1>5 DEF Bind
  <2> QED BY <2>1, <2>2, NothingMoves
<1>6. CASE PortTaken(a)
  <2>1. \A c \in Apps \ {a} : app'[c] = app[c]
    BY <1>0, <1>6 DEF PortTaken
  <2>2. UNCHANGED <<use, reading, persisted, lost, answered, mishaps>> /\ app[a].at = "starting"
    BY <1>6 DEF PortTaken
  <2>3. \A c \in Apps : Aside(c)
    BY <1>a, <2>1, <2>2 DEF Aside, Keeps, Empty, Idle, Answering, Stopping
  <2> QED BY <2>2, <2>3, NothingMoves
<1>7. CASE Serve(a)
  <2>1. \A c \in Apps : Aside(c)
    BY <1>0, <1>7 DEF Serve, Aside, Keeps, Processes
  <2>2. UNCHANGED <<persisted, lost, answered>> /\ (mishaps' = mishaps \/ mishaps' = mishaps + 1)
    BY <1>7 DEF Serve
  <2> QED BY <2>1, <2>2, NothingMoves
<1>8. CASE Publish(a)
  <2>1. \A c \in Apps : Aside(c)
    BY <1>0, <1>8 DEF Publish, Aside, Keeps, Processes
  <2>2. UNCHANGED <<persisted, lost, answered>> /\ (mishaps' = mishaps \/ mishaps' = mishaps + 1)
    BY <1>8 DEF Publish
  <2> QED BY <2>1, <2>2, NothingMoves
<1>9. CASE Call(a)
  <2>1. \A c \in Apps : Aside(c)
    BY <1>0, <1>9 DEF Call, Aside, Keeps, Usages
  <2>2. UNCHANGED <<persisted, lost, answered>> /\ (mishaps' = mishaps \/ mishaps' = mishaps + 1)
    BY <1>9 DEF Call
  <2> QED BY <2>1, <2>2, NothingMoves
<1>10. CASE Answer(a)
  <2>1. app[a].at \in Answering \cup Stopping
    BY <1>0, <1>10, <1>a DEF Answer, Idle
  <2> DEFINE v == app[a].wiki
  <2>2. v \in Wikis /\ UNCHANGED <<app, persisted, lost, reading, mishaps>>
    BY <1>10, <2>1 DEF Answer, Placed, Answering, Stopping
  <2>3. /\ use'[a].tally = use[a].tally + 1 /\ use'[a].hand = use[a].hand
        /\ \A c \in Apps \ {a} : use'[c] = use[c]
        /\ use[a].tally \in Nat /\ use[a].hand \in Nat
    BY <1>0, <1>10 DEF Answer, Usages
  <2>4. answered'[v] = answered[v] + 1 /\ \A w \in Wikis \ {v} : answered'[w] = answered[w]
    BY <1>10, <2>2 DEF Answer, VariablesTyped
  <2>5. \A c \in Apps \ {a} : Aside(c)
    BY <2>2, <2>3 DEF Aside, Keeps
  <2>6. ASSUME NEW w \in Wikis
        PROVE  /\ answered'[w] + persisted[w] + lost[w] + Mine(a, w)
                    = answered[w] + persisted'[w] + lost'[w] + Mine(a, w)'
               /\ answered[w] <= answered'[w]
    <3>0. answered[w] \in Nat /\ persisted[w] \in Nat /\ lost[w] \in Nat
      BY DEF VariablesTyped
    <3>1. CASE w = v
      BY <2>2, <2>3, <2>4, <3>0, <3>1 DEF Mine
    <3>2. CASE w # v
      BY <2>2, <2>3, <2>4, <3>0, <3>2 DEF Mine
    <3> QED BY <3>1, <3>2
  <2>7. answered[v] + use'[a].tally <= answered'[v] + use[a].tally
    BY <2>2, <2>3, <2>4 DEF VariablesTyped
  <2> QED BY <2>2, <2>5, <2>6, <2>7, BooksKept
<1>11. ASSUME Drains(a), UNCHANGED <<persisted, lost, answered, reading, mishaps>>, use[a].hand = 0,
              \A c \in Apps : app'[c].wiki = app[c].wiki
       PROVE  EveryCallIsCounted'
  <2>1. /\ use'[a].tally = 0 /\ use'[a].hand = use[a].tally /\ use[a].tally \in Nat
        /\ \A c \in Apps \ {a} : use'[c] = use[c]
    BY <1>0, <1>11 DEF Drained, Drains, Usages
  <2>2. \A c \in Apps \ {a} : Aside(c)
    BY <1>11, <2>1 DEF Aside, Keeps
  <2>3. ASSUME NEW w \in Wikis
        PROVE  /\ answered'[w] + persisted[w] + lost[w] + Mine(a, w)
                    = answered[w] + persisted'[w] + lost'[w] + Mine(a, w)'
               /\ answered[w] <= answered'[w]
               /\ answered[w] + use'[a].tally <= answered'[w] + use[a].tally
    <3>1. answered[w] \in Nat /\ Mine(a, w)' = Mine(a, w)
      BY <1>11, <2>1 DEF Mine, VariablesTyped
    <3> QED BY <1>11, <2>1, <3>1
  <2> QED BY <1>11, <2>2, <2>3, BooksKept
<1>12. CASE Tick(a)
  BY <1>12, <1>11 DEF Tick, Drains
<1>13. CASE RecordUsage(a)
  <2>1. app[a].at \in Answering \cup Stopping
    BY <1>0, <1>13, <1>a DEF RecordUsage, Idle
  <2> DEFINE v == app[a].wiki
  <2>2. v \in Wikis /\ UNCHANGED <<app, answered, reading>>
    BY <1>13, <2>1 DEF RecordUsage, Placed, Answering, Stopping
  <2>3. /\ use'[a].tally = use[a].tally /\ use'[a].hand = 0
        /\ \A c \in Apps \ {a} : use'[c] = use[c]
        /\ use[a].tally \in Nat /\ use[a].hand \in Nat
    BY <1>0, <1>13 DEF RecordUsage, Usages
  <2>4. /\ persisted'[v] + lost'[v] = persisted[v] + lost[v] + use[a].hand
        /\ \A w \in Wikis \ {v} : persisted'[w] + lost'[w] = persisted[w] + lost[w]
        /\ mishaps' = 0 => mishaps = 0 /\ lost' = lost
    <3>1. CASE persisted' = [persisted EXCEPT ![v] = persisted[v] + use[a].hand]
               /\ UNCHANGED <<lost, mishaps>>
      BY <2>2, <2>3, <3>1 DEF VariablesTyped
    <3>2. CASE lost' = [lost EXCEPT ![v] = lost[v] + use[a].hand] /\ UNCHANGED persisted
               /\ mishaps' = mishaps + 1
      <4>1. mishaps' # 0
        BY <3>2, ServerBounds DEF VariablesTyped
      <4> QED BY <2>2, <2>3, <3>2, <4>1 DEF VariablesTyped
    <3> QED BY <1>13, <3>1, <3>2 DEF RecordUsage
  <2>5. \A c \in Apps \ {a} : Aside(c)
    BY <2>2, <2>3 DEF Aside, Keeps
  <2>6. ASSUME NEW w \in Wikis
        PROVE  /\ answered'[w] + persisted[w] + lost[w] + Mine(a, w)
                    = answered[w] + persisted'[w] + lost'[w] + Mine(a, w)'
               /\ answered[w] <= answered'[w]
               /\ answered[w] + use'[a].tally <= answered'[w] + use[a].tally
    <3>0. /\ answered[w] \in Nat /\ persisted[w] \in Nat /\ lost[w] \in Nat
          /\ persisted'[w] \in Nat /\ lost'[w] \in Nat
      BY DEF VariablesTyped
    <3>1. CASE w = v
      BY <2>2, <2>3, <2>4, <3>0, <3>1 DEF Mine
    <3>2. CASE w # v
      BY <2>2, <2>3, <2>4, <3>0, <3>2 DEF Mine
    <3> QED BY <3>1, <3>2
  <2> QED BY <2>2, <2>4, <2>5, <2>6, BooksKept
<1>14. CASE ReadUsage(a)
  <2> DEFINE v == app[a].wiki
  <2>1. v \in Wikis /\ UNCHANGED <<app, use, persisted, lost, answered, mishaps>>
        /\ reading' = [reading EXCEPT ![a] = persisted[v]]
    BY <1>14 DEF ReadUsage, Placed, Answering
  <2>2. persisted[v] + use[a].tally <= answered[v]
    <3>1. Held(v) \in [Apps -> Nat] /\ Held(v)[a] = use[a].tally + use[a].hand
      BY DEF Held, VariablesTyped, Usages
    <3>2. InMemory(v) \in Nat /\ Held(v)[a] <= InMemory(v)
      BY <3>1, ServerApps, SumIsNat, SumAtLeast DEF InMemory
    <3>3. answered[v] = persisted[v] + InMemory(v) + lost[v]
      BY <2>1 DEF EveryCallIsCounted
    <3>4. persisted[v] \in Nat /\ lost[v] \in Nat /\ use[a].tally \in Nat /\ use[a].hand \in Nat
      BY <1>0, <2>1 DEF VariablesTyped, Usages
    <3> QED BY <3>1, <3>2, <3>3, <3>4
  <2>3. ASSUME NEW w \in Wikis
        PROVE  /\ answered'[w] = persisted'[w] + InMemory(w)' + lost'[w]
               /\ mishaps' = 0 => lost'[w] = 0
    BY <2>1 DEF EveryCallIsCounted, InMemory, Held
  <2>4. ASSUME NEW w \in Wikis, NEW c \in Apps, app'[c].wiki = w, reading'[c] # None
        PROVE  reading'[c] + use'[c].tally <= answered'[w]
    BY <1>0, <2>1, <2>2, <2>4 DEF EveryCallIsCounted
  <2> QED BY <2>3, <2>4 DEF EveryCallIsCounted
<1>15. CASE MergeUsage(a)
  <2>1. UNCHANGED <<app, use, persisted, lost, answered, mishaps>>
        /\ reading' = [reading EXCEPT ![a] = None]
    BY <1>15 DEF MergeUsage
  <2>2. ASSUME NEW w \in Wikis
        PROVE  /\ answered'[w] = persisted'[w] + InMemory(w)' + lost'[w]
               /\ mishaps' = 0 => lost'[w] = 0
    BY <2>1 DEF EveryCallIsCounted, InMemory, Held
  <2>3. ASSUME NEW w \in Wikis, NEW c \in Apps, app'[c].wiki = w, reading'[c] # None
        PROVE  reading'[c] + use'[c].tally <= answered'[w]
    BY <1>0, <2>1, <2>3 DEF EveryCallIsCounted
  <2> QED BY <2>2, <2>3 DEF EveryCallIsCounted
<1>16. CASE Halt(a)
  <2>1. \A c \in Apps : Aside(c)
    BY <1>0, <1>16 DEF Halt, Aside, Keeps, Processes
  <2>2. UNCHANGED <<persisted, lost, answered>> /\ (mishaps' = mishaps \/ mishaps' = mishaps + 1)
    BY <1>16 DEF Halt
  <2> QED BY <2>1, <2>2, NothingMoves
<1>17. CASE Withdraw(a)
  <2>1. \A c \in Apps : Aside(c)
    BY <1>0, <1>17 DEF Withdraw, Aside, Keeps, Processes
  <2>2. UNCHANGED <<persisted, lost, answered>> /\ (mishaps' = mishaps \/ mishaps' = mishaps + 1)
    BY <1>17 DEF Withdraw
  <2> QED BY <2>1, <2>2, NothingMoves
<1>18. CASE Served(a)
  <2>1. \A c \in Apps : Aside(c)
    BY <1>0, <1>18 DEF Served, Aside, Keeps, Processes
  <2>2. UNCHANGED <<persisted, lost, answered>> /\ (mishaps' = mishaps \/ mishaps' = mishaps + 1)
    BY <1>18 DEF Served
  <2> QED BY <2>1, <2>2, NothingMoves
<1>19. CASE FinalDrain(a)
  <2>1. \A c \in Apps : app'[c].wiki = app[c].wiki
    BY <1>0, <1>19 DEF FinalDrain, Processes
  <2> QED BY <1>11, <1>19, <2>1 DEF FinalDrain, FlusherOver, Drains
<1>20. CASE ShutDown(a)
  <2>1. app[a].at = "flushing" /\ use[a].hand = 0 /\ use[a].tally = 0 /\ reading[a] = None
    BY <1>20 DEF ShutDown, CountsFit
  <2>2. /\ \A c \in Apps \ {a} : app'[c] = app[c] /\ use'[c] = use[c] /\ reading'[c] = reading[c]
        /\ use'[a] = Idle /\ reading'[a] = None
    BY <1>0, <1>20 DEF ShutDown
  <2>3. lost' = lost /\ UNCHANGED <<persisted, answered, mishaps>>
    <3>1. lost' = [lost EXCEPT ![app[a].wiki] = lost[app[a].wiki] + 0]
      BY <1>20, <2>1 DEF ShutDown
    <3>2. app[a].wiki \in Wikis
      BY <2>1 DEF Placed
    <3>3. lost[app[a].wiki] + 0 = lost[app[a].wiki]
      BY <3>2 DEF VariablesTyped
    <3>4. lost' = lost
      BY <3>1, <3>3 DEF VariablesTyped
    <3> QED BY <1>20, <3>4 DEF ShutDown
  <2>4. \A c \in Apps : Aside(c)
    BY <2>1, <2>2 DEF Aside, Keeps, Empty, Idle
  <2> QED BY <2>3, <2>4, NothingMoves
<1>21. CASE StopAgain(a)
  BY <1>21, GoneKeeps DEF StopAgain, Stopping
<1>22. CASE ServingFails(a)
  BY <1>22, GoneKeeps DEF ServingFails
<1>23. CASE Crash(a)
  BY <1>23, GoneKeeps DEF Crash
<1> QED BY <1>1, <1>2, <1>3, <1>4, <1>5, <1>6, <1>7, <1>8, <1>9, <1>10, <1>12, <1>13, <1>14,
           <1>15, <1>16, <1>17, <1>18, <1>19, <1>20, <1>21, <1>22, <1>23 DEF AppStep

-----------------------------------------------------------------------------
(* The theorems.                                                             *)

\* The invariant holds at first,
LEMMA Initially == Init => IInv
<1> SUFFICES ASSUME Init PROVE IInv
  OBVIOUS
<1>1. VariablesTyped /\ PortsApart /\ Placed /\ CountsFit
  BY TypesInitially
<1>2. ASSUME NEW w \in Wikis
      PROVE  /\ answered[w] = persisted[w] + InMemory(w) + lost[w]
             /\ lost[w] = 0
  <2>1. Held(w) \in [Apps -> Nat] /\ \A a \in Apps : Held(w)[a] = 0
    BY DEF Init, Held, Idle
  <2>2. InMemory(w) = 0
    BY <2>1, ServerApps, SumOfZeros DEF InMemory
  <2> QED BY <2>2 DEF Init
<1>3. EveryCallIsCounted
  BY <1>2 DEF EveryCallIsCounted, Init
<1>4. EndpointsAreTrue
  BY DEF EndpointsAreTrue, Init
<1> QED BY <1>1, <1>3, <1>4 DEF IInv, TypeOK

\* and every step keeps it.
LEMMA IInvStep == IInv /\ [Next]_vars => IInv'
<1> SUFFICES ASSUME IInv, [Next]_vars PROVE IInv'
  OBVIOUS
<1> USE DEF IInv, TypeOK
<1>1. ASSUME NEW a \in Apps, AppStep(a) PROVE IInv'
  <2>1. VariablesTyped'
    BY <1>1, TypesStep
  <2> QED BY <1>1, <2>1, CountsFitStep, EndpointsStep, BooksStep
<1>2. CASE UNCHANGED vars
  <2>1. VariablesTyped' /\ PortsApart' /\ Placed' /\ CountsFit' /\ EndpointsAreTrue'
    BY <1>2 DEF vars, VariablesTyped, PortsApart, Placed, CountsFit, EndpointsAreTrue
  <2>2. EveryCallIsCounted'
    BY <1>2 DEF vars, EveryCallIsCounted, InMemory, Held
  <2> QED BY <2>1, <2>2
<1>3. CASE Next
  BY <1>1, <1>3 DEF Next, AppStep
<1> QED BY <1>2, <1>3

\* So it always holds.
LEMMA Inductive == Spec => []IInv
BY Initially, IInvStep, PTL DEF Spec

\* The variables have their types and no two processes ever listen on one port.
THEOREM ServerTypeOK == Spec => []TypeOK
BY Inductive, PTL DEF IInv

\* Every answered call is counted once, wherever it is, and no reader counts one twice.
THEOREM CallsAreCounted == Spec => []EveryCallIsCounted
BY Inductive, PTL DEF IInv

\* An endpoint file names a server of its wiki that answers, as long as no
\* process was killed and no write was refused.
THEOREM EndpointFilesAreTrue == Spec => []EndpointsAreTrue
BY Inductive, PTL DEF IInv
=============================================================================
