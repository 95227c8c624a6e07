----------------------------- MODULE Modules_proofs -----------------------------
(***************************************************************************)
(* Theorems about Modules: whatever the number of modules and events, the   *)
(* libraries and what their modules do, the registries of events and the    *)
(* vectors of the loaders stay exact.                                       *)
(***************************************************************************)
EXTENDS Modules, SequenceTheorems, TLAPS

\* Where the registries, the loaders and the threads take their values.
Types ==
    /\ life \in [Module -> {"unborn", "loaded", "deleted"}]
    /\ loader \in [Module -> Loader \cup {Nobody}]
    /\ modules \in [Loader -> Seq(Module)]
    /\ events \in [Module -> SUBSET Event]
    /\ kind \in [Event -> {"unborn", "gone", "timer", "socket", "listener", "lookup"}]
    /\ owner \in [Event -> Module \cup {Nobody}]
    /\ maker \in [Event -> Module \cup {Nobody}]

\* What no action disturbs that makes, deletes or starts nothing.
Kept == UNCHANGED <<life, loader, modules, events, kind, owner, maker>>

--------------------------------------------------------------------------------
(* A vector without one of its elements *)

LEMMA AfterK ==
    ASSUME NEW S, NEW s, NEW n \in Nat, NEW k \in 1 .. n, \A i \in 1 .. n : s[i] \in S
    PROVE  /\ SubSeq(s, k + 1, n) \in Seq(S)
           /\ Len(SubSeq(s, k + 1, n)) = n - k
           /\ \A i \in 1 .. n - k : SubSeq(s, k + 1, n)[i] = s[k + i]
<1>1. /\ SubSeq(s, k + 1, n) \in Seq(S)
      /\ Len(SubSeq(s, k + 1, n)) = IF k + 1 <= n THEN n - (k + 1) + 1 ELSE 0
      /\ \A i \in 1 .. n - (k + 1) + 1 : SubSeq(s, k + 1, n)[i] = s[(k + 1) + i - 1]
  BY SubSeqProperties
<1>2. n - (k + 1) + 1 = n - k /\ k <= n /\ n \in Nat /\ k \in Nat
  OBVIOUS
<1>3. ASSUME NEW i \in 1 .. n - k PROVE SubSeq(s, k + 1, n)[i] = s[k + i]
  <2>1. (k + 1) + i - 1 = k + i
    BY <1>2
  <2>2. QED
    BY <1>1, <1>2, <2>1
<1>4. QED
  BY <1>1, <1>2, <1>3

LEMMA Removed ==
    ASSUME NEW S, NEW s \in Seq(S), NEW k \in 1 .. Len(s), IsInjective(s)
    PROVE  /\ RemoveAt(s, k) \in Seq(S)
           /\ IsInjective(RemoveAt(s, k))
           /\ Range(RemoveAt(s, k)) = Range(s) \ {s[k]}
<1> DEFINE t == RemoveAt(s, k)
<1>1. /\ t \in Seq(S)
      /\ Len(t) = Len(s) - 1
      /\ \A i \in 1 .. Len(s) - 1 : t[i] = IF i < k THEN s[i] ELSE s[i + 1]
  <2> DEFINE a == SubSeq(s, 1, k - 1)
             b == SubSeq(s, k + 1, Len(s))
  <2>1. /\ Len(s) \in Nat /\ s \in [1 .. Len(s) -> S] /\ k \in Nat
    OBVIOUS
  <2>2. /\ a \in Seq(S) /\ Len(a) = k - 1
        /\ \A i \in 1 .. k - 1 : a[i] = s[i]
    <3>1. \A i \in 1 .. k - 1 : s[i] \in S
      BY <2>1
    <3>2. /\ a \in Seq(S) /\ Len(a) = IF 1 <= k - 1 THEN (k - 1) - 1 + 1 ELSE 0
          /\ \A i \in 1 .. (k - 1) - 1 + 1 : a[i] = s[1 + i - 1]
      BY <2>1, <3>1, SubSeqProperties
    <3>3. QED
      BY <2>1, <3>2
  <2>3. /\ b \in Seq(S) /\ Len(b) = Len(s) - k
        /\ \A i \in 1 .. Len(s) - k : b[i] = s[k + i]
    <3>1. Len(s) \in Nat /\ \A i \in 1 .. Len(s) : s[i] \in S
      BY <2>1
    <3>2. QED
      BY <3>1, AfterK
  <2>4. t = a \o b
    BY DEF RemoveAt
  <2> HIDE DEF t, a, b
  <2>5. /\ t \in Seq(S) /\ Len(t) = Len(s) - 1
        /\ \A i \in 1 .. Len(s) - 1 : t[i] = IF i <= k - 1 THEN a[i] ELSE b[i - (k - 1)]
    <3>1. /\ a \o b \in Seq(S) /\ Len(a \o b) = Len(a) + Len(b)
          /\ \A i \in 1 .. Len(a) + Len(b) :
                (a \o b)[i] = IF i <= Len(a) THEN a[i] ELSE b[i - Len(a)]
      BY <2>2, <2>3, ConcatProperties
    <3>2. QED
      BY <2>1, <2>2, <2>3, <2>4, <3>1
  <2>6. QED
    BY <2>1, <2>2, <2>3, <2>5
<1> HIDE DEF t
<1>2. DOMAIN t = 1 .. Len(s) - 1 /\ DOMAIN s = 1 .. Len(s) /\ Len(s) \in Nat
  BY <1>1
<1>3. IsInjective(t)
  <2>1. \A p, q \in 1 .. Len(s) : s[p] = s[q] => p = q
    BY <1>2 DEF IsInjective
  <2>2. ASSUME NEW p \in 1 .. Len(s) - 1, NEW q \in 1 .. Len(s) - 1, t[p] = t[q]
        PROVE  p = q
    BY <1>1, <1>2, <2>1, <2>2
  <2>3. QED
    BY <1>2, <2>2 DEF IsInjective
<1>4. ASSUME NEW x \in Range(t) PROVE x \in Range(s) /\ x # s[k]
  BY <1>1, <1>2, <1>4 DEF IsInjective, Range
<1>5. ASSUME NEW x \in Range(s), x # s[k] PROVE x \in Range(t)
  <2>1. PICK j \in 1 .. Len(s) : s[j] = x
    BY <1>2 DEF Range
  <2>2. CASE j < k
    BY <1>1, <1>2, <2>1, <2>2 DEF Range
  <2>3. CASE j > k
    <3>1. j - 1 \in 1 .. Len(s) - 1 /\ t[j - 1] = x
      BY <1>1, <1>2, <2>1, <2>3
    <3>2. QED
      BY <1>2, <3>1 DEF Range
  <2>4. QED
    BY <1>5, <2>1, <2>2, <2>3
<1>6. QED
  BY <1>1, <1>3, <1>4, <1>5 DEF t

LEMMA Appended ==
    ASSUME NEW S, NEW s \in Seq(S), NEW x \in S, IsInjective(s), x \notin Range(s)
    PROVE  IsInjective(Append(s, x)) /\ Range(Append(s, x)) = Range(s) \cup {x}
<1> DEFINE t == Append(s, x)
<1>1. /\ Len(s) \in Nat /\ DOMAIN s = 1 .. Len(s) /\ DOMAIN t = 1 .. Len(s) + 1
      /\ \A i \in 1 .. Len(s) : t[i] = s[i]
      /\ t[Len(s) + 1] = x
  OBVIOUS
<1> HIDE DEF t
<1>2. \A i \in 1 .. Len(s) : s[i] # x
  BY <1>1 DEF Range
<1>3. IsInjective(t)
  <2>1. \A p, q \in 1 .. Len(s) : s[p] = s[q] => p = q
    BY <1>1 DEF IsInjective
  <2>2. ASSUME NEW p \in 1 .. Len(s) + 1, NEW q \in 1 .. Len(s) + 1, t[p] = t[q]
        PROVE  p = q
    BY <1>1, <1>2, <2>1, <2>2
  <2>3. QED
    BY <1>1, <2>2 DEF IsInjective
<1>4. Range(t) = Range(s) \cup {x}
  BY <1>1 DEF Range
<1>5. QED
  BY <1>3, <1>4 DEF t

--------------------------------------------------------------------------------
(* What goes with a module that is unloaded *)

\* The modules of a loader that is deleted are deleted, and a module that is
\* deleted with others is in the vector of one of these.
LEMMA DoomedClosed ==
    ASSUME NEW i \in Module, \A m \in Module : Range(modules[m]) \subseteq Module
    PROVE  /\ i \in Doomed(i) /\ Doomed(i) \subseteq Module
           /\ \A m \in Doomed(i) : Range(modules[m]) \subseteq Doomed(i)
           /\ \A j \in Doomed(i) \ {i} : \E m \in Doomed(i) : j \in Range(modules[m])
<1> DEFINE Closed(D) == i \in D /\ \A m \in D : Range(modules[m]) \subseteq D
<1>1. Doomed(i) = {j \in Module : \A D \in SUBSET Module : Closed(D) => j \in D}
  BY DEF Doomed
<1>2. i \in Doomed(i) /\ Doomed(i) \subseteq Module
  BY <1>1
<1>3. ASSUME NEW m \in Doomed(i), NEW j \in Range(modules[m])
      PROVE  j \in Doomed(i)
  <2>1. ASSUME NEW D \in SUBSET Module, Closed(D) PROVE j \in D
    BY <1>1, <1>3, <2>1
  <2>2. QED
    BY <1>1, <1>3, <2>1
<1>4. ASSUME NEW j \in Doomed(i), j # i, \A m \in Doomed(i) : j \notin Range(modules[m])
      PROVE  FALSE
  <2> DEFINE D == Doomed(i) \ {j}
  <2>1. D \in SUBSET Module /\ j \notin D /\ i \in D
    BY <1>2, <1>4
  <2>2. \A m \in D : Range(modules[m]) \subseteq D
    BY <1>3, <1>4
  <2>3. Closed(D)
    BY <2>1, <2>2
  <2>4. QED
    BY <1>1, <1>4, <2>1, <2>3
<1>5. QED
  BY <1>2, <1>3, <1>4

--------------------------------------------------------------------------------
(* What a step does to the loaders and the registries *)

Made ==
    \E e \in Event, k \in {"timer", "socket", "listener", "lookup"},
       i \in Module \cup {Nobody}, m \in Module \cup {Nobody} :
        Create(e, k, i, m) /\ (i # Nobody => life[i] = "loaded")
Destroyed == \E e \in Event : Destroy(e) /\ Live(e) /\ UNCHANGED loaders
Loaded ==
    \E l \in Loader, i \in Module : \E p :
        Instantiate(l, p, i) /\ (l # Global => life[l] = "loaded")
Unloaded == \E l \in Loader : \E name : Unload(l, name)
Ended == \E how : Gone(how)

LEMMA Steps ==
    ASSUME Types, Next
    PROVE  Kept \/ Made \/ Destroyed \/ Loaded \/ Unloaded \/ Ended
<1> USE DEF loaders, registry, signals
<1>1. CASE Loop
  <2>1. ASSUME NEW p \in Paths, GlobalLoadModule(p) PROVE Loaded
    BY <2>1 DEF GlobalLoadModule, Loaded, Loader
  <2>2. ASSUME NEW p \in Paths, GlobalUnloadModule(ModName[p]) PROVE Unloaded
    BY <2>2 DEF GlobalUnloadModule, Unloaded, Loader
  <2>3. ASSUME NEW l \in Module, NEW p \in Paths, SubModuleLoad(l, p) PROVE Loaded
    BY <2>3 DEF SubModuleLoad, Loaded, Loader
  <2>4. ASSUME NEW l \in Module, NEW p \in Paths, SubModuleUnload(l, ModName[p])
        PROVE  Unloaded
    BY <2>4 DEF SubModuleUnload, Unloaded, Loader
  <2>5. ASSUME NEW i \in Module, ModuleInternalApiCall(i) PROVE Kept
    BY <2>5 DEF ModuleInternalApiCall, Kept
  <2>6. CASE CleanUpInterData
    BY <2>6 DEF CleanUpInterData, Kept, Ended
  <2>7. ASSUME NEW i \in Module, NEW k \in {"timer", "listener", "lookup"}, NewEvent(i, k)
        PROVE  Made
    BY <2>7 DEF NewEvent, Made
  <2>8. ASSUME NEW e \in Event, DeleteEvent(e) PROVE Destroyed
    BY <2>8 DEF DeleteEvent, Destroyed
  <2>9. ASSUME NEW e \in Event, Accept(e) PROVE Made
    <3>1. maker[e] \in Module \cup {Nobody}
      BY DEF Types
    <3>2. QED
      BY <2>9, <3>1 DEF Accept, Made
  <2>10. ASSUME NEW e \in Event, StrayCallback(e) PROVE Ended
    BY <2>10 DEF StrayCallback, Ended
  <2>11. ASSUME NEW e \in Event, Resolve(e) PROVE Kept
    BY <2>11 DEF Resolve, Kept
  <2>12. ASSUME NEW e \in Event, DNSEventCallback(e) PROVE Destroyed \/ Ended
    BY <2>12 DEF DNSEventCallback, Destroyed, Ended, Live
  <2>13. QED
    BY <1>1, <2>1, <2>2, <2>3, <2>4, <2>5, <2>6, <2>7, <2>8, <2>9, <2>10, <2>11, <2>12
    DEF Loop
<1>2. CASE Threads
  BY <1>2 DEF Threads, Run, Crash, Caught, ThreadEnds, Kept, Ended
<1>3. CASE OnRead
  BY <1>3 DEF OnRead, Kept, Unloaded, Ended, Loader
<1>4. CASE Reload
  <2>1. CASE UNCHANGED <<loaders, registry, request, handle, thread, process>>
    BY <2>1 DEF Kept
  <2>2. ASSUME NEW i \in Module, Instantiate(Global, reloading, i) PROVE Loaded \/ Kept
    BY <2>2 DEF Loaded, Loader
  <2>3. QED
    BY <1>4, <2>1, <2>2 DEF Reload
<1>5. QED
  BY <1>1, <1>2, <1>3, <1>4 DEF Next

--------------------------------------------------------------------------------
(* The registries *)

LEMMA RegistryInit == Init => Types /\ RegistryExact
<1>1. \A S : <<>> \in Seq(S)
  OBVIOUS
<1>2. QED
  BY <1>1 DEF Init, Types, RegistryExact, Live

\* How one unloading changes the registries and the loaders.
LEMMA UnloadEffect ==
    ASSUME Types, NEW l \in Loader, NEW name, Unload(l, name)
    PROVE  \E k \in 1 .. Len(modules[l]) : \E G \in SUBSET Module :
              /\ modules[l][k] \in Module /\ G = Doomed(modules[l][k])
              /\ life' = [i \in Module |-> IF i \in G THEN "deleted" ELSE life[i]]
              /\ loader' = [i \in Module |-> IF i \in G THEN Nobody ELSE loader[i]]
              /\ modules' = [m \in Loader |-> IF m \in G THEN <<>>
                                              ELSE IF m = l THEN RemoveAt(modules[l], k)
                                              ELSE modules[m]]
              /\ DeleteEvents(G)
<1>1. modules[l] \in Seq(Module)
  BY DEF Types
<1>2. PICK k \in Named(l, name) :
        /\ life' = [i \in Module |-> IF i \in Doomed(modules[l][k]) THEN "deleted" ELSE life[i]]
        /\ loader' = [i \in Module |-> IF i \in Doomed(modules[l][k]) THEN Nobody ELSE loader[i]]
        /\ modules' = [m \in Loader |-> IF m \in Doomed(modules[l][k]) THEN <<>>
                                        ELSE IF m = l THEN RemoveAt(modules[l], k)
                                        ELSE modules[m]]
        /\ DeleteEvents(Doomed(modules[l][k]))
  BY DEF Unload
<1>3. k \in 1 .. Len(modules[l]) /\ modules[l][k] \in Module
  BY <1>1 DEF Named
<1>4. Doomed(modules[l][k]) \in SUBSET Module
  BY DEF Doomed
<1>5. QED
  BY <1>2, <1>3, <1>4

LEMMA RegistryNext == Types /\ RegistryExact /\ [Next]_vars => RegistryExact'
<1> SUFFICES ASSUME Types, RegistryExact, [Next]_vars PROVE RegistryExact'
  OBVIOUS
<1> USE ModulesAssumption
<1>1. CASE Kept
  BY <1>1 DEF Kept, RegistryExact, Live
<1>2. CASE Made
  <2>1. PICK e \in Event, k \in {"timer", "socket", "listener", "lookup"},
             i \in Module \cup {Nobody}, m \in Module \cup {Nobody} :
                Create(e, k, i, m) /\ (i # Nobody => life[i] = "loaded")
    BY <1>2 DEF Made
  <2>2. /\ kind[e] = "unborn" /\ life' = life
        /\ kind' = [kind EXCEPT ![e] = k] /\ owner' = [owner EXCEPT ![e] = i]
        /\ events' = IF i = Nobody THEN events ELSE [events EXCEPT ![i] = @ \cup {e}]
    BY <2>1 DEF Create, loaders
  <2>3. \A j \in Module : e \notin events[j]
    BY <2>2 DEF RegistryExact, Live
  <2>4. QED
    BY <2>1, <2>2, <2>3 DEF RegistryExact, Live, Types
<1>3. CASE Destroyed
  <2>1. PICK e \in Event : Destroy(e) /\ Live(e) /\ UNCHANGED loaders
    BY <1>3 DEF Destroyed
  <2>2. QED
    BY <2>1 DEF Destroy, loaders, RegistryExact, Live, Types
<1>4. CASE Loaded
  BY <1>4 DEF Loaded, Instantiate, registry, RegistryExact, Live, Types
<1>5. CASE Unloaded
  <2>1. PICK G \in SUBSET Module :
          /\ life' = [i \in Module |-> IF i \in G THEN "deleted" ELSE life[i]]
          /\ DeleteEvents(G)
    BY <1>5, UnloadEffect DEF Unloaded
  <2> DEFINE E == UNION {events[i] : i \in G}
  <2>2. /\ kind' = [e \in Event |-> IF e \in E THEN "gone" ELSE kind[e]]
        /\ events' = [i \in Module |-> IF i \in G THEN {} ELSE events[i]]
        /\ owner' = [e \in Event |-> IF e \in E THEN Nobody ELSE owner[e]]
    BY <2>1 DEF DeleteEvents
  <2>3. \A e \in Event : e \in E <=> \E i \in G : e \in events[i]
    OBVIOUS
  <2> HIDE DEF E
  <2>4. ASSUME NEW e \in Event, e \in E PROVE ~Live(e)' /\ \A i \in Module : e \notin events'[i]
    BY <2>2, <2>3, <2>4 DEF RegistryExact, Live
  <2>5. ASSUME NEW e \in Event, e \notin E
        PROVE  /\ \A i \in Module : e \in events'[i] <=> Live(e)' /\ owner'[e] = i
               /\ Live(e)' /\ owner'[e] # Nobody => life'[owner'[e]] = "loaded"
    <3>1. Live(e)' = Live(e) /\ owner'[e] = owner[e]
      BY <2>2, <2>5 DEF Live
    <3>2. Live(e) => owner[e] \notin G
      BY <2>3, <2>5 DEF RegistryExact, Types
    <3>3. QED
      BY <2>1, <2>2, <3>1, <3>2 DEF RegistryExact, Types
  <2>6. QED
    BY <2>4, <2>5 DEF RegistryExact
<1>6. CASE Ended
  BY <1>6 DEF Ended, Gone, RegistryExact, Live
<1>7. CASE UNCHANGED vars
  BY <1>7 DEF vars, RegistryExact, Live
<1>8. QED
  BY <1>1, <1>2, <1>3, <1>4, <1>5, <1>6, <1>7, Steps

--------------------------------------------------------------------------------
(* The loaders *)

LEMMA LoadersInit == Init => LoadedIsListed
<1>1. IsInjective(<<>>) /\ Range(<<>>) = {}
  BY DEF IsInjective, Range
<1>2. ASSUME Init, NEW l \in Loader PROVE modules[l] = <<>>
  BY <1>2 DEF Init
<1>3. ASSUME Init, NEW i \in Module PROVE life[i] = "unborn" /\ i \in Loader
  BY <1>3 DEF Init, Loader
<1>4. QED
  BY <1>1, <1>2, <1>3 DEF LoadedIsListed

\* A module gone, those of its SubModuleLoader gone with it, each vector keeps
\* exactly what is left of it.
LEMMA UnloadedListed ==
    ASSUME Types, LoadedIsListed, Unloaded
    PROVE  /\ LoadedIsListed'
           /\ modules' \in [Loader -> Seq(Module)]
<1>1. PICK l \in Loader : \E name : Unload(l, name)
  BY DEF Unloaded
<1>2. PICK k \in 1 .. Len(modules[l]) : \E G \in SUBSET Module :
        /\ modules[l][k] \in Module /\ G = Doomed(modules[l][k])
        /\ life' = [i \in Module |-> IF i \in G THEN "deleted" ELSE life[i]]
        /\ loader' = [i \in Module |-> IF i \in G THEN Nobody ELSE loader[i]]
        /\ modules' = [m \in Loader |-> IF m \in G THEN <<>>
                                        ELSE IF m = l THEN RemoveAt(modules[l], k)
                                        ELSE modules[m]]
  BY <1>1, UnloadEffect
<1> DEFINE x == modules[l][k]
           G == Doomed(x)
<1>3. /\ x \in Module
      /\ life' = [i \in Module |-> IF i \in G THEN "deleted" ELSE life[i]]
      /\ loader' = [i \in Module |-> IF i \in G THEN Nobody ELSE loader[i]]
      /\ modules' = [m \in Loader |-> IF m \in G THEN <<>>
                                      ELSE IF m = l THEN RemoveAt(modules[l], k)
                                      ELSE modules[m]]
  BY <1>2
<1>4. \A m \in Loader : modules[m] \in Seq(Module) /\ IsInjective(modules[m])
  BY DEF Types, LoadedIsListed
<1>5. \A m \in Loader : Range(modules[m]) \subseteq Module
  BY <1>4, RangeOfSeq
<1>6. /\ x \in G /\ G \subseteq Module
      /\ \A m \in G : Range(modules[m]) \subseteq G
      /\ \A j \in G \ {x} : \E m \in G : j \in Range(modules[m])
  BY <1>3, <1>5, DoomedClosed DEF Loader
<1>7. x \in Range(modules[l])
  <2>1. k \in DOMAIN modules[l]
    BY <1>4
  <2>2. QED
    BY <2>1 DEF Range
<1>8. LET t == RemoveAt(modules[l], k)
      IN t \in Seq(Module) /\ IsInjective(t) /\ Range(t) = Range(modules[l]) \ {x}
  BY <1>4, Removed
<1> HIDE DEF x, G
<1>9. /\ IsInjective(<<>>) /\ Range(<<>>) = {} /\ <<>> \in Seq(Module)
  BY DEF IsInjective, Range
<1>10. \A m \in Loader :
         /\ modules'[m] \in Seq(Module) /\ IsInjective(modules'[m])
         /\ Range(modules'[m]) = IF m \in G THEN {}
                                 ELSE IF m = l THEN Range(modules[m]) \ {x}
                                 ELSE Range(modules[m])
  BY <1>3, <1>4, <1>8, <1>9
<1>11. \A m \in Loader, i \in Module :
         i \in Range(modules[m]) <=> life[i] = "loaded" /\ loader[i] = m
  BY DEF LoadedIsListed
<1>12. ASSUME NEW m \in Loader, NEW i \in Module
       PROVE  i \in Range(modules'[m]) <=> life'[i] = "loaded" /\ loader'[i] = m
  <2>1. CASE i \notin G
    <3>1. life'[i] = life[i] /\ loader'[i] = loader[i] /\ i # x
      BY <1>3, <1>6, <2>1
    <3>2. m \in G => i \notin Range(modules[m])
      BY <1>6, <2>1
    <3>3. i \in Range(modules'[m]) <=> i \in Range(modules[m])
      BY <1>10, <3>1, <3>2
    <3>4. i \in Range(modules[m]) <=> life[i] = "loaded" /\ loader[i] = m
      BY <1>11
    <3>5. QED
      BY <3>1, <3>3, <3>4
  <2>2. CASE i \in G
    <3>1. life'[i] = "deleted"
      BY <1>3, <2>2
    <3>2. CASE i = x
      <4>1. m # l => i \notin Range(modules[m])
        BY <1>7, <1>11, <3>2
      <4>2. QED
        BY <1>10, <3>1, <3>2, <4>1
    <3>3. CASE i # x
      <4>1. PICK h \in G : i \in Range(modules[h])
        BY <1>6, <2>2, <3>3
      <4>2. h \in Loader
        BY <1>6 DEF Loader
      <4>3. m \notin G => i \notin Range(modules[m])
        BY <1>11, <4>1, <4>2
      <4>4. QED
        BY <1>10, <3>1, <4>3
    <3>4. QED
      BY <3>2, <3>3
  <2>3. QED
    BY <2>1, <2>2
<1>13. ASSUME NEW m \in Module, modules'[m] # <<>> PROVE life'[m] = "loaded"
  <2>1. m \in Loader /\ m \notin G
    BY <1>3, <1>13 DEF Loader
  <2>2. modules[m] # <<>>
    <3>1. m = l => x \in Range(modules[m])
      BY <1>7
    <3>2. m # l => modules'[m] = modules[m]
      BY <1>3, <2>1
    <3>3. QED
      BY <1>9, <1>13, <3>1, <3>2
  <2>3. QED
    BY <1>3, <2>1, <2>2 DEF LoadedIsListed
<1>14. modules' \in [Loader -> Seq(Module)]
  BY <1>3, <1>10
<1>15. QED
  BY <1>10, <1>12, <1>13, <1>14 DEF LoadedIsListed

LEMMA LoadersNext == Types /\ LoadedIsListed /\ [Next]_vars => LoadedIsListed'
<1> SUFFICES ASSUME Types, LoadedIsListed, [Next]_vars PROVE LoadedIsListed'
  OBVIOUS
<1>1. CASE UNCHANGED <<life, loader, modules>>
  BY <1>1 DEF LoadedIsListed
<1>2. CASE Loaded
  <2>1. PICK l \in Loader, i \in Module : \E p :
               Instantiate(l, p, i) /\ (l # Global => life[l] = "loaded")
    BY <1>2 DEF Loaded
  <2>2. /\ life[i] = "unborn" /\ life' = [life EXCEPT ![i] = "loaded"]
        /\ loader' = [loader EXCEPT ![i] = l]
        /\ modules' = [modules EXCEPT ![l] = Append(@, i)]
    BY <2>1 DEF Instantiate
  <2>3. \A m \in Loader : modules[m] \in Seq(Module) /\ IsInjective(modules[m])
    BY DEF Types, LoadedIsListed
  <2>4. \A m \in Loader : i \notin Range(modules[m])
    BY <2>2 DEF LoadedIsListed
  <2> DEFINE t == Append(modules[l], i)
  <2>5. IsInjective(t) /\ Range(t) = Range(modules[l]) \cup {i}
    BY <2>3, <2>4, Appended
  <2> HIDE DEF t
  <2>6. \A m \in Loader : modules'[m] = IF m = l THEN t ELSE modules[m]
    BY <2>2 DEF Types, t
  <2>7. ASSUME NEW m \in Loader PROVE IsInjective(modules'[m])
    BY <2>3, <2>5, <2>6
  <2>8. ASSUME NEW m \in Loader, NEW j \in Module
        PROVE  j \in Range(modules'[m]) <=> life'[j] = "loaded" /\ loader'[j] = m
    <3>1. CASE j = i
      BY <2>2, <2>4, <2>5, <2>6, <3>1 DEF Types
    <3>2. CASE j # i
      <4>1. j \in Range(modules'[m]) <=> j \in Range(modules[m])
        BY <2>5, <2>6, <3>2
      <4>2. life'[j] = life[j] /\ loader'[j] = loader[j]
        BY <2>2, <3>2 DEF Types
      <4>3. QED
        BY <4>1, <4>2 DEF LoadedIsListed
    <3>3. QED
      BY <3>1, <3>2
  <2>9. ASSUME NEW m \in Module, modules'[m] # <<>> PROVE life'[m] = "loaded"
    <3>1. m = l => life[m] = "loaded"
      BY <2>1, ModulesAssumption
    <3>2. m # l => life[m] = "loaded"
      BY <2>6, <2>9 DEF LoadedIsListed, Loader
    <3>3. QED
      BY <2>2, <3>1, <3>2 DEF Types
  <2>10. QED
    BY <2>7, <2>8, <2>9 DEF LoadedIsListed
<1>3. CASE Unloaded
  BY <1>3, UnloadedListed
<1>4. CASE Ended
  <2>1. PICK how : Gone(how)
    BY <1>4 DEF Ended
  <2>2. IsInjective(<<>>) /\ Range(<<>>) = {}
    BY DEF IsInjective, Range
  <2>3. /\ \A l \in Loader : modules'[l] = <<>>
        /\ \A i \in Module : life'[i] = "unborn" /\ i \in Loader
    BY <2>1 DEF Gone, Loader
  <2>4. QED
    BY <2>2, <2>3 DEF LoadedIsListed
<1>5. QED
  <2>1. Kept \/ Made \/ Destroyed => UNCHANGED <<life, loader, modules>>
    BY DEF Kept, Made, Destroyed, Create, loaders
  <2>2. UNCHANGED vars => UNCHANGED <<life, loader, modules>>
    BY DEF vars
  <2>3. QED
    BY <1>1, <1>2, <1>3, <1>4, <2>1, <2>2, Steps

--------------------------------------------------------------------------------
(* The theorems *)

LEMMA TypesNext == Types /\ LoadedIsListed /\ [Next]_vars => Types'
<1> SUFFICES ASSUME Types, LoadedIsListed, [Next]_vars PROVE Types'
  OBVIOUS
<1>1. CASE Kept \/ UNCHANGED vars
  BY <1>1 DEF Kept, vars, Types
<1>2. CASE Made
  BY <1>2 DEF Made, Create, loaders, Types
<1>3. CASE Destroyed
  BY <1>3 DEF Destroyed, Destroy, loaders, Types
<1>4. CASE Loaded
  <2>1. PICK l \in Loader, i \in Module : \E p : Instantiate(l, p, i)
    BY <1>4 DEF Loaded
  <2>2. modules' \in [Loader -> Seq(Module)]
    <3>1. modules[l] \in Seq(Module)
      BY DEF Types
    <3>2. Append(modules[l], i) \in Seq(Module)
      BY <3>1
    <3>3. QED
      BY <2>1, <3>2 DEF Instantiate, Types
  <2>3. QED
    BY <2>1, <2>2 DEF Instantiate, registry, Types
<1>5. CASE Unloaded
  <2>1. modules' \in [Loader -> Seq(Module)]
    BY <1>5, UnloadedListed
  <2>2. PICK G \in SUBSET Module :
          /\ life' = [i \in Module |-> IF i \in G THEN "deleted" ELSE life[i]]
          /\ loader' = [i \in Module |-> IF i \in G THEN Nobody ELSE loader[i]]
          /\ DeleteEvents(G)
    BY <1>5, UnloadEffect DEF Unloaded
  <2>3. QED
    BY <2>1, <2>2 DEF DeleteEvents, Types
<1>6. CASE Ended
  <2>1. <<>> \in Seq(Module)
    OBVIOUS
  <2>2. QED
    BY <1>6, <2>1 DEF Ended, Gone, Types
<1>7. QED
  BY <1>1, <1>2, <1>3, <1>4, <1>5, <1>6, Steps

LEMMA Inductive == Spec => [](Types /\ RegistryExact /\ LoadedIsListed)
<1>1. Init => Types /\ RegistryExact /\ LoadedIsListed
  BY RegistryInit, LoadersInit
<1>2. Types /\ RegistryExact /\ LoadedIsListed /\ [Next]_vars
        => (Types /\ RegistryExact /\ LoadedIsListed)'
  BY TypesNext, RegistryNext, LoadersNext
<1>3. QED
  BY <1>1, <1>2, PTL DEF Spec

\* No order of loading, unloading, making, deleting, accepting, looking up and
\* crashing leaves an event in the registry of a module that it is not of, or
\* out of that of its module (Event.cpp:25-34, Module.cpp:42-51, 87-98).
THEOREM EventsGoWithTheirModule == Spec => []RegistryExact
<1>1. QED
  BY Inductive, PTL

\* At any depth of submodules, a module is loaded exactly while it is once in
\* the vector of its loader, and its loader is loaded with it
\* (SubModuleLoader.cpp:33-39, 76-100).
THEOREM ModulesGoWithTheirLoader == Spec => []LoadedIsListed
<1>1. QED
  BY Inductive, PTL
================================================================================
