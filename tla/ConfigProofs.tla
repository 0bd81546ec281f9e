---------------------------- MODULE ConfigProofs ----------------------------
(***************************************************************************)
(* Proofs about Config, for any sources, values and numbers of setters     *)
(* called.                                                                 *)
(***************************************************************************)
EXTENDS Config, WellFoundedInduction, TLAPS

-----------------------------------------------------------------------------
(* Induction over the natural numbers, for sets instead of predicates. *)

LEMMA SetInduction ==
  ASSUME NEW T, 0 \in T, \A n \in Nat : n \in T => n + 1 \in T
  PROVE  Nat \subseteq T
<1> DEFINE R == OpToRel(<, Nat)
<1>1. IsWellFoundedOn(R, Nat)
  BY NatLessThanWellFounded
<1>2. \A x, y \in Nat : x < y => <<x, y>> \in R
  BY DEF OpToRel
<1> HIDE DEF R
<1> SUFFICES ASSUME Nat \ T # {} PROVE FALSE
  OBVIOUS
<1>3. PICK x \in Nat \ T : \A y \in Nat \ T : ~ (<<y, x>> \in R)
  BY <1>1, WFMin
<1>4. x \in Nat \ {0}
  BY <1>3
<1>5. x - 1 \in Nat /\ x - 1 < x /\ x - 1 + 1 = x
  BY <1>4
<1>6. x - 1 \in T
  BY <1>2, <1>3, <1>5
<1> QED
  BY <1>3, <1>5, <1>6

LEMMA IntervalInduction ==
  ASSUME NEW T, NEW a \in Nat, NEW b \in Nat,
         a \in T, \A n \in a..(b - 1) : n \in T => n + 1 \in T
  PROVE  a..b \subseteq T
<1> DEFINE U == {i \in Nat : a + i \in a..b => a + i \in T}
<1>1. 0 \in U
  OBVIOUS
<1>2. ASSUME NEW i \in Nat, i \in U PROVE i + 1 \in U
  <2> SUFFICES ASSUME a + i + 1 \in a..b PROVE a + i + 1 \in T
    OBVIOUS
  <2>1. a + i \in a..(b - 1)
    OBVIOUS
  <2> QED
    BY <1>2, <2>1
<1> HIDE DEF U
<1>3. Nat \subseteq U
  BY <1>1, <1>2, SetInduction
<1>4. ASSUME NEW n \in a..b PROVE n \in T
  <2>1. n - a \in Nat /\ a + (n - a) = n
    OBVIOUS
  <2> QED
    BY <1>3, <2>1 DEF U
<1> QED
  BY <1>4

-----------------------------------------------------------------------------
(* The order in which configure passes the options on. *)

LEMMA OrderProperties ==
  /\ Len(Order) = 15
  /\ Order[6] = "http1_only" /\ Order[7] = "http2_only"
  /\ Order[10] = "http2_adaptive_window"
  /\ \A n \in 1..15 : /\ Order[n] \in Settings
                      /\ Order[n] = "http1_only" <=> n = 6
                      /\ Order[n] = "http2_only" <=> n = 7
                      /\ Order[n] \in Windows <=> n \in {8, 9}
                      /\ Order[n] = "http2_adaptive_window" <=> n = 10
BY DEF Order, Settings, Address, Optional, Flags, Required, Windows

LEMMA OrderIsInjective == \A m, n \in 1..15 : Order[m] = Order[n] => m = n
BY DEF Order

\* No option but those of the listener and the pool is left out.
LEMMA OrderIsComplete == \A s \in Options : \E n \in 1..15 : Order[n] = s
BY DEF Order, Options, Settings, Address, Optional, Flags, Required, Windows

-----------------------------------------------------------------------------
(* Passed is the function its definition describes: there is one that fits *)
(* for the first n options, for every n.                                   *)

LEMMA PassedDefined ==
  /\ Passed[0] = NewHttp
  /\ \A n \in 1..15 : Passed[n] = PassIfSet(Passed[n - 1], Order[n])
<1> DEFINE Fits(f, k) == /\ f[0] = NewHttp
                         /\ \A n \in 1..k : f[n] = PassIfSet(f[n - 1], Order[n])
           T == {k \in Nat : \E f : Fits(f, k)}
           Def(f) == f = [n \in 0..Len(Order) |->
                            IF n = 0 THEN NewHttp ELSE PassIfSet(f[n - 1], Order[n])]
<1>1. 0 \in T
  <2> DEFINE f == [n \in {0} |-> NewHttp]
  <2> Fits(f, 0)
    OBVIOUS
  <2> QED
    OBVIOUS
<1>2. ASSUME NEW k \in Nat, k \in T PROVE k + 1 \in T
  <2>1. PICK f : Fits(f, k)
    BY <1>2
  <2> DEFINE g == [n \in 0..(k + 1) |->
                     IF n \in 0..k THEN f[n] ELSE PassIfSet(f[k], Order[k + 1])]
  <2>2. g[0] = NewHttp
    BY <2>1
  <2>3. ASSUME NEW n \in 1..(k + 1) PROVE g[n] = PassIfSet(g[n - 1], Order[n])
    <3>1. n - 1 \in 0..k /\ g[n - 1] = f[n - 1]
      OBVIOUS
    <3>2. CASE n \in 1..k
      BY <2>1, <3>1, <3>2
    <3>3. CASE n = k + 1
      BY <3>1, <3>3
    <3> QED
      BY <3>2, <3>3
  <2>4. Fits(g, k + 1)
    BY <2>2, <2>3
  <2> HIDE DEF g, Fits
  <2> QED
    BY <2>4
<1>3. Len(Order) \in T
  <2> HIDE DEF T
  <2> QED
    BY <1>1, <1>2, SetInduction, OrderProperties
<1>4. PICK f : Fits(f, Len(Order))
  BY <1>3
<1> DEFINE g == [n \in 0..Len(Order) |-> f[n]]
<1>5. Def(g)
  <2>1. ASSUME NEW n \in 0..Len(Order)
        PROVE  g[n] = IF n = 0 THEN NewHttp ELSE PassIfSet(g[n - 1], Order[n])
    BY <1>4, OrderProperties
  <2> QED
    BY <2>1
<1>6. Passed = CHOOSE h : Def(h)
  BY DEF Passed
<1>7. Def(Passed)
  <2> HIDE DEF Def
  <2> QED
    BY <1>5, <1>6
<1> QED
  BY <1>7, OrderProperties
-----------------------------------------------------------------------------
(* What becomes of Http on the way. *)

Modes == {"both", "http1", "http2"}
AnyValue == Values \cup {"on", "off", "unset", "default", "spec"}
AnyHttp == [mode : Modes, option : [Settings -> AnyValue]]

LEMMA NewHttpTyped == NewHttp \in AnyHttp
BY DEF NewHttp, Nothing, AnyHttp, Modes, AnyValue

LEMMA ServerTyped ==
  ASSUME TypeOK
  PROVE  \A s \in Settings : server[s] \in AnyValue
BY DEF TypeOK, ValuesOf, AnyValue

\* One option: the types stay, two options alone have to do with the mode, and what
\* an option is set to stays unless it is passed on itself, or is one of the three
\* that hyper keeps in step.
LEMMA PassEffect ==
  ASSUME NEW h \in AnyHttp, NEW s \in Settings, NEW v \in AnyValue
  PROVE  /\ Pass(h, s, v) \in AnyHttp
         /\ s \notin {"http1_only", "http2_only"} => Pass(h, s, v).mode = h.mode
         /\ s = "http1_only" =>
              Pass(h, s, v).mode = IF v = "on" THEN "http1" ELSE "both"
         /\ s = "http2_only" =>
              Pass(h, s, v).mode = IF v = "on" THEN "http2" ELSE "both"
         /\ s \notin {"http1_only", "http2_only", "http2_adaptive_window"} =>
              Pass(h, s, v).option[s] = v
         /\ s = "http2_adaptive_window" /\ v = "on" =>
              /\ Pass(h, s, v).option[s] = "on"
              /\ \A w \in Windows : Pass(h, s, v).option[w] = "spec"
         /\ \A o \in Settings \ {s, "http2_adaptive_window"} :
              o \notin Windows \/ ~ (s = "http2_adaptive_window" /\ v = "on")
                => Pass(h, s, v).option[o] = h.option[o]
         /\ s \notin Windows /\ s # "http2_adaptive_window" =>
              Pass(h, s, v).option["http2_adaptive_window"]
                = h.option["http2_adaptive_window"]
<1>1. /\ "http1_only" \notin Windows /\ "http2_only" \notin Windows
      /\ "http2_adaptive_window" \in Settings \ Windows
      /\ Windows \subseteq Settings
  BY DEF Windows, Settings, Optional, Flags, Required
<1>2. {"on", "off", "spec"} \subseteq AnyValue
  BY DEF AnyValue
<1>3. h.mode \in Modes /\ h.option \in [Settings -> AnyValue]
  BY DEF AnyHttp
<1>4. CASE s = "http1_only"
  <2> DEFINE m == IF v = "on" THEN "http1" ELSE "both"
  <2>1. Pass(h, s, v) = [h EXCEPT !.mode = m]
    BY <1>1, <1>4 DEF Pass
  <2>2. m \in Modes
    BY DEF Modes
  <2>3. Pass(h, s, v) = [mode |-> m, option |-> h.option]
    BY <2>1 DEF AnyHttp
  <2> HIDE DEF m
  <2>4. Pass(h, s, v).mode = m /\ Pass(h, s, v).option = h.option
    BY <2>3
  <2> QED
    BY <1>1, <1>3, <1>4, <2>2, <2>3, <2>4 DEF AnyHttp, m
<1>8. CASE s = "http2_only"
  <2> DEFINE m == IF v = "on" THEN "http2" ELSE "both"
  <2>1. Pass(h, s, v) = [h EXCEPT !.mode = m]
    BY <1>1, <1>8 DEF Pass
  <2>2. m \in Modes
    BY DEF Modes
  <2>3. Pass(h, s, v) = [mode |-> m, option |-> h.option]
    BY <2>1 DEF AnyHttp
  <2> HIDE DEF m
  <2>4. Pass(h, s, v).mode = m /\ Pass(h, s, v).option = h.option
    BY <2>3
  <2> QED
    BY <1>1, <1>3, <1>8, <2>2, <2>3, <2>4 DEF AnyHttp, m
<1>5. CASE s \in Windows
  <2> DEFINE f == [h.option EXCEPT ![s] = v, !["http2_adaptive_window"] = "off"]
  <2>1. Pass(h, s, v) = [mode |-> h.mode, option |-> f]
    BY <1>1, <1>3, <1>5 DEF Pass, AnyHttp
  <2>2. f \in [Settings -> AnyValue] /\ f[s] = v
    BY <1>1, <1>2, <1>3, <1>5
  <2>3. \A o \in Settings \ {s, "http2_adaptive_window"} : f[o] = h.option[o]
    BY <1>3
  <2> HIDE DEF f
  <2> QED
    BY <1>1, <1>3, <1>5, <2>1, <2>2, <2>3 DEF AnyHttp
<1>6. CASE s = "http2_adaptive_window" /\ v = "on"
  <2> DEFINE f == [o \in Settings |-> CASE o = s          -> "on"
                                        [] o \in Windows  -> "spec"
                                        [] OTHER          -> h.option[o]]
  <2>1. Pass(h, s, v) = [mode |-> h.mode, option |-> f]
    BY <1>1, <1>3, <1>6 DEF Pass, AnyHttp
  <2>2. f \in [Settings -> AnyValue] /\ f[s] = "on" /\ \A w \in Windows : f[w] = "spec"
    BY <1>1, <1>2, <1>3, <1>6
  <2>3. \A o \in Settings \ ({s} \cup Windows) : f[o] = h.option[o]
    OBVIOUS
  <2> HIDE DEF f
  <2> QED
    BY <1>1, <1>3, <1>6, <2>1, <2>2, <2>3 DEF AnyHttp
<1>7. CASE /\ s \notin {"http1_only", "http2_only"} \cup Windows
           /\ ~ (s = "http2_adaptive_window" /\ v = "on")
  <2> DEFINE f == [h.option EXCEPT ![s] = v]
  <2>1. Pass(h, s, v) = [mode |-> h.mode, option |-> f]
    BY <1>3, <1>7 DEF Pass, AnyHttp
  <2>2. f \in [Settings -> AnyValue] /\ f[s] = v
    BY <1>3
  <2>3. \A o \in Settings \ {s} : f[o] = h.option[o]
    BY <1>3
  <2> HIDE DEF f
  <2> QED
    BY <1>1, <1>3, <1>7, <2>1, <2>2, <2>3 DEF AnyHttp
<1> QED
  BY <1>4, <1>5, <1>6, <1>7, <1>8

LEMMA PassedTyped ==
  ASSUME TypeOK
  PROVE  \A n \in 0..15 : Passed[n] \in AnyHttp
<1> DEFINE T == {n \in Nat : n \in 0..15 => Passed[n] \in AnyHttp}
<1>1. 0 \in T
  BY PassedDefined, NewHttpTyped
<1>2. ASSUME NEW n \in Nat, n \in T PROVE n + 1 \in T
  <2> SUFFICES ASSUME n + 1 \in 1..15 PROVE Passed[n + 1] \in AnyHttp
    OBVIOUS
  <2>1. Passed[n] \in AnyHttp
    BY <1>2
  <2>2. Passed[n + 1] = PassIfSet(Passed[n], Order[n + 1])
    BY PassedDefined
  <2>3. Order[n + 1] \in Settings /\ server[Order[n + 1]] \in AnyValue
    BY OrderProperties, ServerTyped
  <2> QED
    BY <2>1, <2>2, <2>3, PassEffect DEF PassIfSet
<1> HIDE DEF T
<1>3. Nat \subseteq T
  BY <1>1, <1>2, SetInduction
<1> QED
  BY <1>3 DEF T

\* One step of configure: PassEffect, where the option is set.
LEMMA StepEffect ==
  ASSUME TypeOK, NEW n \in 1..15,
         NEW s, s = Order[n], NEW h, h = Passed[n - 1]
  PROVE  /\ n \notin {6, 7} => Passed[n].mode = h.mode
         /\ s = "http1_only" => Passed[n].mode = CASE server[s] = "unset" -> h.mode
                                                   [] server[s] = "on"    -> "http1"
                                                   [] OTHER               -> "both"
         /\ s = "http2_only" => Passed[n].mode = CASE server[s] = "unset" -> h.mode
                                                   [] server[s] = "on"    -> "http2"
                                                   [] OTHER               -> "both"
         /\ s \in Options /\ server[s] # "unset" => Passed[n].option[s] = server[s]
         /\ n = 10 /\ server[s] = "on" =>
              /\ Passed[n].option[s] = "on"
              /\ \A w \in Windows : Passed[n].option[w] = "spec"
         /\ \A o \in Options \ {s} :
              o \notin Windows \/ ~ (n = 10 /\ server[s] = "on")
                => Passed[n].option[o] = h.option[o]
         /\ n \in 11..15 =>
              Passed[n].option["http2_adaptive_window"] = h.option["http2_adaptive_window"]
<1>1. h \in AnyHttp /\ s \in Settings /\ server[s] \in AnyValue
  BY PassedTyped, OrderProperties, ServerTyped
<1>2. Passed[n] = IF server[s] = "unset" THEN h ELSE Pass(h, s, server[s])
  BY PassedDefined DEF PassIfSet
<1>3. /\ s = "http1_only" <=> n = 6
      /\ s = "http2_only" <=> n = 7
      /\ s \in Windows <=> n \in {8, 9}
      /\ s = "http2_adaptive_window" <=> n = 10
  BY OrderProperties
<1>4. Options \subseteq Settings \ {"http1_only", "http2_only", "http2_adaptive_window"}
  BY DEF Options
<1>5. CASE server[s] = "unset"
  BY <1>2, <1>3, <1>5, Zenon
<1>6. CASE server[s] # "unset"
  <2>1. Passed[n] = Pass(h, s, server[s])
    BY <1>2, <1>6
  <2> QED
    BY <1>1, <1>3, <1>4, <1>6, <2>1, PassEffect
<1> QED
  BY <1>5, <1>6

\* A step leaves the options alone that are not its own, but for the windows that
\* adaptive flow control takes over.
LEMMA OptionKept ==
  ASSUME TypeOK, NEW n \in 1..15, NEW o \in Options, o # Order[n],
         o \notin Windows \/ ~ (n = 10 /\ server[Order[n]] = "on")
  PROVE  Passed[n].option[o] = Passed[n - 1].option[o]
<1>1. PICK s, h : s = Order[n] /\ h = Passed[n - 1]
  OBVIOUS
<1>2. \A p \in Options \ {s} :
        p \notin Windows \/ ~ (n = 10 /\ server[s] = "on")
          => Passed[n].option[p] = h.option[p]
  BY ONLY TypeOK, n \in 1..15, <1>1, StepEffect, Z3
<1> QED
  BY <1>1, <1>2

\* Each option of Http has its value from one step on.
LEMMA OptionStays ==
  ASSUME TypeOK, NEW k \in 1..15, NEW s, s = Order[k], s \in Options,
         server[s] # "unset", s \in Windows => server["http2_adaptive_window"] # "on"
  PROVE  Configured.option[s] = server[s]
<1> DEFINE T == {n \in Nat : Passed[n].option[s] = server[s]}
<1>1. k \in T
  BY StepEffect
<1>2. ASSUME NEW n \in k..14, n \in T PROVE n + 1 \in T
  <2>1. n + 1 \in 1..15 /\ n + 1 - 1 = n
    OBVIOUS
  <2>2. s # Order[n + 1]
    BY <2>1, OrderIsInjective
  <2>3. s \notin Windows \/ ~ (n + 1 = 10 /\ server[Order[n + 1]] = "on")
    BY OrderProperties
  <2>4. Passed[n + 1].option[s] = Passed[n].option[s]
    <3>1. Passed[n + 1].option[s] = Passed[n + 1 - 1].option[s]
      BY <2>1, <2>2, <2>3, OptionKept
    <3> QED
      BY <2>1, <3>1
  <2> QED
    BY <1>2, <2>4
<1> HIDE DEF T
<1>3. k..15 \subseteq T
  BY <1>1, <1>2, IntervalInduction
<1> QED
  BY <1>3, OrderProperties DEF T, Configured

LEMMA AdaptiveWindowStays ==
  ASSUME TypeOK, server["http2_adaptive_window"] = "on"
  PROVE  /\ Configured.option["http2_adaptive_window"] = "on"
         /\ \A w \in Windows : Configured.option[w] = "spec"
<1> DEFINE T == {n \in Nat : /\ Passed[n].option["http2_adaptive_window"] = "on"
                             /\ \A w \in Windows : Passed[n].option[w] = "spec"}
<1>1. 10 \in T
  BY StepEffect, OrderProperties
<1>2. ASSUME NEW n \in 10..14, n \in T PROVE n + 1 \in T
  <2>1. n + 1 \in 11..15 /\ n + 1 \in 1..15 /\ n + 1 - 1 = n
    OBVIOUS
  <2>2. Order[n + 1] \notin Windows
    BY <2>1, OrderProperties
  <2>3. Windows \subseteq Options
    BY DEF Windows, Options, Settings, Address, Optional
  <2>4. /\ Passed[n + 1].option["http2_adaptive_window"]
             = Passed[n].option["http2_adaptive_window"]
        /\ \A w \in Windows : Passed[n + 1].option[w] = Passed[n].option[w]
    BY <2>1, <2>2, <2>3, StepEffect
  <2> QED
    BY <1>2, <2>4
<1> HIDE DEF T
<1>3. 10..15 \subseteq T
  BY <1>1, <1>2, IntervalInduction
<1> QED
  BY <1>3, OrderProperties DEF T, Configured

LEMMA ModeStays ==
  ASSUME TypeOK
  PROVE  Configured.mode = CASE server["http2_only"] = "on"    -> "http2"
                             [] server["http2_only"] = "unset" ->
                                  IF server["http1_only"] = "on" THEN "http1" ELSE "both"
                             [] OTHER                          -> "both"
<1> DEFINE T == {n \in Nat : Passed[n].mode = "both"}
           U == {n \in Nat : Passed[n].mode = Passed[7].mode}
<1>1. 0..5 \subseteq T
  <2>1. 0 \in T
    BY PassedDefined DEF NewHttp
  <2>2. ASSUME NEW n \in 0..4, n \in T PROVE n + 1 \in T
    <3>1. n + 1 \in 1..15 \ {6, 7} /\ n + 1 - 1 = n
      OBVIOUS
    <3> QED
      BY <2>2, <3>1, StepEffect
  <2> HIDE DEF T
  <2> QED
    BY <2>1, <2>2, IntervalInduction
<1>2. 7..15 \subseteq U
  <2>1. 7 \in U
    OBVIOUS
  <2>2. ASSUME NEW n \in 7..14, n \in U PROVE n + 1 \in U
    <3>1. n + 1 \in 1..15 \ {6, 7} /\ n + 1 - 1 = n
      OBVIOUS
    <3> QED
      BY <2>2, <3>1, StepEffect
  <2> HIDE DEF U
  <2> QED
    BY <2>1, <2>2, IntervalInduction
<1>3. Passed[5].mode = "both"
  BY <1>1
<1>4. Passed[6].mode = CASE server["http1_only"] = "unset" -> Passed[5].mode
                         [] server["http1_only"] = "on"    -> "http1"
                         [] OTHER                          -> "both"
  BY StepEffect, OrderProperties
<1>5. Passed[7].mode = CASE server["http2_only"] = "unset" -> Passed[6].mode
                         [] server["http2_only"] = "on"    -> "http2"
                         [] OTHER                          -> "both"
  BY StepEffect, OrderProperties
<1>6. Configured.mode = Passed[7].mode
  BY <1>2, OrderProperties DEF Configured
<1> QED
  BY <1>3, <1>4, <1>5, <1>6

-----------------------------------------------------------------------------
(* What LoadConfig makes of the sources. *)

\* What a source says has the types of the settings, or does not parse.
LEMMA SaysTyped ==
  ASSUME NEW S \in SUBSET Settings, NEW f \in Says(S)
  PROVE  /\ DOMAIN f = S
         /\ \A s \in S : f[s] \in ValuesOf(s) \cup {"bad"}
BY DEF Says

LEMMA MergedProperties ==
  ASSUME NEW F \in SUBSET Settings, NEW D \in SUBSET Settings, NEW E \in SUBSET Settings,
         NEW from \in [file : Says(F), dotenv : Says(D), env : Says(E)]
  PROVE  /\ DOMAIN Merged(from) = F \cup D \cup E
         /\ DOMAIN from.file = F /\ DOMAIN from.dotenv = D /\ DOMAIN from.env = E
         /\ \A s \in F \cup D \cup E :
              Merged(from)[s] = IF s \in E THEN from.env[s]
                                ELSE IF s \in D THEN from.dotenv[s] ELSE from.file[s]
         /\ \A s \in F \cup D \cup E : Merged(from)[s] \in ValuesOf(s) \cup {"bad"}
<1>1. from.file \in Says(F) /\ from.dotenv \in Says(D) /\ from.env \in Says(E)
  OBVIOUS
<1>2. DOMAIN from.file = F /\ DOMAIN from.dotenv = D /\ DOMAIN from.env = E
  BY <1>1, SaysTyped
<1>3. /\ DOMAIN Merged(from) = F \cup D \cup E
      /\ \A s \in F \cup D \cup E :
           Merged(from)[s] = IF s \in E THEN from.env[s]
                             ELSE IF s \in D THEN from.dotenv[s] ELSE from.file[s]
  BY <1>2 DEF Merged, Over
<1> QED
  BY <1>1, <1>2, <1>3, SaysTyped

LEMMA DeserializedProperties ==
  ASSUME NEW m, DOMAIN m \subseteq Settings, "bad" \notin Range(m),
         \A s \in DOMAIN m : m[s] \in ValuesOf(s) \cup {"bad"}
  PROVE  /\ DOMAIN Deserialized(m) = Settings
         /\ \A s \in DOMAIN m : Deserialized(m)[s] = m[s]
         /\ \A s \in Settings : Deserialized(m)[s] \in ValuesOf(s) \cup {"unset", "default"}
<1>1. \A s \in DOMAIN m : m[s] \in ValuesOf(s)
  BY DEF Range
<1>2. Optional \cap Flags = {}
  BY DEF Optional, Flags, Windows
<1>3. DOMAIN Deserialized(m) = Settings
  BY DEF Deserialized
<1>4. ASSUME NEW s \in Settings
      PROVE  /\ s \in DOMAIN m => Deserialized(m)[s] = m[s]
             /\ Deserialized(m)[s] \in ValuesOf(s) \cup {"unset", "default"}
  <2>1. CASE s \in DOMAIN m
    <3>1. Deserialized(m)[s] = m[s]
      BY <2>1 DEF Deserialized
    <3> QED
      BY <1>1, <2>1, <3>1
  <2>2. CASE s \notin DOMAIN m /\ s \in Flags
    <3>1. Deserialized(m)[s] = "off"
      BY <1>2, <2>2 DEF Deserialized
    <3> QED
      BY <2>2, <3>1 DEF ValuesOf
  <2>3. CASE s \notin DOMAIN m /\ s \notin Flags
    <3>1. Deserialized(m)[s] \in {"unset", "default"}
      BY <2>3 DEF Deserialized
    <3> QED
      BY <2>3, <3>1
  <2> QED
    BY <2>1, <2>2, <2>3
<1> QED
  BY <1>3, <1>4

-----------------------------------------------------------------------------
(* Invariants. *)

\* TypeOK, of the settings, the calls and the mode that hyper is in, with whatever
\* the sources say and the setters are given.
THEOREM TypeCorrect == Spec => []TypeOK
<1>1. Init => TypeOK
  BY ConfigAssumption DEF Init, TypeOK, Nothing, NewHttp
<1>2. TypeOK /\ [Next]_vars => TypeOK'
  <2> SUFFICES ASSUME TypeOK, [Next]_vars PROVE TypeOK'
    OBVIOUS
  <2>1. CASE LoadConfig
    <3>1. PICK F \in SUBSET FileSettings, D, E \in {{}} \cup {{s} : s \in EnvSettings} :
            sources' \in [file : Says(F), dotenv : Says(D), env : Says(E)]
      BY <2>1 DEF LoadConfig
    <3>2. F \in SUBSET Settings /\ D \in SUBSET Settings /\ E \in SUBSET Settings
      BY ConfigAssumption
    <3> DEFINE m == Merged(sources')
    <3>3. /\ DOMAIN m \subseteq Settings
          /\ \A s \in DOMAIN m : m[s] \in ValuesOf(s) \cup {"bad"}
      <4>1. /\ DOMAIN m = F \cup D \cup E
            /\ \A s \in F \cup D \cup E : m[s] \in ValuesOf(s) \cup {"bad"}
        BY <3>1, <3>2, MergedProperties
      <4> HIDE DEF m
      <4> QED
        BY <3>2, <4>1
    <3>4. CASE Required \subseteq DOMAIN m /\ "bad" \notin Range(m)
      <4>1. phase' = "loaded" /\ config' = Deserialized(m)
        BY <2>1, <3>4 DEF LoadConfig
      <4> HIDE DEF m
      <4>2. /\ DOMAIN config' = Settings
            /\ \A s \in Settings : config'[s] \in ValuesOf(s) \cup {"unset", "default"}
        BY <3>3, <3>4, <4>1, DeserializedProperties
      <4> QED
        BY <2>1, <4>1, <4>2 DEF LoadConfig, TypeOK, ValuesOf
    <3>5. CASE ~ (Required \subseteq DOMAIN m /\ "bad" \notin Range(m))
      BY <2>1, <3>5 DEF LoadConfig, TypeOK, ValuesOf
    <3> QED
      BY <3>4, <3>5
  <2>2. CASE FromConfig
    BY <2>2 DEF FromConfig, TypeOK, ValuesOf
  <2>3. CASE BindFails
    BY <2>3 DEF BindFails, TypeOK, ValuesOf
  <2>4. CASE Bind
    BY <2>4 DEF Bind, TypeOK, ValuesOf
  <2>5. CASE Serve
    <3>1. Configured.mode \in {"both", "http1", "http2"}
      BY ModeStays
    <3> QED
      BY <2>5, <3>1 DEF Serve, TypeOK, ValuesOf
  <2>6. ASSUME NEW s \in SetterSettings, Setter(s) PROVE TypeOK'
    BY <2>6, ConfigAssumption DEF Setter, TypeOK, ValuesOf
  <2>7. CASE UNCHANGED vars
    BY <2>7 DEF vars, TypeOK, ValuesOf
  <2> QED
    BY <2>1, <2>2, <2>3, <2>4, <2>5, <2>6, <2>7 DEF Next
<1> QED
  BY <1>1, <1>2, PTL DEF Spec

\* StrongestSourceWins: the environment wins over .env, and that over the file, for
\* every setting and whatever the sources say about others.
THEOREM SourcesInOrder == Spec => []StrongestSourceWins
<1>1. Init => StrongestSourceWins
  BY DEF Init, StrongestSourceWins
<1>2. StrongestSourceWins /\ [Next]_vars => StrongestSourceWins'
  <2> SUFFICES ASSUME StrongestSourceWins, [Next]_vars, phase' = "loaded"
               PROVE  StrongestSourceWins'
    BY DEF StrongestSourceWins
  <2>1. CASE LoadConfig
    <3>1. PICK F \in SUBSET FileSettings, D, E \in {{}} \cup {{s} : s \in EnvSettings} :
            sources' \in [file : Says(F), dotenv : Says(D), env : Says(E)]
      BY <2>1 DEF LoadConfig
    <3>2. F \in SUBSET Settings /\ D \in SUBSET Settings /\ E \in SUBSET Settings
      BY ConfigAssumption
    <3> DEFINE m == Merged(sources')
    <3>3. config' = Deserialized(m) /\ "bad" \notin Range(m)
      BY <2>1 DEF LoadConfig
    <3>4. /\ DOMAIN m = F \cup D \cup E
          /\ DOMAIN sources'.file = F /\ DOMAIN sources'.dotenv = D
          /\ DOMAIN sources'.env = E
          /\ \A s \in F \cup D \cup E :
               m[s] = IF s \in E THEN sources'.env[s]
                      ELSE IF s \in D THEN sources'.dotenv[s] ELSE sources'.file[s]
          /\ \A s \in F \cup D \cup E : m[s] \in ValuesOf(s) \cup {"bad"}
      <4>1. PICK from : from = sources'
        OBVIOUS
      <4>2. from \in [file : Says(F), dotenv : Says(D), env : Says(E)]
        BY <3>1, <4>1
      <4>3. /\ DOMAIN Merged(from) = F \cup D \cup E
            /\ DOMAIN from.file = F /\ DOMAIN from.dotenv = D /\ DOMAIN from.env = E
            /\ \A s \in F \cup D \cup E :
                 Merged(from)[s] = IF s \in E THEN from.env[s]
                                   ELSE IF s \in D THEN from.dotenv[s] ELSE from.file[s]
            /\ \A s \in F \cup D \cup E : Merged(from)[s] \in ValuesOf(s) \cup {"bad"}
        <5> HIDE DEF m
        <5> QED
          BY ONLY <3>2, <4>2, MergedProperties
      <4> QED
        BY <4>1, <4>3
    <3> HIDE DEF m
    <3>5. \A s \in F \cup D \cup E : config'[s] = m[s]
      BY <3>2, <3>3, <3>4, DeserializedProperties
    <3> QED
      BY <3>4, <3>5 DEF StrongestSourceWins
  <2>2. CASE UNCHANGED vars
    BY <2>2 DEF vars, StrongestSourceWins
  <2>3. CASE FromConfig \/ BindFails \/ Bind \/ Serve \/ \E s \in SetterSettings : Setter(s)
    BY <2>3 DEF FromConfig, BindFails, Bind, Serve, Setter
  <2> QED
    BY <2>1, <2>2, <2>3 DEF Next
<1> QED
  BY <1>1, <1>2, PTL DEF Spec

\* While the server serves nothing of what configure did changes.
LEMMA ServingStep ==
  ASSUME [Next]_vars, phase' = "serving"
  PROVE  \/ Serve
         \/ phase = "serving" /\ server' = server /\ http' = http
<1>1. CASE LoadConfig
  BY <1>1 DEF LoadConfig
<1>2. CASE UNCHANGED vars
  BY <1>2 DEF vars
<1>3. CASE FromConfig \/ BindFails \/ Bind \/ \E s \in SetterSettings : Setter(s)
  BY <1>3 DEF FromConfig, BindFails, Bind, Setter
<1> QED
  BY <1>1, <1>2, <1>3 DEF Next

\* RequiredIsAskedFor, whatever the order in which the setters are called.
THEOREM ModeIsDecided == Spec => []RequiredIsAskedFor
<1>1. Init => RequiredIsAskedFor
  BY DEF Init, RequiredIsAskedFor
<1>2. TypeOK /\ RequiredIsAskedFor /\ [Next]_vars => RequiredIsAskedFor'
  <2> SUFFICES ASSUME TypeOK, RequiredIsAskedFor, [Next]_vars, phase' = "serving"
               PROVE  RequiredIsAskedFor'
    BY DEF RequiredIsAskedFor
  <2>1. CASE Serve
    BY <2>1, ModeStays DEF Serve, RequiredIsAskedFor
  <2>2. CASE phase = "serving" /\ server' = server /\ http' = http
    BY <2>2 DEF RequiredIsAskedFor
  <2> QED
    BY <2>1, <2>2, ServingStep
<1> QED
  BY <1>1, <1>2, TypeCorrect, PTL DEF Spec

\* AdaptiveWindowOverrides, whatever the order in which the setters are called.
THEOREM AdaptiveWindowWins == Spec => []AdaptiveWindowOverrides
<1>1. Init => AdaptiveWindowOverrides
  BY DEF Init, AdaptiveWindowOverrides
<1>2. TypeOK /\ AdaptiveWindowOverrides /\ [Next]_vars => AdaptiveWindowOverrides'
  <2> SUFFICES ASSUME TypeOK, AdaptiveWindowOverrides, [Next]_vars, phase' = "serving"
               PROVE  AdaptiveWindowOverrides'
    BY DEF AdaptiveWindowOverrides
  <2>1. CASE Serve
    BY <2>1, AdaptiveWindowStays DEF Serve, AdaptiveWindowOverrides
  <2>2. CASE phase = "serving" /\ server' = server /\ http' = http
    BY <2>2 DEF AdaptiveWindowOverrides
  <2> QED
    BY <2>1, <2>2, ServingStep
<1> QED
  BY <1>1, <1>2, TypeCorrect, PTL DEF Spec

\* OptionsArrive: configure forgets no option, and none of those it passes on later
\* undoes an earlier one but those that hyper keeps in step.
THEOREM AllOptionsArrive == Spec => []OptionsArrive
<1>1. Init => OptionsArrive
  BY DEF Init, OptionsArrive
<1>2. TypeOK /\ OptionsArrive /\ [Next]_vars => OptionsArrive'
  <2> SUFFICES ASSUME TypeOK, OptionsArrive, [Next]_vars, phase' = "serving"
               PROVE  OptionsArrive'
    BY DEF OptionsArrive
  <2>1. CASE Serve
    <3>1. ASSUME NEW s \in Options, server[s] # "unset",
                 s \in Windows => server["http2_adaptive_window"] # "on"
          PROVE  Configured.option[s] = server[s]
      <4>1. PICK k \in 1..15 : Order[k] = s
        BY OrderIsComplete
      <4> QED
        BY <3>1, <4>1, OptionStays
    <3> QED
      BY <2>1, <3>1 DEF Serve, OptionsArrive
  <2>2. CASE phase = "serving" /\ server' = server /\ http' = http
    BY <2>2 DEF OptionsArrive
  <2> QED
    BY <2>1, <2>2, ServingStep
<1> QED
  BY <1>1, <1>2, TypeCorrect, PTL DEF Spec
=============================================================================
