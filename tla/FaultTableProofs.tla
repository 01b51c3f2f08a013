-------------------------- MODULE FaultTableProofs --------------------------
(***************************************************************************)
(* The counters of the fault table are exact for every capacity up to 255  *)
(* and every set of nodes and codes.  The strengthening: an entry carries  *)
(* the severity of its fault, so reporting an active fault again moves no  *)
(* count.                                                                  *)
(***************************************************************************)
EXTENDS FaultTable, FiniteSetTheorems, TLAPS

ActiveOf(f, severity) == {i \in DOMAIN f.faults : f.faults[i].active
                                                  /\ f.faults[i].severity = severity}

FaultRecord ==
  [faults : Seq(Entry), critical_count : 0..255, warning_count : 0..255]

Shape(f) ==
  /\ f \in FaultRecord
  /\ Len(f.faults) <= FM_MAX_FAULTS
  /\ \A i \in DOMAIN f.faults :
       f.faults[i].severity = Severity[f.faults[i].source_node][f.faults[i].fault_code]

Exact(f) ==
  /\ f.critical_count = Cardinality(ActiveOf(f, 2))
  /\ f.warning_count = Cardinality(ActiveOf(f, 1))

(* The inductive invariant. *)
IInv == Shape(fm) /\ Exact(fm) /\ live \subseteq Node \X Code

(* The active entries of a severity are finitely many, at most the capacity. *)
LEMMA ActiveFinite ==
  ASSUME NEW f, Shape(f), NEW severity
  PROVE  /\ IsFiniteSet(ActiveOf(f, severity))
         /\ Cardinality(ActiveOf(f, severity)) \in 0..FM_MAX_FAULTS
<1>1. DOMAIN f.faults = 1..Len(f.faults) /\ Len(f.faults) \in Nat
  BY DEF Shape, FaultRecord
<1>2. IsFiniteSet(1..Len(f.faults)) /\ Cardinality(1..Len(f.faults)) = Len(f.faults)
  BY <1>1, FS_Interval
<1>3. ActiveOf(f, severity) \subseteq 1..Len(f.faults)
  BY <1>1 DEF ActiveOf
<1>4. /\ IsFiniteSet(ActiveOf(f, severity))
      /\ Cardinality(ActiveOf(f, severity)) <= Len(f.faults)
  BY <1>2, <1>3, FS_Subset
<1>5. Cardinality(ActiveOf(f, severity)) \in Nat
  BY <1>4, FS_CardinalityType
<1> QED BY <1>1, <1>4, <1>5, CapacityAssumption DEF Shape

(* Within the capacity the uint8_t counters do not wrap. *)
LEMMA NoWrap == ASSUME NEW x \in 0..FM_MAX_FAULTS PROVE uint8(x) = x
  BY CapacityAssumption DEF uint8

(* A counter is a uint8_t whatever is added to it. *)
LEMMA CountRange ==
  ASSUME NEW k \in 0..255, NEW d \in Int
  PROVE  uint8(k + d) \in 0..255 /\ uint8(k + 0) = k
  BY DEF uint8

LEMMA InitIInv == Init => IInv
<1> SUFFICES ASSUME Init PROVE IInv
  OBVIOUS
<1>1. fm = [faults |-> <<>>, critical_count |-> 0, warning_count |-> 0]
  BY DEF Init, fault_manager_init
<1>2. Shape(fm)
  BY <1>1, CapacityAssumption DEF Shape, FaultRecord
<1>3. \A severity : ActiveOf(fm, severity) = {}
  BY <1>1 DEF ActiveOf
<1>4. Exact(fm)
  BY <1>1, <1>3, FS_EmptySet DEF Exact
<1> QED BY <1>2, <1>4 DEF Init, IInv

(* A new entry, or a cleared one reported again, counts once. *)
LEMMA CountOneMore ==
  ASSUME NEW f, Shape(f), Exact(f), Len(f.faults) <= FM_MAX_FAULTS,
         NEW g, Shape(g), NEW i, NEW severity \in 0..2,
         \A s \in 1..2 : /\ i \notin ActiveOf(f, s)
                         /\ ActiveOf(g, s) = IF s = severity
                              THEN ActiveOf(f, s) \cup {i} ELSE ActiveOf(f, s),
         g.critical_count = uint8(f.critical_count + One(severity = 2)),
         g.warning_count = uint8(f.warning_count + One(severity = 1))
  PROVE  Exact(g)
<1>1. \A s \in 1..2 : Cardinality(ActiveOf(g, s)) =
                        Cardinality(ActiveOf(f, s)) + One(severity = s)
  <2> SUFFICES ASSUME NEW s \in 1..2
               PROVE  Cardinality(ActiveOf(g, s)) =
                        Cardinality(ActiveOf(f, s)) + One(severity = s)
    OBVIOUS
  <2>1. IsFiniteSet(ActiveOf(f, s)) /\ Cardinality(ActiveOf(f, s)) \in Nat
    BY ActiveFinite
  <2>2. CASE s = severity
    BY <2>1, <2>2, FS_AddElement DEF One
  <2>3. CASE s # severity
    BY <2>1, <2>3 DEF One
  <2> QED BY <2>2, <2>3
<1>2. /\ Cardinality(ActiveOf(g, 1)) = Cardinality(ActiveOf(f, 1)) + One(severity = 1)
      /\ Cardinality(ActiveOf(g, 2)) = Cardinality(ActiveOf(f, 2)) + One(severity = 2)
  BY <1>1
<1>3. /\ uint8(Cardinality(ActiveOf(g, 1))) = Cardinality(ActiveOf(g, 1))
      /\ uint8(Cardinality(ActiveOf(g, 2))) = Cardinality(ActiveOf(g, 2))
  BY ActiveFinite, NoWrap, Zenon
<1> QED BY <1>2, <1>3, Zenon DEF Exact

LEMMA TrackNewExact ==
  ASSUME NEW f, Shape(f), Exact(f), Len(f.faults) < FM_MAX_FAULTS,
         NEW n \in Node, NEW c \in Code
  PROVE  LET g == TrackNew(f, n, c, Severity[n][c]) IN Shape(g) /\ Exact(g)
<1> DEFINE sev == Severity[n][c]
           e == [source_node |-> n, fault_code |-> c, active |-> TRUE, severity |-> sev]
           g == TrackNew(f, n, c, sev)
<1>1. sev \in 0..2 /\ e \in Entry
  BY SeverityAssumption DEF Entry
<1>2. /\ f.faults \in Seq(Entry) /\ Len(f.faults) \in Nat
      /\ f.critical_count \in 0..255 /\ f.warning_count \in 0..255
  BY DEF Shape, FaultRecord
<1>3. g = [faults |-> Append(f.faults, e),
           critical_count |-> uint8(f.critical_count + One(sev = 2)),
           warning_count |-> uint8(f.warning_count + One(sev = 1))]
  BY DEF TrackNew, Recount
<1> HIDE DEF g
<1>4. g.faults = Append(f.faults, e) /\ g.faults \in Seq(Entry)
  BY <1>1, <1>2, <1>3
<1>5. /\ g.critical_count = uint8(f.critical_count + One(sev = 2))
      /\ g.warning_count = uint8(f.warning_count + One(sev = 1))
  BY <1>3
<1>6. g.critical_count \in 0..255 /\ g.warning_count \in 0..255
  <2> DEFINE a == One(sev = 2)
             b == One(sev = 1)
  <2>1. a \in Int /\ b \in Int
    BY DEF One
  <2>2. /\ g.critical_count = uint8(f.critical_count + a)
        /\ g.warning_count = uint8(f.warning_count + b)
    BY <1>5
  <2> HIDE DEF a, b
  <2>3. uint8(f.critical_count + a) \in 0..255
    BY <1>2, <2>1, CountRange
  <2>4. uint8(f.warning_count + b) \in 0..255
    BY <1>2, <2>1, CountRange
  <2> QED BY <2>2, <2>3, <2>4
<1>7. /\ DOMAIN g.faults = 1..(Len(f.faults) + 1)
      /\ \A k \in DOMAIN f.faults : g.faults[k] = f.faults[k]
      /\ g.faults[Len(f.faults) + 1] = e
      /\ Len(g.faults) = Len(f.faults) + 1
  BY <1>1, <1>2, <1>4
<1>8. Shape(g)
  <2>1. g \in FaultRecord
    BY <1>3, <1>4, <1>6 DEF FaultRecord
  <2>2. \A k \in DOMAIN g.faults : g.faults[k].severity =
          Severity[g.faults[k].source_node][g.faults[k].fault_code]
    <3> SUFFICES ASSUME NEW k \in DOMAIN g.faults
                 PROVE  g.faults[k].severity =
                          Severity[g.faults[k].source_node][g.faults[k].fault_code]
      OBVIOUS
    <3>1. CASE k = Len(f.faults) + 1
      BY <1>7, <3>1
    <3>2. CASE k # Len(f.faults) + 1
      BY <1>2, <1>7, <3>2 DEF Shape
    <3> QED BY <3>1, <3>2
  <2> QED BY <1>2, <1>7, <2>1, <2>2, CapacityAssumption DEF Shape
<1>9. \A s \in 1..2 : /\ Len(f.faults) + 1 \notin ActiveOf(f, s)
                      /\ ActiveOf(g, s) = IF s = sev
                           THEN ActiveOf(f, s) \cup {Len(f.faults) + 1}
                           ELSE ActiveOf(f, s)
  <2> DEFINE l == Len(f.faults) + 1
  <2>1. DOMAIN f.faults = 1..Len(f.faults) /\ l \notin DOMAIN f.faults
        /\ DOMAIN g.faults = DOMAIN f.faults \cup {l}
    BY <1>2, <1>7
  <2>2. g.faults[l].active /\ g.faults[l].severity = sev
    BY <1>7
  <2> HIDE DEF l, e, sev
  <2> QED BY <1>7, <2>1, <2>2 DEF ActiveOf
<1> HIDE DEF e, sev
<1>10. Exact(g)
  BY <1>1, <1>5, <1>8, <1>9, CountOneMore DEF Shape
<1> QED BY <1>8, <1>10 DEF g, sev

LEMMA TrackAgainExact ==
  ASSUME NEW f, Shape(f), Exact(f), NEW n \in Node, NEW c \in Code,
         NEW i \in Entries(f, n, c)
  PROVE  LET g == TrackAgain(f, i, Severity[n][c]) IN Shape(g) /\ Exact(g)
<1> DEFINE sev == Severity[n][c]
           t == [f.faults EXCEPT ![i].active = TRUE, ![i].severity = sev]
           new == ~f.faults[i].active
           g == TrackAgain(f, i, sev)
<1>1. sev \in 0..2
  BY SeverityAssumption
<1>2. /\ f.faults \in Seq(Entry) /\ Len(f.faults) \in Nat /\ i \in DOMAIN f.faults
      /\ f.faults[i] \in Entry /\ DOMAIN f.faults = 1..Len(f.faults)
      /\ f.critical_count \in 0..255 /\ f.warning_count \in 0..255
  BY DEF Shape, FaultRecord, Entries
<1>3. f.faults[i].source_node = n /\ f.faults[i].fault_code = c
      /\ f.faults[i].severity = sev
  BY <1>2 DEF Entries, Shape
<1>4. /\ g.faults = t
      /\ g.critical_count = uint8(f.critical_count + One(new /\ sev = 2))
      /\ g.warning_count = uint8(f.warning_count + One(new /\ sev = 1))
      /\ g = [faults |-> g.faults, critical_count |-> g.critical_count,
              warning_count |-> g.warning_count]
  BY DEF TrackAgain, Recount
<1> HIDE DEF g
<1>5. /\ DOMAIN t = DOMAIN f.faults
      /\ \A k \in DOMAIN f.faults : k # i => t[k] = f.faults[k]
      /\ t[i] = [source_node |-> n, fault_code |-> c, active |-> TRUE, severity |-> sev]
  BY <1>2, <1>3 DEF Entry
<1>6. t \in Seq(Entry) /\ Len(t) = Len(f.faults)
  <2>1. t[i] \in Entry
    <3> HIDE DEF t, sev
    <3> QED BY <1>1, <1>5 DEF Entry
  <2>2. \A k \in 1..Len(f.faults) : t[k] \in Entry
    <3> HIDE DEF t
    <3>1. \A k \in 1..Len(f.faults) : f.faults[k] \in Entry
      BY <1>2
    <3> QED BY <1>2, <1>5, <2>1, <3>1
  <2>3. t \in [1..Len(f.faults) -> Entry]
    BY <1>2, <1>5, <2>2
  <2> HIDE DEF t
  <2> QED BY <1>2, <2>3
<1>7. g.critical_count \in 0..255 /\ g.warning_count \in 0..255
  <2>1. One(new /\ sev = 2) \in Int /\ One(new /\ sev = 1) \in Int
    BY DEF One
  <2> DEFINE a == One(new /\ sev = 2)
             b == One(new /\ sev = 1)
  <2>2. /\ g.critical_count = uint8(f.critical_count + a)
        /\ g.warning_count = uint8(f.warning_count + b)
    BY <1>4
  <2> HIDE DEF a, b
  <2>3. a \in Int /\ b \in Int
    BY <2>1 DEF a, b
  <2>4. uint8(f.critical_count + a) \in 0..255
    BY <1>2, <2>3, CountRange
  <2>5. uint8(f.warning_count + b) \in 0..255
    BY <1>2, <2>3, CountRange
  <2> QED BY <2>2, <2>4, <2>5
<1>8. \A k \in DOMAIN t : t[k].severity = Severity[t[k].source_node][t[k].fault_code]
  <2>1. t[i].severity = Severity[t[i].source_node][t[i].fault_code]
    BY <1>5
  <2> HIDE DEF t
  <2> QED BY <1>5, <2>1 DEF Shape
<1> HIDE DEF t
<1>9. Shape(g)
  BY <1>4, <1>6, <1>7, <1>8 DEF Shape, FaultRecord
<1>10. CASE new
  <2>1. One(new /\ sev = 2) = One(sev = 2) /\ One(new /\ sev = 1) = One(sev = 1)
    BY <1>10 DEF One
  <2>2. \A s \in 1..2 : /\ i \notin ActiveOf(f, s)
                        /\ ActiveOf(g, s) = IF s = sev
                             THEN ActiveOf(f, s) \cup {i} ELSE ActiveOf(f, s)
    <3>1. t[i].active /\ t[i].severity = sev
      BY <1>5
    <3> HIDE DEF sev
    <3> QED BY <1>2, <1>4, <1>5, <1>10, <3>1 DEF ActiveOf
  <2> HIDE DEF sev
  <2>3. Exact(g)
    BY <1>1, <1>4, <1>9, <2>1, <2>2, CountOneMore DEF Shape
  <2> QED BY <1>9, <2>3 DEF g, sev
<1>11. CASE ~new
  <2>1. One(new /\ sev = 2) = 0 /\ One(new /\ sev = 1) = 0
    BY <1>11 DEF One
  <2>2. g.critical_count = f.critical_count /\ g.warning_count = f.warning_count
    <3> HIDE DEF new, sev
    <3>1. /\ g.critical_count = uint8(f.critical_count + 0)
          /\ g.warning_count = uint8(f.warning_count + 0)
      BY <1>4, <2>1
    <3>2. 0 \in Int
      OBVIOUS
    <3>3. uint8(f.critical_count + 0) = f.critical_count
      BY <1>2, <3>2, CountRange
    <3>4. uint8(f.warning_count + 0) = f.warning_count
      BY <1>2, <3>2, CountRange
    <3> QED BY <3>1, <3>3, <3>4
  <2>3. \A s : ActiveOf(g, s) = ActiveOf(f, s)
    <3>1. t[i].active /\ t[i].severity = f.faults[i].severity /\ f.faults[i].active
      BY <1>3, <1>5, <1>11
    <3> QED BY <1>2, <1>4, <1>5, <3>1 DEF ActiveOf
  <2>4. Exact(g)
    BY <2>2, <2>3 DEF Exact
  <2> QED BY <1>9, <2>4 DEF g
<1> QED BY <1>10, <1>11

(* Clearing takes off the counters what it takes out of the active entries. *)
LEMMA DeactivateExact ==
  ASSUME NEW f, Shape(f), Exact(f), NEW S, S \subseteq ActiveEntries(f)
  PROVE  Shape(Deactivate(f, S)) /\ Exact(Deactivate(f, S))
<1> DEFINE t == [i \in DOMAIN f.faults |->
                   IF i \in S THEN [f.faults[i] EXCEPT !.active = FALSE]
                              ELSE f.faults[i]]
           gone(s) == OfSeverity(f, S, s)
           g == Deactivate(f, S)
<1>1. /\ f.faults \in Seq(Entry) /\ Len(f.faults) \in Nat
      /\ DOMAIN f.faults = 1..Len(f.faults)
      /\ \A k \in DOMAIN f.faults : f.faults[k] \in Entry
  BY DEF Shape, FaultRecord
<1>2. f.critical_count \in 0..255 /\ f.warning_count \in 0..255
  BY DEF Shape, FaultRecord
<1>3. /\ g.faults = t
      /\ g.critical_count = uint8(f.critical_count + (-Cardinality(gone(2))))
      /\ g.warning_count = uint8(f.warning_count + (-Cardinality(gone(1))))
      /\ g = [faults |-> g.faults, critical_count |-> g.critical_count,
              warning_count |-> g.warning_count]
  BY DEF Deactivate, Recount
<1> HIDE DEF g
<1>4. \A k \in DOMAIN f.faults :
        /\ t[k] \in Entry /\ t[k].severity = f.faults[k].severity
        /\ t[k].source_node = f.faults[k].source_node
        /\ t[k].fault_code = f.faults[k].fault_code
        /\ t[k].active <=> (f.faults[k].active /\ k \notin S)
  <2> SUFFICES ASSUME NEW k \in DOMAIN f.faults
               PROVE /\ t[k] \in Entry /\ t[k].severity = f.faults[k].severity
                     /\ t[k].source_node = f.faults[k].source_node
                     /\ t[k].fault_code = f.faults[k].fault_code
                     /\ t[k].active <=> (f.faults[k].active /\ k \notin S)
    OBVIOUS
  <2>1. f.faults[k] \in Entry
    BY <1>1
  <2>2. CASE k \in S
    <3>1. t[k] = [f.faults[k] EXCEPT !.active = FALSE]
      BY <2>2
    <3> HIDE DEF t
    <3> QED BY <2>1, <2>2, <3>1 DEF Entry
  <2>3. CASE k \notin S
    <3>1. t[k] = f.faults[k]
      BY <2>3
    <3> HIDE DEF t
    <3> QED BY <2>1, <2>3, <3>1 DEF Entry
  <2> QED BY <2>2, <2>3
<1>5. t \in Seq(Entry) /\ Len(t) = Len(f.faults) /\ DOMAIN t = DOMAIN f.faults
  <2>1. DOMAIN t = DOMAIN f.faults /\ t \in [1..Len(f.faults) -> Entry]
    BY <1>1, <1>4
  <2> HIDE DEF t
  <2> QED BY <1>1, <2>1
<1> HIDE DEF t
<1>6. \A s : /\ gone(s) \subseteq ActiveOf(f, s)
             /\ ActiveOf(g, s) = ActiveOf(f, s) \ gone(s)
  <2>1. \A i \in S : i \in DOMAIN f.faults /\ f.faults[i].active
    BY DEF ActiveEntries
  <2> QED BY <1>3, <1>4, <1>5, <2>1 DEF ActiveOf, OfSeverity
<1>7. ASSUME NEW s
      PROVE  /\ Cardinality(gone(s)) \in Nat
             /\ Cardinality(ActiveOf(g, s)) =
                  Cardinality(ActiveOf(f, s)) + (-Cardinality(gone(s)))
             /\ Cardinality(ActiveOf(g, s)) \in 0..FM_MAX_FAULTS
  <2>1. IsFiniteSet(ActiveOf(f, s)) /\ Cardinality(ActiveOf(f, s)) \in Nat
    BY ActiveFinite, CapacityAssumption
  <2>2. IsFiniteSet(gone(s)) /\ ActiveOf(f, s) \cap gone(s) = gone(s)
    BY <1>6, <2>1, FS_Subset
  <2>3. Cardinality(gone(s)) \in Nat
    BY <2>2, FS_CardinalityType
  <2>4. Cardinality(ActiveOf(g, s)) = Cardinality(ActiveOf(f, s)) - Cardinality(gone(s))
    BY <1>6, <2>1, <2>2, FS_Difference
  <2>5. /\ IsFiniteSet(ActiveOf(g, s))
        /\ Cardinality(ActiveOf(g, s)) <= Cardinality(ActiveOf(f, s))
    BY <1>6, <2>1, FS_Subset
  <2>6. Cardinality(ActiveOf(g, s)) \in Nat
    BY <2>5, FS_CardinalityType
  <2>7. Cardinality(ActiveOf(f, s)) <= FM_MAX_FAULTS
    BY ActiveFinite
  <2> HIDE DEF gone
  <2> QED BY <2>1, <2>3, <2>4, <2>5, <2>6, <2>7, CapacityAssumption
<1>8. Shape(g)
  <2>1. g.critical_count \in 0..255 /\ g.warning_count \in 0..255
    <3>1. -Cardinality(gone(2)) \in Int /\ -Cardinality(gone(1)) \in Int
      BY <1>7
    <3> DEFINE a == -Cardinality(gone(2))
               b == -Cardinality(gone(1))
    <3>2. /\ g.critical_count = uint8(f.critical_count + a)
          /\ g.warning_count = uint8(f.warning_count + b)
          /\ a \in Int /\ b \in Int
      BY <1>3, <3>1
    <3> HIDE DEF a, b
    <3>3. uint8(f.critical_count + a) \in 0..255
      BY <1>2, <3>2, CountRange
    <3>4. uint8(f.warning_count + b) \in 0..255
      BY <1>2, <3>2, CountRange
    <3> QED BY <3>2, <3>3, <3>4
  <2> QED BY <1>3, <1>4, <1>5, <2>1 DEF Shape, FaultRecord
<1>9. Exact(g)
  <2>1. /\ uint8(Cardinality(ActiveOf(g, 1))) = Cardinality(ActiveOf(g, 1))
        /\ uint8(Cardinality(ActiveOf(g, 2))) = Cardinality(ActiveOf(g, 2))
    BY <1>7, NoWrap, Zenon
  <2> HIDE DEF gone
  <2> QED BY <1>3, <1>7, <2>1, Zenon DEF Exact
<1> QED BY <1>8, <1>9 DEF g

LEMMA NextIInv == IInv /\ [Next]_vars => IInv'
<1> SUFFICES ASSUME IInv, [Next]_vars PROVE IInv'
  OBVIOUS
<1>0. Shape(fm) /\ Exact(fm) /\ live \subseteq Node \X Code
  BY DEF IInv
<1>1. ASSUME NEW n \in Node, NEW c \in Code, Report(n, c) PROVE IInv'
  <2>1. fm' = fault_manager_report(fm, n, c, Severity[n][c])
    BY <1>1 DEF Report
  <2>2. Shape(fm') /\ Exact(fm')
    <3>1. CASE Entries(fm, n, c) # {}
      <4>1. (CHOOSE i \in Entries(fm, n, c) : TRUE) \in Entries(fm, n, c)
        BY <3>1
      <4> QED BY <1>0, <2>1, <3>1, <4>1, TrackAgainExact DEF fault_manager_report
    <3>2. CASE Entries(fm, n, c) = {} /\ Len(fm.faults) >= FM_MAX_FAULTS
      BY <1>0, <2>1, <3>2 DEF fault_manager_report
    <3>3. CASE Entries(fm, n, c) = {} /\ ~(Len(fm.faults) >= FM_MAX_FAULTS)
      <4>1. Len(fm.faults) < FM_MAX_FAULTS
        <5>1. Len(fm.faults) \in Nat
          BY <1>0 DEF Shape, FaultRecord
        <5> QED BY <3>3, <5>1, CapacityAssumption
      <4> QED BY <1>0, <2>1, <3>3, <4>1, TrackNewExact DEF fault_manager_report
    <3> QED BY <3>1, <3>2, <3>3
  <2>3. live' \subseteq Node \X Code
    BY <1>0, <1>1 DEF Report
  <2> QED BY <2>2, <2>3 DEF IInv, Shape, Exact, ActiveOf
<1>2. ASSUME NEW S, S \subseteq ActiveEntries(fm), fm' = Deactivate(fm, S),
             live' \subseteq live
      PROVE  IInv'
  <2>1. Shape(fm') /\ Exact(fm')
    BY <1>0, <1>2, DeactivateExact
  <2> QED BY <1>0, <1>2, <2>1 DEF IInv, Shape, Exact, ActiveOf
<1>3. ASSUME NEW n \in Node, NEW c \in Code, Clear(n, c) PROVE IInv'
  BY <1>2, <1>3 DEF Clear, fault_manager_clear
<1>4. ASSUME NEW n \in Node, ClearNode(n) PROVE IInv'
  BY <1>2, <1>4 DEF ClearNode, fault_manager_clear_node
<1>5. CASE ClearAll
  BY <1>2, <1>5 DEF ClearAll, fault_manager_clear_all
<1>6. CASE UNCHANGED vars
  BY <1>0, <1>6 DEF vars, IInv, Shape, Exact, ActiveOf
<1> QED BY <1>1, <1>3, <1>4, <1>5, <1>6 DEF Next

LEMMA IInvImplies == IInv => TypeOK /\ CountersExact
<1> SUFFICES ASSUME IInv PROVE TypeOK /\ CountersExact
  OBVIOUS
<1>1. \A s : OfSeverity(fm, ActiveEntries(fm), s) = ActiveOf(fm, s)
  BY DEF OfSeverity, ActiveEntries, ActiveOf
<1> QED BY <1>1 DEF IInv, Shape, FaultRecord, Exact, TypeOK, CountersExact

(* The table stays within FM_MAX_FAULTS entries of the right type. *)
THEOREM TypeCorrect == Spec => []TypeOK
  BY InitIInv, NextIInv, IInvImplies, PTL DEF Spec

(* fault_manager_has_critical is exact: the incremental counters always equal
   the number of active critical and warning entries. *)
THEOREM CountersAreExact == Spec => []CountersExact
  BY InitIInv, NextIInv, IInvImplies, PTL DEF Spec
============================================================================
