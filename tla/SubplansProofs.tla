--------------------------- MODULE SubplansProofs ---------------------------
(***************************************************************************)
(* The union-find of a logical plan keeps one subplan for each class of    *)
(* tables its joins link, whatever the tables and the joins; and planning  *)
(* comes out as JoinGraph says.                                            *)
(***************************************************************************)
EXTENDS Subplans, ListLemmas

-----------------------------------------------------------------------------
(* The classes                                                             *)

\* What a step leaves of the classes when it moves no table.
LEMMA ClassesKept ==
  ASSUME OneSubplanEach, SubplansJoined, UNCHANGED equiv,
         \A S : Apart(S)' <=> Apart(S),
         \A a \in Alias : Held(a)' = Held(a)
  PROVE  OneSubplanEach' /\ SubplansJoined'
<1>1. \A a \in Alias : IsRoot(a)' <=> IsRoot(a)
  BY DEF IsRoot
<1>2. OneSubplanEach'
  BY <1>1 DEF OneSubplanEach
<1>3. SubplansJoined'
  BY DEF SubplansJoined
<1> QED BY <1>2, <1>3

\* The joins that have been made are the same.
LEMMA ApartKept ==
  ASSUME UNCHANGED <<joins, join_ctr>>
  PROVE  \A S : Apart(S)' <=> Apart(S)
  BY DEF Apart

-----------------------------------------------------------------------------
(* The invariant                                                           *)

LEMMA PlanInitStands ==
  ASSUME PlanInit
  PROVE  PlanIInv
<1>1. PlanTypeOK
  BY JoinListsAssumption DEF PlanInit, PlanTypeOK
<1>2. \A a \in Alias : Held(a) = {a} /\ IsRoot(a) /\ equiv[a] = a
  BY DEF PlanInit, Held, InHand, InEquiv, IsRoot
<1>3. OneSubplanEach
  BY <1>2 DEF OneSubplanEach
<1>4. SubplansJoined
  BY <1>2 DEF SubplansJoined, Apart, PlanInit
<1>5. PathSound /\ StartSound /\ HandSound /\ RootsSound
  BY DEF PlanInit, PathSound, StartSound, HandSound, RootsSound, InEquiv, InHand
<1> QED BY <1>1, <1>3, <1>4, <1>5 DEF PlanIInv

\* What is known before any step of planning.
LEMMA PlanBusy ==
  ASSUME PlanIInv, plan_pc # "end"
  PROVE  /\ PlanTypeOK /\ plan_status = "busy"
         /\ OneSubplanEach /\ SubplansJoined
         /\ PathSound /\ StartSound /\ HandSound /\ RootsSound
  BY DEF PlanIInv, PlanTypeOK

\* A name put before the others.
LEMMA OneMoreName ==
  ASSUME NEW s \in Seq(Alias), NEW x \in Alias
  PROVE  /\ <<x>> \o s \in Seq(Alias)
         /\ \A k \in 1 .. Len(<<x>> \o s) :
              (<<x>> \o s)[k] = x \/ \E i \in 1 .. Len(s) : (<<x>> \o s)[k] = s[i]
  BY ConcatProperties, LenProperties

LEMMA OneNameLess ==
  ASSUME NEW s \in Seq(Alias), s # <<>>
  PROVE  /\ Tail(s) \in Seq(Alias) /\ Head(s) \in Alias
         /\ 1 \in 1 .. Len(s) /\ Head(s) = s[1]
         /\ \A k \in 1 .. Len(Tail(s)) :
              k + 1 \in 1 .. Len(s) /\ Tail(s)[k] = s[k + 1]
  BY HeadTailProperties, LenProperties

LEMMA JoinTyped ==
  ASSUME PlanTypeOK, join_ctr <= Len(joins)
  PROVE  /\ join_ctr \in Nat /\ Len(joins) \in Nat
         /\ join.l \in Alias /\ join.r \in Alias \cup {Subquery}
<1>1. joins \in Seq(JoinNode)
  BY DEF PlanTypeOK
<1>2. join_ctr \in 1 .. Len(joins)
  BY <1>1, LenProperties DEF PlanTypeOK
<1>3. joins[join_ctr] \in JoinNode
  BY <1>1, <1>2, ElementOfSeq
<1>4. Len(joins) \in Nat
  BY <1>1, LenProperties
<1> QED BY <1>2, <1>3, <1>4 DEF join, JoinNode

LEMMA DescendKeeps ==
  ASSUME PlanIInv, Descend
  PROVE  PlanIInv'
<1>1. /\ PlanTypeOK /\ plan_status = "busy"
      /\ OneSubplanEach /\ SubplansJoined
      /\ PathSound /\ StartSound /\ HandSound /\ RootsSound
  BY PlanBusy DEF Descend
<1>2. /\ plan_pc = "find" /\ ~IsRoot(name) /\ name \in Alias /\ names \in Seq(Alias)
      /\ name' = equiv[name] /\ name' \in Alias /\ names' = <<name>> \o names
      /\ UNCHANGED <<joins, join_ctr, equiv, subplans, ltable, lsubplan, finding,
                     unseen, subplan_roots, plan, plan_status, plan_pc>>
  BY <1>1 DEF Descend, PlanTypeOK, root_vars, IsRoot
<1>3. PlanTypeOK'
  BY <1>1, <1>2, OneMoreName DEF PlanTypeOK
<1>4. \A a \in Alias : Held(a)' = Held(a)
  BY <1>2 DEF Held, InHand, InEquiv
<1>5. OneSubplanEach' /\ SubplansJoined'
  BY <1>1, <1>2, <1>4, ClassesKept, ApartKept
<1>6. /\ \A a \in Alias : name \in Held(a) <=> name' \in Held(a)
      /\ \A a \in Alias : IsRoot(a)' <=> IsRoot(a)
  BY <1>1, <1>2 DEF OneSubplanEach, IsRoot
<1>7. PathSound'
  <2>1. \A k \in 1 .. Len(names') :
          names'[k] = name \/ \E i \in 1 .. Len(names) : names'[k] = names[i]
    BY <1>2, OneMoreName
  <2>2. \A i \in 1 .. Len(names) :
          names[i] \in Alias /\ ~IsRoot(names[i])
          /\ \A a \in Alias : names[i] \in Held(a) <=> name \in Held(a)
    BY <1>1, <1>2 DEF PathSound, InEquiv
  <2>3. \A k \in 1 .. Len(names') :
          /\ names'[k] \in Alias /\ ~IsRoot(names'[k])
          /\ \A a \in Alias : names'[k] \in Held(a) <=> name' \in Held(a)
    BY <1>2, <1>6, <2>1, <2>2
  <2> QED BY <1>2, <1>4, <2>3 DEF PathSound, IsRoot
<1>8. StartSound'
  BY <1>1, <1>2, <1>4, <1>6 DEF StartSound, InEquiv, join
<1>9. HandSound'
  BY <1>1, <1>2 DEF HandSound, InHand, InEquiv, IsRoot, join
<1>10. RootsSound'
  BY <1>1, <1>2 DEF RootsSound, InEquiv, IsRoot
<1> QED BY <1>3, <1>5, <1>7, <1>8, <1>9, <1>10 DEF PlanIInv

LEMMA AtRootKeeps ==
  ASSUME PlanIInv, AtRoot
  PROVE  PlanIInv'
<1>1. /\ PlanTypeOK /\ plan_status = "busy"
      /\ OneSubplanEach /\ SubplansJoined
      /\ PathSound /\ StartSound /\ HandSound /\ RootsSound
  BY PlanBusy DEF AtRoot
<1>2. /\ plan_pc = "find" /\ plan_pc' = "back" /\ IsRoot(name)
      /\ UNCHANGED <<joins, join_ctr, equiv, subplans, ltable, lsubplan, finding,
                     name, names, unseen, subplan_roots, plan, plan_status>>
  BY DEF AtRoot, find_vars, root_vars, IsRoot
<1>3. PlanTypeOK'
  BY <1>1, <1>2 DEF PlanTypeOK
<1>4. \A a \in Alias : Held(a)' = Held(a)
  BY <1>2 DEF Held, InHand, InEquiv
<1>5. OneSubplanEach' /\ SubplansJoined'
  BY <1>1, <1>2, <1>4, ClassesKept, ApartKept
<1>6. PathSound'
  BY <1>1, <1>2, <1>4 DEF PathSound, InEquiv, IsRoot
<1>7. StartSound'
  BY <1>1, <1>2, <1>4 DEF StartSound, InEquiv, join
<1>8. HandSound'
  BY <1>1, <1>2 DEF HandSound, InHand, InEquiv, IsRoot, join
<1>9. RootsSound'
  BY <1>1, <1>2 DEF RootsSound, InEquiv, IsRoot
<1> QED BY <1>3, <1>5, <1>6, <1>7, <1>8, <1>9 DEF PlanIInv

LEMMA CompressKeeps ==
  ASSUME PlanIInv, Compress
  PROVE  PlanIInv'
<1> DEFINE h == Head(names)
<1>1. /\ PlanTypeOK /\ plan_status = "busy"
      /\ OneSubplanEach /\ SubplansJoined
      /\ PathSound /\ StartSound /\ HandSound /\ RootsSound
  BY PlanBusy DEF Compress
<1>2. /\ plan_pc = "back" /\ names # <<>> /\ names \in Seq(Alias) /\ name \in Alias
      /\ equiv \in [Alias -> Alias]
      /\ equiv' = [equiv EXCEPT ![h] = name] /\ names' = Tail(names)
      /\ UNCHANGED <<joins, join_ctr, subplans, ltable, lsubplan, finding, name,
                     unseen, subplan_roots, plan, plan_status, plan_pc>>
  BY <1>1 DEF Compress, PlanTypeOK, root_vars
<1>3. /\ h \in Alias /\ ~IsRoot(h) /\ IsRoot(name)
      /\ \A a \in Alias : h \in Held(a) <=> name \in Held(a)
  BY <1>1, <1>2, OneNameLess DEF PathSound, InEquiv
<1> HIDE DEF h
<1>4. PlanTypeOK'
  BY <1>1, <1>2, <1>3, OneNameLess DEF PlanTypeOK
<1>5. \A a \in Alias : Held(a)' = Held(a)
  BY <1>2 DEF Held, InHand, InEquiv
<1>6. \A a \in Alias : IsRoot(a)' <=> IsRoot(a)
  BY <1>2, <1>3 DEF IsRoot
<1>7. OneSubplanEach'
  <2>1. \A a, b \in Alias : a \in Held(b) <=> equiv'[a] \in Held(b)
    BY <1>1, <1>2, <1>3 DEF OneSubplanEach
  <2> QED BY <1>1, <1>5, <1>6, <2>1 DEF OneSubplanEach
<1>8. SubplansJoined'
  BY <1>1, <1>2, <1>5 DEF SubplansJoined, Apart
<1>9. PathSound'
  <2>1. \A k \in 1 .. Len(names') :
          /\ names'[k] \in Alias /\ ~IsRoot(names'[k])
          /\ \A a \in Alias : names'[k] \in Held(a) <=> name \in Held(a)
    BY <1>1, <1>2, OneNameLess DEF PathSound, InEquiv
  <2> QED BY <1>2, <1>3, <1>5, <1>6, <2>1 DEF PathSound, IsRoot
<1>10. StartSound'
  BY <1>1, <1>2, <1>5 DEF StartSound, InEquiv, join
<1>11. HandSound'
  BY <1>1, <1>2, <1>6 DEF HandSound, InHand, InEquiv, join, PlanTypeOK
<1>12. RootsSound'
  BY <1>1, <1>2, <1>6 DEF RootsSound, InEquiv, PlanTypeOK
<1> QED BY <1>4, <1>7, <1>8, <1>9, <1>10, <1>11, <1>12 DEF PlanIInv

LEMMA TakeJoinKeeps ==
  ASSUME PlanIInv, TakeJoin
  PROVE  PlanIInv'
<1>1. /\ PlanTypeOK /\ plan_status = "busy"
      /\ OneSubplanEach /\ SubplansJoined
      /\ PathSound /\ StartSound /\ HandSound /\ RootsSound
  BY PlanBusy DEF TakeJoin
<1>2. /\ plan_pc = "loop" /\ plan_pc' = "find" /\ join_ctr <= Len(joins)
      /\ finding' = "left" /\ name' = join.l /\ names' = <<>>
      /\ UNCHANGED <<joins, join_ctr, equiv, subplans, ltable, lsubplan,
                     unseen, subplan_roots, plan, plan_status>>
  BY DEF TakeJoin, Find, root_vars
<1>3. join.l \in Alias /\ join' = join
  BY <1>1, <1>2, JoinTyped DEF join
<1>4. PlanTypeOK'
  BY <1>1, <1>2, <1>3 DEF PlanTypeOK
<1>5. \A a \in Alias : Held(a)' = Held(a)
  BY <1>2 DEF Held, InHand, InEquiv
<1>6. OneSubplanEach' /\ SubplansJoined'
  BY <1>1, <1>2, <1>5, ClassesKept, ApartKept
<1>7. PathSound' /\ StartSound' /\ HandSound' /\ RootsSound'
  BY <1>2, <1>3
  DEF PathSound, StartSound, HandSound, RootsSound, InHand, InEquiv
<1> QED BY <1>4, <1>6, <1>7 DEF PlanIInv

LEMMA MoveLeftKeeps ==
  ASSUME PlanIInv, MoveLeft
  PROVE  PlanIInv'
<1>1. /\ PlanTypeOK /\ plan_status = "busy"
      /\ OneSubplanEach /\ SubplansJoined
      /\ PathSound /\ StartSound /\ HandSound /\ RootsSound
  BY PlanBusy DEF MoveLeft, Found
<1>2. /\ plan_pc = "back" /\ finding = "left" /\ name \in Alias
      /\ subplans \in [Alias -> SUBSET Alias]
      /\ ltable' = name /\ lsubplan' = subplans[name]
      /\ subplans' = [subplans EXCEPT ![name] = {}]
      /\ UNCHANGED <<joins, join_ctr, equiv, unseen, subplan_roots, plan,
                     plan_status>>
  BY <1>1 DEF MoveLeft, Found, root_vars, PlanTypeOK
<1>3. \/ /\ join.r # Subquery /\ plan_pc' = "find" /\ finding' = "right"
         /\ name' = join.r /\ names' = <<>>
      \/ /\ join.r = Subquery /\ plan_pc' = "subquery"
         /\ UNCHANGED <<finding, name, names>>
  BY DEF MoveLeft, Find, find_vars
<1>4. /\ join_ctr <= Len(joins) /\ join.l \in Alias
      /\ \A a \in Alias : join.l \in Held(a) <=> name \in Held(a)
  BY <1>1, <1>2 DEF StartSound, InEquiv
<1>5. join.r \in Alias \cup {Subquery} /\ join' = join
  BY <1>1, <1>2, <1>4, JoinTyped DEF join
<1>6. IsRoot(name) /\ name \in Held(name) /\ Held(name) = subplans[name]
  BY <1>1, <1>2 DEF PathSound, OneSubplanEach, Held, InHand, InEquiv
<1>7. PlanTypeOK'
  <2>1. subplans' \in [Alias -> SUBSET Alias] /\ lsubplan' \subseteq Alias
    BY <1>2
  <2>2. name' \in Alias
    BY <1>2, <1>3, <1>5
  <2>3. names' \in Seq(Alias)
    <3>1. names \in Seq(Alias)
      BY <1>1 DEF PlanTypeOK
    <3>2. <<>> \in Seq(Alias)
      BY EmptySeq
    <3> QED BY <1>3, <3>1, <3>2
  <2>4. /\ finding' \in {"left", "right", "root"}
        /\ plan_pc' \in {"find", "subquery"}
    BY <1>2, <1>3
  <2> QED BY <1>1, <1>2, <2>1, <2>2, <2>3, <2>4 DEF PlanTypeOK
<1>8. InHand'
  BY <1>3 DEF InHand, InEquiv
<1>9. \A a \in Alias : Held(a)' = Held(a)
  BY <1>2, <1>8 DEF Held, InHand, InEquiv
<1>10. OneSubplanEach' /\ SubplansJoined'
  BY <1>1, <1>2, <1>9, ClassesKept, ApartKept
<1>11. PathSound' /\ StartSound'
  BY <1>2, <1>3, <1>4, <1>5 DEF PathSound, StartSound, InEquiv
<1>12. HandSound'
  BY <1>2, <1>3, <1>4, <1>5, <1>6 DEF HandSound, InHand, InEquiv, IsRoot
<1>13. RootsSound'
  BY <1>3 DEF RootsSound, InEquiv
<1> QED BY <1>7, <1>10, <1>11, <1>12, <1>13 DEF PlanIInv

\* What lies under the two roots of a join between tables.
LEMMA RootsOfJoin ==
  ASSUME PlanIInv, Found("right")
  PROVE  /\ name \in Alias /\ ltable \in Alias
         /\ IsRoot(name) /\ IsRoot(ltable)
         /\ join_ctr <= Len(joins) /\ join.l \in Alias /\ join.r \in Alias
         /\ Held(ltable) = lsubplan /\ join.l \in lsubplan
         /\ subplans[ltable] = {}
         /\ join.r \in Held(name)
         /\ \A a \in Alias \ {ltable} : Held(a) = subplans[a]
<1>1. /\ PlanTypeOK /\ OneSubplanEach /\ PathSound /\ StartSound /\ HandSound
  BY PlanBusy DEF Found
<1>2. plan_pc = "back" /\ finding = "right" /\ InEquiv /\ InHand
  BY DEF Found, InHand, InEquiv
<1>3. /\ name \in Alias /\ ltable \in Alias /\ IsRoot(name) /\ IsRoot(ltable)
      /\ join_ctr <= Len(joins) /\ subplans[ltable] = {} /\ join.l \in lsubplan
      /\ join.r \in Alias
      /\ \A a \in Alias : join.r \in Held(a) <=> name \in Held(a)
  BY <1>1, <1>2 DEF PlanTypeOK, PathSound, HandSound, StartSound
<1>4. join.l \in Alias
  BY <1>1, <1>3 DEF PlanTypeOK
<1>5. name \in Held(name)
  BY <1>1, <1>3 DEF OneSubplanEach
<1> QED BY <1>2, <1>3, <1>4, <1>5 DEF Held

\* A join between tables is made exactly when their roots differ; otherwise the
\* right subplan is the null pointer the left one has left.
LEMMA JoinTablesCases ==
  ASSUME PlanIInv, JoinTables
  PROVE  \/ /\ name # ltable
            /\ subplans' = [subplans EXCEPT ![name] = {},
                                            ![ltable] = Held(ltable) \cup Held(name)]
            /\ join_ctr' = join_ctr + 1 /\ plan_pc' = "loop"
            /\ UNCHANGED plan_status
         \/ /\ name = ltable
            /\ subplans' = [subplans EXCEPT ![name] = {}]
            /\ plan_status' = "crash" /\ plan_pc' = "end" /\ UNCHANGED join_ctr
<1>1. /\ name \in Alias /\ ltable \in Alias
      /\ Held(ltable) = lsubplan /\ join.l \in lsubplan
      /\ subplans[ltable] = {} /\ join.r \in Held(name)
      /\ \A a \in Alias \ {ltable} : Held(a) = subplans[a]
  BY RootsOfJoin DEF JoinTables
<1>2. Instantiate(lsubplan, subplans[name])
  BY DEF JoinTables
<1>3. CASE name # ltable
  <2>1. join.r \in subplans[name]
    BY <1>1, <1>3
  <2> QED BY <1>1, <1>2, <1>3, <2>1 DEF Instantiate, NextJoin
<1>4. CASE name = ltable
  <2>1. subplans[name] = {}
    BY <1>1, <1>4
  <2> QED BY <1>1, <1>2, <1>4, <2>1 DEF Instantiate, End
<1> QED BY <1>3, <1>4

\* The classes of two tables that a join links become one.
LEMMA UnitedClasses ==
  ASSUME PlanIInv, JoinTables, name # ltable
  PROVE  /\ \A a \in Alias :
              Held(a)' = IF a = ltable THEN Held(ltable) \cup Held(name)
                         ELSE IF a = name THEN {} ELSE Held(a)
         /\ \A S : Apart(S)' <=> Apart(S) /\ (join.l \in S <=> join.r \in S)
<1>1. /\ name \in Alias /\ ltable \in Alias /\ join_ctr <= Len(joins)
      /\ join.l \in Alias /\ join.r \in Alias
      /\ \A a \in Alias \ {ltable} : Held(a) = subplans[a]
  BY RootsOfJoin DEF JoinTables
<1>2. /\ subplans' = [subplans EXCEPT ![name] = {},
                                     ![ltable] = Held(ltable) \cup Held(name)]
      /\ join_ctr' = join_ctr + 1 /\ plan_pc' = "loop"
      /\ joins' = joins /\ ltable' = ltable /\ name' = name
  BY JoinTablesCases DEF JoinTables, find_vars
<1>3. PlanTypeOK
  BY DEF PlanIInv
<1>4. subplans \in [Alias -> SUBSET Alias] /\ join_ctr \in Nat /\ join.r # Subquery
  BY <1>1, <1>3, JoinTyped, AliasAssumption DEF PlanTypeOK
<1>5. \A a \in Alias : Held(a)' = subplans'[a]
  BY <1>2 DEF Held, InHand, InEquiv
<1>6. \A a \in Alias :
        Held(a)' = IF a = ltable THEN Held(ltable) \cup Held(name)
                   ELSE IF a = name THEN {} ELSE Held(a)
  BY <1>1, <1>2, <1>4, <1>5
<1>7. 1 .. join_ctr' - 1 = (1 .. join_ctr - 1) \cup {join_ctr}
  BY <1>1, <1>2, <1>3, <1>4 DEF PlanTypeOK
<1>8. \A S : Apart(S)' <=> Apart(S) /\ (join.l \in S <=> join.r \in S)
  BY <1>2, <1>4, <1>7 DEF Apart, join
<1> QED BY <1>6, <1>8

LEMMA JoinTablesKeeps ==
  ASSUME PlanIInv, JoinTables
  PROVE  PlanIInv'
<1>1. /\ PlanTypeOK /\ plan_status = "busy"
      /\ OneSubplanEach /\ SubplansJoined
      /\ PathSound /\ StartSound /\ HandSound /\ RootsSound
  BY PlanBusy DEF JoinTables, Found
<1>2. /\ name \in Alias /\ ltable \in Alias /\ IsRoot(name) /\ IsRoot(ltable)
      /\ join_ctr <= Len(joins) /\ join.l \in Alias /\ join.r \in Alias
      /\ join.l \in Held(ltable) /\ join.r \in Held(name)
  BY RootsOfJoin DEF JoinTables
<1>3. /\ equiv' = [equiv EXCEPT ![name] = ltable]
      /\ UNCHANGED <<joins, ltable, lsubplan, finding, name, names, unseen,
                     subplan_roots, plan>>
  BY DEF JoinTables, find_vars, root_vars
<1>4. /\ join_ctr \in Nat /\ Len(joins) \in Nat
      /\ equiv \in [Alias -> Alias] /\ subplans \in [Alias -> SUBSET Alias]
      /\ \A a \in Alias : Held(a) \subseteq Alias
  BY <1>1, <1>2, JoinTyped DEF PlanTypeOK, Held
<1>5. CASE name = ltable
  <2>1. /\ subplans' = [subplans EXCEPT ![name] = {}]
        /\ plan_status' = "crash" /\ plan_pc' = "end" /\ join_ctr' = join_ctr
    BY <1>5, JoinTablesCases
  <2>2. PlanTypeOK'
    BY <1>1, <1>2, <1>3, <1>4, <2>1 DEF PlanTypeOK
  <2> QED BY <2>1, <2>2 DEF PlanIInv
<1>6. CASE name # ltable
  <2>1. /\ subplans' = [subplans EXCEPT ![name] = {},
                                       ![ltable] = Held(ltable) \cup Held(name)]
        /\ join_ctr' = join_ctr + 1 /\ plan_pc' = "loop" /\ plan_status' = plan_status
    BY <1>6, JoinTablesCases
  <2>2. /\ \A a \in Alias :
             Held(a)' = IF a = ltable THEN Held(ltable) \cup Held(name)
                        ELSE IF a = name THEN {} ELSE Held(a)
        /\ \A S : Apart(S)' <=> Apart(S) /\ (join.l \in S <=> join.r \in S)
    BY <1>6, UnitedClasses
  <2>3. PlanTypeOK'
    <3>1. subplans' \in [Alias -> SUBSET Alias]
      BY <1>2, <1>4, <2>1
    <3>2. join_ctr' \in 1 .. Len(joins) + 1
      BY <1>2, <1>4, <2>1
    <3>3. equiv' \in [Alias -> Alias]
      BY <1>2, <1>3, <1>4
    <3> QED BY <1>1, <1>3, <2>1, <3>1, <3>2, <3>3 DEF PlanTypeOK
  <2>4. OneSubplanEach'
    <3>1. ASSUME NEW a \in Alias
          PROVE  IF IsRoot(a)' THEN a \in Held(a)' ELSE Held(a)' = {}
      <4>1. IF equiv[a] = a THEN a \in Held(a) ELSE Held(a) = {}
        BY <1>1 DEF OneSubplanEach, IsRoot
      <4>2. equiv'[a] = IF a = name THEN ltable ELSE equiv[a]
        BY <1>2, <1>3, <1>4
      <4>3. IF equiv'[a] = a THEN a \in Held(a)' ELSE Held(a)' = {}
        BY <1>2, <1>6, <2>2, <4>1, <4>2 DEF IsRoot
      <4> QED BY <4>3 DEF IsRoot
    <3>2. \A a, b \in Alias : a # b => Held(a)' \cap Held(b)' = {}
      <4>1. \A a, b \in Alias : a # b => Held(a) \cap Held(b) = {}
        BY <1>1 DEF OneSubplanEach
      <4> QED BY <1>2, <2>2, <4>1
    <3>3. \A a \in Alias : \E b \in Alias : a \in Held(b)'
      <4>1. \A a \in Alias : \E b \in Alias : a \in Held(b)
        BY <1>1 DEF OneSubplanEach
      <4> QED BY <1>2, <2>2, <4>1
    <3>4. \A a, b \in Alias : a \in Held(b)' <=> equiv'[a] \in Held(b)'
      <4>1. /\ \A a, b \in Alias : a \in Held(b) <=> equiv[a] \in Held(b)
            /\ \A a, b \in Alias : a # b => Held(a) \cap Held(b) = {}
            /\ name \in Held(name) /\ ltable \in Held(ltable)
        BY <1>1, <1>2 DEF OneSubplanEach
      <4>2. ASSUME NEW a \in Alias, NEW b \in Alias
            PROVE  a \in Held(b)' <=> equiv'[a] \in Held(b)'
        <5>1. CASE a = name
          BY <1>2, <1>3, <1>4, <1>6, <2>2, <4>1, <5>1
        <5>2. CASE a # name
          <6>1. equiv'[a] = equiv[a]
            BY <1>3, <1>4, <5>2
          <6> QED BY <1>2, <1>6, <2>2, <4>1, <6>1
        <5> QED BY <5>1, <5>2
      <4> QED BY <4>2
    <3> QED BY <3>1, <3>2, <3>3, <3>4 DEF OneSubplanEach
  <2>5. SubplansJoined'
    <3>1. \A a, b \in Alias : a # b => Held(a) \cap Held(b) = {}
      BY <1>1 DEF OneSubplanEach
    <3>2. \A a \in Alias : Apart(Held(a))
      BY <1>1 DEF SubplansJoined
    <3>3. ASSUME NEW a \in Alias
          PROVE  Apart(Held(a))'
      <4>1. PICK T : T = Held(a)'
        OBVIOUS
      <4>2. Apart(T) /\ (join.l \in T <=> join.r \in T)
        <5>1. CASE a = ltable
          BY <1>2, <2>2, <3>2, <4>1, <5>1 DEF Apart
        <5>2. CASE a = name /\ a # ltable
          BY <2>2, <4>1, <5>2 DEF Apart
        <5>3. CASE a # name /\ a # ltable
          BY <1>2, <2>2, <3>1, <3>2, <4>1, <5>3
        <5> QED BY <5>1, <5>2, <5>3
      <4>3. Apart(T)'
        BY <2>2, <4>2
      <4> QED BY <4>1, <4>3 DEF Apart
    <3>4. ASSUME NEW S \in SUBSET Alias, Apart(S)', NEW a \in Alias
          PROVE  Held(a)' \subseteq S \/ Held(a)' \cap S = {}
      <4>1. Apart(S) /\ (join.l \in S <=> join.r \in S)
        BY <2>2, <3>4
      <4>2. \A b \in Alias : Held(b) \subseteq S \/ Held(b) \cap S = {}
        BY <1>1, <4>1 DEF SubplansJoined
      <4> QED BY <1>2, <2>2, <4>1, <4>2
    <3> QED BY <3>3, <3>4 DEF SubplansJoined
  <2>6. PathSound' /\ StartSound' /\ HandSound' /\ RootsSound'
    BY <2>1 DEF PathSound, StartSound, HandSound, RootsSound, InHand, InEquiv
  <2> QED BY <2>3, <2>4, <2>5, <2>6 DEF PlanIInv
<1> QED BY <1>5, <1>6

LEMMA JoinSubqueryKeeps ==
  ASSUME PlanIInv, JoinSubquery
  PROVE  PlanIInv'
<1>1. /\ PlanTypeOK /\ plan_status = "busy"
      /\ OneSubplanEach /\ SubplansJoined
      /\ PathSound /\ StartSound /\ HandSound /\ RootsSound
  BY PlanBusy DEF JoinSubquery
<1>2. /\ plan_pc = "subquery" /\ join.r = Subquery /\ join_ctr <= Len(joins)
      /\ IsRoot(ltable) /\ subplans[ltable] = {} /\ join.l \in lsubplan
  BY <1>1 DEF HandSound, InHand, JoinSubquery
<1>3. /\ subplans' = [subplans EXCEPT ![ltable] = lsubplan]
      /\ join_ctr' = join_ctr + 1 /\ plan_pc' = "loop"
      /\ UNCHANGED <<joins, equiv, ltable, lsubplan, finding, name, names, unseen,
                     subplan_roots, plan, plan_status>>
  BY <1>2 DEF JoinSubquery, NextJoin, find_vars, root_vars
<1>4. /\ ltable \in Alias /\ lsubplan \subseteq Alias
      /\ subplans \in [Alias -> SUBSET Alias]
      /\ join_ctr \in Nat /\ Len(joins) \in Nat /\ join_ctr \in 1 .. Len(joins) + 1
  BY <1>1, <1>2, JoinTyped DEF PlanTypeOK
<1>5. PlanTypeOK'
  <2>1. subplans' \in [Alias -> SUBSET Alias]
    BY <1>3, <1>4
  <2>2. join_ctr' \in 1 .. Len(joins) + 1
    BY <1>2, <1>3, <1>4
  <2> QED BY <1>1, <1>3, <2>1, <2>2 DEF PlanTypeOK
<1>6. \A a \in Alias : Held(a)' = Held(a)
  BY <1>2, <1>3, <1>4 DEF Held, InHand, InEquiv
<1>7. \A S : Apart(S)' <=> Apart(S)
  <2>1. 1 .. join_ctr' - 1 = (1 .. join_ctr - 1) \cup {join_ctr}
    BY <1>3, <1>4
  <2> QED BY <1>2, <1>3, <2>1 DEF Apart, join
<1>8. OneSubplanEach' /\ SubplansJoined'
  BY <1>1, <1>3, <1>6, <1>7, ClassesKept
<1>9. PathSound' /\ StartSound' /\ HandSound' /\ RootsSound'
  BY <1>3 DEF PathSound, StartSound, HandSound, RootsSound, InHand, InEquiv
<1> QED BY <1>5, <1>8, <1>9 DEF PlanIInv

LEMMA SubqueryFailsKeeps ==
  ASSUME PlanIInv, SubqueryFails
  PROVE  PlanIInv'
<1>1. PlanTypeOK
  BY DEF PlanIInv
<1>2. /\ plan_status' \in {"error", "crash"} /\ plan_pc' = "end"
      /\ UNCHANGED <<joins, join_ctr, equiv, subplans, ltable, lsubplan, finding,
                     name, names, unseen, subplan_roots, plan>>
  BY DEF SubqueryFails, End, find_vars, root_vars
<1>3. PlanTypeOK' /\ plan_status' # "busy"
  BY <1>1, <1>2 DEF PlanTypeOK
<1> QED BY <1>3 DEF PlanIInv

LEMMA JoinsOverKeeps ==
  ASSUME PlanIInv, JoinsOver
  PROVE  PlanIInv'
<1>1. /\ PlanTypeOK /\ plan_status = "busy"
      /\ OneSubplanEach /\ SubplansJoined
  BY PlanBusy DEF JoinsOver
<1>2. /\ plan_pc = "loop" /\ join_ctr > Len(joins)
      /\ unseen' = Alias /\ subplan_roots' = {} /\ plan_pc' = "roots"
      /\ UNCHANGED <<joins, join_ctr, equiv, subplans, ltable, lsubplan, finding,
                     name, names, plan, plan_status>>
  BY DEF JoinsOver, find_vars
<1>3. PlanTypeOK'
  BY <1>1, <1>2 DEF PlanTypeOK
<1>4. \A a \in Alias : Held(a)' = Held(a)
  BY <1>2 DEF Held, InHand, InEquiv
<1>5. OneSubplanEach' /\ SubplansJoined'
  BY <1>1, <1>2, <1>4, ClassesKept, ApartKept
<1>6. join_ctr = Len(joins) + 1
  <2>1. joins \in Seq(JoinNode)
    BY <1>1 DEF PlanTypeOK
  <2>2. Len(joins) \in Nat /\ join_ctr \in 1 .. Len(joins) + 1
    BY <1>1, <2>1, LenProperties DEF PlanTypeOK
  <2> QED BY <1>2, <2>2
<1>7. PathSound' /\ StartSound' /\ HandSound' /\ RootsSound'
  BY <1>2, <1>6
  DEF PathSound, StartSound, HandSound, RootsSound, InHand, InEquiv
<1> QED BY <1>3, <1>5, <1>7 DEF PlanIInv

LEMMA NextAliasKeeps ==
  ASSUME PlanIInv, NextAlias
  PROVE  PlanIInv'
<1>1. /\ PlanTypeOK /\ plan_status = "busy"
      /\ OneSubplanEach /\ SubplansJoined /\ RootsSound
  BY PlanBusy DEF NextAlias
<1>2. /\ plan_pc = "roots" /\ plan_pc' = "find" /\ finding' = "root"
      /\ names' = <<>> /\ name' \in unseen /\ unseen' = unseen \ {name'}
      /\ UNCHANGED <<joins, join_ctr, equiv, subplans, ltable, lsubplan,
                     subplan_roots, plan, plan_status>>
  BY DEF NextAlias, Find
<1>3. PlanTypeOK'
  BY <1>1, <1>2, EmptySeq DEF PlanTypeOK
<1>4. \A a \in Alias : Held(a)' = Held(a)
  BY <1>2 DEF Held, InHand, InEquiv
<1>5. OneSubplanEach' /\ SubplansJoined'
  BY <1>1, <1>2, <1>4, ClassesKept, ApartKept
<1>6. PathSound' /\ StartSound' /\ HandSound'
  BY <1>2 DEF PathSound, StartSound, HandSound, InHand, InEquiv
<1>7. RootsSound'
  BY <1>1, <1>2 DEF RootsSound, InEquiv, IsRoot
<1> QED BY <1>3, <1>5, <1>6, <1>7 DEF PlanIInv

LEMMA KeepRootKeeps ==
  ASSUME PlanIInv, KeepRoot
  PROVE  PlanIInv'
<1>1. /\ PlanTypeOK /\ plan_status = "busy"
      /\ OneSubplanEach /\ SubplansJoined /\ PathSound /\ RootsSound
  BY PlanBusy DEF KeepRoot, Found
<1>2. /\ plan_pc = "back" /\ finding = "root" /\ plan_pc' = "roots"
      /\ subplan_roots' = subplan_roots \cup {name}
      /\ UNCHANGED <<joins, join_ctr, equiv, subplans, ltable, lsubplan, finding,
                     name, names, unseen, plan, plan_status>>
  BY DEF KeepRoot, Found, find_vars
<1>3. PlanTypeOK'
  BY <1>1, <1>2 DEF PlanTypeOK
<1>4. \A a \in Alias : Held(a)' = Held(a)
  BY <1>2 DEF Held, InHand, InEquiv
<1>5. OneSubplanEach' /\ SubplansJoined'
  BY <1>1, <1>2, <1>4, ClassesKept, ApartKept
<1>6. PathSound' /\ StartSound' /\ HandSound'
  BY <1>2 DEF PathSound, StartSound, HandSound, InHand, InEquiv
<1>7. RootsSound'
  BY <1>1, <1>2 DEF RootsSound, PathSound, InEquiv, IsRoot
<1> QED BY <1>3, <1>5, <1>6, <1>7 DEF PlanIInv

LEMMA FinishKeeps ==
  ASSUME PlanIInv, Finish
  PROVE  PlanIInv'
<1>1. PlanTypeOK
  BY DEF PlanIInv
<1>2. /\ plan_status' \in {"ok", "error"} /\ plan_pc' = "end"
      /\ UNCHANGED <<joins, join_ctr, equiv, ltable, lsubplan, finding,
                     name, names, unseen, subplan_roots>>
  BY DEF Finish, End, find_vars, root_vars
<1>3. subplans' \in [Alias -> SUBSET Alias] /\ plan' \subseteq Alias
  <2>1. /\ subplans \in [Alias -> SUBSET Alias] /\ plan \subseteq Alias
        /\ subplan_roots \subseteq Alias
    BY <1>1 DEF PlanTypeOK
  <2>2. \/ UNCHANGED <<plan, subplans>>
        \/ \E root \in subplan_roots :
             plan' = subplans[root] /\ subplans' = [subplans EXCEPT ![root] = {}]
    BY DEF Finish
  <2> QED BY <2>1, <2>2
<1>4. PlanTypeOK' /\ plan_status' # "busy"
  BY <1>1, <1>2, <1>3 DEF PlanTypeOK
<1> QED BY <1>4 DEF PlanIInv

\* A stuttering step.
LEMMA PlanStutters ==
  ASSUME PlanIInv, UNCHANGED plan_vars
  PROVE  PlanIInv'
<1>1. /\ UNCHANGED <<joins, join_ctr, equiv, subplans, ltable, lsubplan, finding,
                     name, names, unseen, subplan_roots, plan, plan_status, plan_pc>>
  BY DEF plan_vars, find_vars, root_vars
<1>2. PlanTypeOK'
  BY <1>1 DEF PlanIInv, PlanTypeOK
<1>3. ASSUME plan_status = "busy"
      PROVE  OneSubplanEach' /\ SubplansJoined'
             /\ PathSound' /\ StartSound' /\ HandSound' /\ RootsSound'
  <2>1. /\ OneSubplanEach /\ SubplansJoined
        /\ PathSound /\ StartSound /\ HandSound /\ RootsSound
    BY <1>3 DEF PlanIInv
  <2>2. \A a \in Alias : Held(a)' = Held(a)
    BY <1>1 DEF Held, InHand, InEquiv
  <2>3. OneSubplanEach' /\ SubplansJoined'
    BY <1>1, <2>1, <2>2, ClassesKept, ApartKept
  <2>4. PathSound' /\ StartSound'
    BY <1>1, <2>1, <2>2 DEF PathSound, StartSound, InEquiv, IsRoot, join
  <2>5. HandSound' /\ RootsSound'
    BY <1>1, <2>1 DEF HandSound, RootsSound, InHand, InEquiv, IsRoot, join
  <2> QED BY <2>3, <2>4, <2>5
<1> QED BY <1>1, <1>2, <1>3 DEF PlanIInv

\* Throughout planning every table is under exactly one subplan, the one that
\* GetEquiv finds for it, and the tables under a subplan are those the joins made
\* so far link; the subplan moved out before the second GetEquiv is still that of
\* its root when the join is made.
THEOREM SubplansWhole == PlanSpec => []PlanIInv
<1>1. PlanInit => PlanIInv
  BY PlanInitStands
<1>2. PlanIInv /\ [PlanNext]_plan_vars => PlanIInv'
  BY DescendKeeps, AtRootKeeps, CompressKeeps, TakeJoinKeeps, MoveLeftKeeps,
     JoinTablesKeeps, JoinSubqueryKeeps, SubqueryFailsKeeps, JoinsOverKeeps,
     NextAliasKeeps, KeepRootKeeps, FinishKeeps, PlanStutters
  DEF PlanNext
<1> QED BY <1>1, <1>2, PTL DEF PlanSpec

-----------------------------------------------------------------------------
(* Planning as a graph                                                     *)

\* The edges between two tables lead through the classes, and nowhere else.
LEMMA LinkedIsOneClass ==
  ASSUME OneSubplanEach, SubplansJoined, NEW a \in Alias, NEW b \in Alias,
         \A c \in Alias : Held(c) \subseteq Alias
  PROVE  G!Linked(a, b) <=> \E c \in Alias : a \in Held(c) /\ b \in Held(c)
<1>1. \A S : G!Apart(S) <=> Apart(S)
  BY DEF G!Apart, Apart
<1>2. PICK c \in Alias : a \in Held(c)
  BY DEF OneSubplanEach
<1>3. ASSUME G!Linked(a, b)
      PROVE  b \in Held(c)
  BY <1>1, <1>2, <1>3 DEF G!Linked, SubplansJoined
<1>4. ASSUME NEW d \in Alias, a \in Held(d), b \in Held(d), NEW S \in SUBSET Alias,
             G!Apart(S), a \in S
      PROVE  b \in S
  BY <1>1, <1>4 DEF SubplansJoined
<1> QED BY <1>2, <1>3, <1>4 DEF G!Linked

LEMMA PlanStarts ==
  ASSUME PlanInit
  PROVE  G!Init
  BY DEF PlanInit, G!Init

\* GetEquiv and the search for the roots do not show.
LEMMA SearchStutters ==
  ASSUME \/ Descend \/ AtRoot \/ Compress \/ TakeJoin \/ MoveLeft
         \/ JoinsOver \/ NextAlias \/ KeepRoot \/ UNCHANGED plan_vars
  PROVE  UNCHANGED G!vars
<1>1. UNCHANGED <<joins, join_ctr, plan, plan_status>>
  BY DEF Descend, AtRoot, Compress, TakeJoin, MoveLeft, JoinsOver, NextAlias,
         KeepRoot, plan_vars
<1> QED BY <1>1 DEF G!vars

LEMMA HeldTyped ==
  ASSUME PlanTypeOK
  PROVE  \A c \in Alias : Held(c) \subseteq Alias
  BY DEF PlanTypeOK, Held

LEMMA JoinTablesIsEdge ==
  ASSUME PlanIInv, JoinTables
  PROVE  G!Join \/ G!ClosesCycle
<1>1. /\ PlanTypeOK /\ plan_status = "busy" /\ OneSubplanEach /\ SubplansJoined
  BY PlanBusy DEF JoinTables, Found
<1>2. /\ name \in Alias /\ ltable \in Alias
      /\ join_ctr <= Len(joins) /\ join.l \in Alias /\ join.r \in Alias
      /\ join.l \in Held(ltable) /\ join.r \in Held(name)
  BY RootsOfJoin DEF JoinTables
<1>3. join_ctr \in Nat /\ Len(joins) \in Nat /\ join.r # Subquery
  BY <1>1, <1>2, JoinTyped, AliasAssumption
<1>4. G!Planning /\ G!Now = join
  BY <1>1, <1>2, <1>3 DEF G!Planning, G!Now, join
<1>5. joins' = joins /\ plan' = plan
  BY DEF JoinTables
<1>6. G!Linked(join.l, join.r) <=> name = ltable
  <2>1. \A a, b \in Alias : a # b => Held(a) \cap Held(b) = {}
    BY <1>1 DEF OneSubplanEach
  <2>2. G!Linked(join.l, join.r)
        <=> \E c \in Alias : join.l \in Held(c) /\ join.r \in Held(c)
    BY <1>1, <1>2, HeldTyped, LinkedIsOneClass
  <2> QED BY <1>2, <2>1, <2>2
<1>7. CASE name # ltable
  <2>1. join_ctr' = join_ctr + 1 /\ plan_status' = plan_status
    BY <1>7, JoinTablesCases
  <2> QED BY <1>3, <1>4, <1>5, <1>6, <1>7, <2>1 DEF G!Join
<1>8. CASE name = ltable
  <2>1. join_ctr' = join_ctr /\ plan_status' = "crash"
    BY <1>8, JoinTablesCases
  <2> QED BY <1>3, <1>4, <1>5, <1>6, <1>8, <2>1 DEF G!ClosesCycle
<1> QED BY <1>7, <1>8

LEMMA SubqueryIsNoEdge ==
  ASSUME PlanIInv, JoinSubquery \/ SubqueryFails
  PROVE  G!Join \/ G!SubqueryFails
<1>1. PlanTypeOK /\ plan_status = "busy" /\ HandSound
  BY PlanBusy DEF JoinSubquery, SubqueryFails
<1>2. join.r = Subquery /\ join_ctr <= Len(joins) /\ join.l \in lsubplan
  BY <1>1 DEF HandSound, InHand, JoinSubquery, SubqueryFails
<1>3. join_ctr \in Nat /\ Len(joins) \in Nat
  BY <1>1, <1>2, JoinTyped
<1>4. G!Planning /\ G!Now = join
  BY <1>1, <1>2, <1>3 DEF G!Planning, G!Now, join
<1>5. CASE JoinSubquery
  <2>1. joins' = joins /\ plan' = plan /\ join_ctr' = join_ctr + 1
        /\ plan_status' = plan_status
    BY <1>2, <1>5 DEF JoinSubquery, NextJoin
  <2> QED BY <1>2, <1>3, <1>4, <2>1 DEF G!Join
<1>6. CASE SubqueryFails
  <2>1. joins' = joins /\ plan' = plan /\ join_ctr' = join_ctr
        /\ plan_status' \in {"error", "crash"}
    BY <1>6 DEF SubqueryFails, End
  <2> QED BY <1>2, <1>3, <1>4, <2>1 DEF G!SubqueryFails
<1> QED BY <1>5, <1>6

\* One root is left exactly when the joins link all tables, and its plan is over
\* all of them.
LEMMA OneRootIsAll ==
  ASSUME PlanIInv, plan_pc = "roots", unseen = {}
  PROVE  /\ G!AllLinked <=> Cardinality(subplan_roots) = 1
         /\ \A c : subplan_roots = {c} => c \in Alias /\ subplans[c] = Alias
         /\ Cardinality(subplan_roots) = 1 => \E c : subplan_roots = {c}
<1>1. PlanTypeOK /\ OneSubplanEach /\ SubplansJoined /\ RootsSound
  BY PlanBusy
<1>2. \A c \in Alias : Held(c) = subplans[c] /\ Held(c) \subseteq Alias
  BY <1>1, HeldTyped DEF Held, InHand, InEquiv
<1>3. subplan_roots = {a \in Alias : IsRoot(a)}
  BY <1>1 DEF RootsSound, InEquiv, PlanTypeOK
<1>4. /\ \A a, b \in Alias : a # b => Held(a) \cap Held(b) = {}
      /\ \A a \in Alias : \E b \in Alias : a \in Held(b)
      /\ \A a \in Alias : a \in subplan_roots => a \in Held(a)
      /\ \A a \in Alias : a \notin subplan_roots => Held(a) = {}
  BY <1>1, <1>3 DEF OneSubplanEach
<1>5. IsFiniteSet(subplan_roots)
  BY <1>3, AliasAssumption, FS_Subset
<1>6. Cardinality(subplan_roots) = 1 <=> \E c : subplan_roots = {c}
  BY <1>5, FS_Singleton
<1>7. \A c : subplan_roots = {c} => c \in Alias /\ Held(c) = Alias
  BY <1>2, <1>3, <1>4
<1>8. \A a, b \in Alias :
        G!Linked(a, b) <=> \E c \in Alias : a \in Held(c) /\ b \in Held(c)
  BY <1>1, <1>2, LinkedIsOneClass
<1>9. ASSUME NEW c, subplan_roots = {c}
      PROVE  G!AllLinked
  BY <1>7, <1>8, <1>9 DEF G!AllLinked
<1>10. ASSUME G!AllLinked
       PROVE  \E c : subplan_roots = {c}
  <2>1. PICK t \in Alias : TRUE
    BY AliasAssumption
  <2>2. PICK c \in Alias : t \in Held(c)
    BY <1>4
  <2>3. c \in subplan_roots /\ c \in Held(c)
    BY <1>4, <2>2
  <2>4. ASSUME NEW d \in subplan_roots
        PROVE  d = c
    <3>1. d \in Alias /\ d \in Held(d)
      BY <1>3, <1>4
    <3>2. PICK e \in Alias : c \in Held(e) /\ d \in Held(e)
      BY <1>8, <1>10, <3>1 DEF G!AllLinked
    <3> QED BY <1>4, <2>3, <3>1, <3>2
  <2>5. subplan_roots = {c}
    BY <2>3, <2>4
  <2> QED BY <2>5
<1> QED BY <1>2, <1>6, <1>7, <1>9, <1>10

LEMMA FinishIsFinish ==
  ASSUME PlanIInv, Finish
  PROVE  G!Finish
<1>1. PlanTypeOK /\ plan_status = "busy" /\ RootsSound
  BY PlanBusy DEF Finish
<1>2. plan_pc = "roots" /\ unseen = {} /\ joins' = joins /\ join_ctr' = join_ctr
  BY DEF Finish
<1>3. join_ctr = Len(joins) + 1 /\ Len(joins) \in Nat
  <2>1. joins \in Seq(JoinNode)
    BY <1>1 DEF PlanTypeOK
  <2> QED BY <1>1, <1>2, <2>1, LenProperties DEF RootsSound
<1>4. CASE Cardinality(subplan_roots) = 1
  <2>1. PICK c : subplan_roots = {c}
    BY <1>2, <1>4, OneRootIsAll
  <2>2. plan' = subplans[c] /\ plan_status' = "ok"
    BY <1>4, <2>1 DEF Finish, End
  <2>3. G!AllLinked /\ plan' = Alias
    BY <1>2, <1>4, <2>1, <2>2, OneRootIsAll
  <2> QED BY <1>1, <1>2, <1>3, <2>2, <2>3 DEF G!Finish
<1>5. CASE Cardinality(subplan_roots) # 1
  <2>1. ~G!AllLinked
    BY <1>2, <1>5, OneRootIsAll
  <2>2. plan' = plan /\ plan_status' = "error"
    BY <1>5 DEF Finish, End
  <2> QED BY <1>1, <1>2, <1>3, <2>1, <2>2 DEF G!Finish
<1> QED BY <1>4, <1>5

LEMMA PlanStep ==
  ASSUME PlanIInv, [PlanNext]_plan_vars
  PROVE  [G!Next]_(G!vars)
<1>1. CASE JoinTables
  BY <1>1, JoinTablesIsEdge DEF G!Next
<1>2. CASE JoinSubquery \/ SubqueryFails
  BY <1>2, SubqueryIsNoEdge DEF G!Next
<1>3. CASE Finish
  BY <1>3, FinishIsFinish DEF G!Next
<1>4. CASE \/ Descend \/ AtRoot \/ Compress \/ TakeJoin \/ MoveLeft
           \/ JoinsOver \/ NextAlias \/ KeepRoot \/ UNCHANGED plan_vars
  BY <1>4, SearchStutters
<1> QED BY <1>1, <1>2, <1>3, <1>4 DEF PlanNext

\* Whatever tables and joins a query has, GetEquiv, the moves of subplans and the
\* roots together plan it as JoinGraph says: a plan over every table exactly when
\* the joins link them all, an error when they do not, and the end of the process
\* when a join links two tables that are linked already.
THEOREM PlanRefines == PlanSpec => PlannedByGraph
<1>1. PlanInit => G!Init
  BY PlanStarts
<1>2. PlanIInv /\ [PlanNext]_plan_vars => [G!Next]_(G!vars)
  BY PlanStep
<1>3. PlanSpec => []PlanIInv
  BY SubplansWhole
<1> QED BY <1>1, <1>2, <1>3, PTL DEF PlanSpec, PlannedByGraph, G!Spec

=============================================================================
