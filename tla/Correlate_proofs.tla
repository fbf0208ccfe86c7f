--------------------------- MODULE Correlate_proofs ---------------------------
(***************************************************************************)
(* Correlate: for reports of any length, with keys repeated in any order,  *)
(* the three lists partition both reports and the pairs are a maximal      *)
(* one-to-one matching of keys.                                            *)
(***************************************************************************)
EXTENDS Correlate, TLAPS

\* A report of bounded length is a sequence (the lists of json reports).
LEMMA ReportIsSeq ==
  ASSUME NEW r \in Report
  PROVE  r \in Seq(Finding) /\ Len(r) \in Nat /\ \A i \in 1..Len(r) : r[i] \in Finding
  <1>1. PICK n \in Nat : r \in [1..n -> Finding]
    BY CorrelateAssumption DEF Report
  <1>2. r \in Seq(Finding)
    BY <1>1
  <1>3. QED
    BY <1>2

\* Every finding has a key (_key).
LEMMA KeyInKeys ==
  ASSUME NEW f \in Finding
  PROVE  _key(f) \in Key
  BY CorrelateAssumption DEF Finding, _key, Key

\* Every correlation begins with the invariant (correlate:59-61).
LEMMA InitIInv == Init => IInv
  <1> SUFFICES ASSUME Init PROVE IInv
    OBVIOUS
  <1>1. Len(dast) \in Nat /\ Len(sast) \in Nat
    BY ReportIsSeq DEF Init
  <1>2. TypeOK
    <2>1. 1 \in 1..(Len(dast) + 1)
      BY <1>1
    <2>2. QED
      BY <2>1, Zenon DEF Init, TypeOK
  <1>3. Sorted /\ OneToOne /\ NoPartner /\ Earliest /\ FirstServed
    BY <1>1 DEF Init, Sorted, OneToOne, NoPartner, Earliest, FirstServed
  <1>4. QED
    BY <1>2, <1>3 DEF Init, IInv

\* Every step keeps it: one case per branch of the loop and for the end.
LEMMA NextIInv == IInv /\ [Next]_vars => IInv'
  <1> SUFFICES ASSUME IInv, [Next]_vars PROVE IInv'
    OBVIOUS
  <1>l. Len(dast) \in Nat /\ Len(sast) \in Nat /\ next \in Nat
    BY ReportIsSeq DEF IInv, TypeOK
  <1>1. CASE Correlated
    <2>1. PICK s \in Unmatched(next) :
            /\ \A t \in Unmatched(next) : s <= t
            /\ correlated' = correlated \cup {<<next, s>>}
      BY <1>1 DEF Correlated
    <2>2. /\ s \in SastPositions /\ s \notin Matched /\ _key(sast[s]) = _key(dast[next])
          /\ next \in DastPositions /\ ~returned /\ next' = next + 1
          /\ UNCHANGED <<dast, sast, dast_only, sast_only, returned>>
      BY <1>1, <2>1 DEF Correlated, Unmatched
    <2>3. TypeOK'
      BY <1>l, <2>1, <2>2 DEF IInv, TypeOK, Pairs, DastPositions, SastPositions
    <2>4. Sorted'
      <3>1. \A d \in 1..next : d = next \/ d \in 1..(next - 1)
        BY <1>l
      <3>2. \A d \in 1..next : d \in dast_only \/ \E p \in correlated' : p[1] = d
        <4>1. \A d \in 1..(next - 1) : d \in dast_only \/ \E p \in correlated : p[1] = d
          BY DEF IInv, Sorted
        <4>2. <<next, s>> \in correlated' /\ <<next, s>>[1] = next
          BY <2>1
        <4>3. correlated \subseteq correlated'
          BY <2>1
        <4>4. QED
          BY <3>1, <4>1, <4>2, <4>3, Zenon
      <3>3. \A p \in correlated' : p[1] < next' /\ p[1] \notin dast_only'
        BY <1>l, <2>1, <2>2 DEF IInv, TypeOK, Pairs, DastPositions, Sorted
      <3>4. \A d \in dast_only' : d < next'
        BY <1>l, <2>2 DEF IInv, TypeOK, DastPositions, Sorted
      <3>5. next' - 1 = next
        BY <1>l, <2>2
      <3>6. QED
        BY <3>2, <3>3, <3>4, <3>5, <2>2 DEF Sorted
    <2>5. OneToOne'
      <3>1. \A p \in correlated : p[1] # next /\ p[2] # s
        BY <1>l, <2>2 DEF IInv, TypeOK, Pairs, DastPositions, Sorted, Matched
      <3>2. QED
        BY <3>1, <2>1, <2>2 DEF IInv, OneToOne, _key
    <2>6. NoPartner'
      <3>1. Matched \subseteq Matched'
        BY <2>1 DEF Matched
      <3>2. QED
        BY <3>1, <2>2 DEF IInv, NoPartner, Unmatched, _key, SastPositions
    <2>7. \A t : t \in Unmatched(next) => s <= t /\ t \in Nat /\ s \in Nat
      BY <1>l, <2>1 DEF Unmatched, SastPositions
    <2>8. \A p \in correlated' : p \in correlated \/ p = <<next, s>>
      BY <2>1
    <2>9. Matched \subseteq Matched' /\ s \in Matched'
      <3>1. <<next, s>> \in correlated' /\ <<next, s>>[2] = s
        BY <2>1
      <3>2. QED
        BY <2>1, <3>1, Zenon DEF Matched
    <2>10. \A d \in DastPositions : \A t \in Unmatched(d)' : t \in Unmatched(d) /\ t # s
      BY <2>2, <2>9 DEF Unmatched, _key, SastPositions
    <2>11. \A p \in correlated : p[1] \in DastPositions
      BY DEF IInv, TypeOK, Pairs
    <2>12. Earliest'
      <3> SUFFICES ASSUME NEW p \in correlated', NEW t \in Unmatched(p[1])' PROVE p[2] < t
        BY DEF Earliest
      <3>1. CASE p \in correlated
        BY <3>1, <2>10, <2>11 DEF IInv, Earliest
      <3>2. CASE p = <<next, s>>
        <4>1. p[1] = next /\ p[2] = s
          BY <3>2
        <4>2. t \in Unmatched(next) /\ t # s
          BY <2>2, <2>10, <4>1
        <4>3. QED
          BY <2>7, <4>1, <4>2
      <3>3. QED
        BY <2>8, <3>1, <3>2
    <2>13. \A p \in correlated : _key(dast[p[1]]) = _key(dast[next]) => p[2] < s
      <3> SUFFICES ASSUME NEW p \in correlated, _key(dast[p[1]]) = _key(dast[next])
                   PROVE  p[2] < s
        OBVIOUS
      <3>1. s \in Unmatched(p[1])
        BY <2>2 DEF Unmatched
      <3>2. QED
        BY <3>1 DEF IInv, Earliest
    <2>14. \A d \in dast_only : _key(dast[d]) # _key(dast[next])
      <3> SUFFICES ASSUME NEW d \in dast_only, _key(dast[d]) = _key(dast[next])
                   PROVE  FALSE
        OBVIOUS
      <3>1. s \in Unmatched(d)
        BY <2>2 DEF Unmatched
      <3>2. QED
        BY <3>1 DEF IInv, NoPartner
    <2>15. FirstServed'
      <3>1. ASSUME NEW p \in correlated', NEW q \in correlated',
                   _key(dast[p[1]]) = _key(dast[q[1]]), p[1] < q[1]
            PROVE  p[2] < q[2]
        <4>1. CASE p \in correlated /\ q \in correlated
          BY <3>1, <4>1 DEF IInv, FirstServed
        <4>2. CASE p \in correlated /\ q = <<next, s>>
          <5>1. q[1] = next /\ q[2] = s
            BY <4>2
          <5>2. QED
            BY <2>13, <3>1, <4>2, <5>1
        <4>3. CASE p = <<next, s>>
          <5>1. p[1] = next
            BY <4>3
          <5>2. q[1] = next \/ q[1] < next
            BY <2>8 DEF IInv, Sorted
          <5>3. q[1] \in Nat
            BY <1>l, <2>8, <2>11, <2>2 DEF DastPositions
          <5>4. QED
            BY <1>l, <3>1, <5>1, <5>2, <5>3
        <4>4. QED
          BY <2>8, <4>1, <4>2, <4>3
      <3>2. ASSUME NEW p \in correlated', NEW d \in dast_only,
                   _key(dast[d]) = _key(dast[p[1]])
            PROVE  p[1] < d
        <4>1. CASE p \in correlated
          BY <3>2, <4>1 DEF IInv, FirstServed
        <4>2. CASE p = <<next, s>>
          BY <2>14, <3>2, <4>2
        <4>3. QED
          BY <2>8, <4>1, <4>2
      <3>3. \A d : _key(dast'[d]) = _key(dast[d])
        BY <2>2 DEF _key
      <3>4. QED
        BY <2>2, <3>1, <3>2, <3>3 DEF FirstServed
    <2>16. QED
      BY <2>2, <2>3, <2>4, <2>5, <2>6, <2>12, <2>15 DEF IInv
  <1>2. CASE DastOnly
    <2>1. /\ next \in DastPositions /\ ~returned /\ Unmatched(next) = {}
          /\ next' = next + 1 /\ dast_only' = dast_only \cup {next}
          /\ UNCHANGED <<dast, sast, correlated, sast_only, returned>>
      BY <1>2 DEF DastOnly
    <2>2. TypeOK'
      BY <1>l, <2>1 DEF IInv, TypeOK, Pairs, DastPositions, SastPositions
    <2>3. Sorted'
      <3>1. \A p \in correlated : p[1] \in Nat /\ p[1] < next
        BY DEF IInv, TypeOK, Pairs, DastPositions, Sorted
      <3>2. \A d \in dast_only : d \in Nat /\ d < next
        BY DEF IInv, TypeOK, DastPositions, Sorted
      <3>3. \A d \in 1..next : d = next \/ d \in 1..(next - 1)
        BY <1>l
      <3>4. \A d \in 1..next : d \in dast_only' \/ \E p \in correlated : p[1] = d
        <4>1. \A d \in 1..(next - 1) : d \in dast_only \/ \E p \in correlated : p[1] = d
          BY DEF IInv, Sorted
        <4>2. next \in dast_only' /\ dast_only \subseteq dast_only'
          BY <2>1
        <4>3. QED
          BY <3>3, <4>1, <4>2, Zenon
      <3>5. \A p \in correlated : p[1] < next + 1 /\ p[1] \notin dast_only'
        BY <1>l, <2>1, <3>1 DEF IInv, Sorted
      <3>6. next' - 1 = next /\ next' = next + 1 /\ \A d \in dast_only' : d < next'
        BY <1>l, <2>1, <3>2
      <3>7. QED
        BY <3>4, <3>5, <3>6, <2>1, Zenon DEF Sorted
    <2>4. OneToOne'
      BY <2>1 DEF IInv, OneToOne, _key
    <2>5. NoPartner'
      BY <2>1 DEF IInv, NoPartner, Unmatched, Matched, _key, SastPositions
    <2>6. Earliest'
      BY <2>1 DEF IInv, Earliest, Unmatched, Matched, _key, SastPositions
    <2>7. FirstServed'
      <3>1. \A p \in correlated : p[1] < next
        BY DEF IInv, Sorted
      <3>2. QED
        BY <2>1, <3>1 DEF IInv, FirstServed, _key
    <2>8. QED
      BY <2>1, <2>2, <2>3, <2>4, <2>5, <2>6, <2>7 DEF IInv
  <1>3. CASE Return
    <2>1. /\ next \notin DastPositions /\ ~returned /\ returned' = TRUE
          /\ sast_only' = SastPositions \ Matched
          /\ UNCHANGED <<dast, sast, next, correlated, dast_only>>
      BY <1>3 DEF Return
    <2>2. next = Len(dast) + 1
      BY <1>l, <2>1 DEF IInv, TypeOK, DastPositions
    <2>3. TypeOK'
      BY <2>1 DEF IInv, TypeOK, Pairs, DastPositions, SastPositions
    <2>4. Sorted' /\ OneToOne' /\ NoPartner' /\ Earliest' /\ FirstServed'
      BY <2>1 DEF IInv, Sorted, OneToOne, NoPartner, Earliest, FirstServed, Unmatched, Matched,
                  _key, SastPositions
    <2>5. QED
      BY <2>1, <2>2, <2>3, <2>4 DEF IInv, Matched, SastPositions
  <1>4. CASE UNCHANGED vars
    BY <1>4 DEF vars, IInv, TypeOK, Sorted, OneToOne, NoPartner, Earliest,
                FirstServed, Pairs, DastPositions, SastPositions, Unmatched, Matched, _key
  <1>5. QED
    BY <1>1, <1>2, <1>3, <1>4 DEF Next

\* The strengthened invariant holds in every state of correlate.
THEOREM Invariance == Spec => []IInv
  <1>1. Init => IInv
    BY InitIInv
  <1>2. IInv /\ [Next]_vars => IInv'
    BY NextIInv
  <1>3. QED
    BY <1>1, <1>2, PTL DEF Spec

\* The lists of correlate are well typed, for reports of every length.
THEOREM TypeCorrect == Spec => []TypeOK
  <1>1. IInv => TypeOK
    BY DEF IInv
  <1>2. QED
    BY <1>1, Invariance, PTL

\* No finding of either report is lost by correlate and none is listed twice.
THEOREM ListedOnce == Spec => []InOnePlace
  <1>1. IInv => InOnePlace
    <2> SUFFICES ASSUME IInv, returned PROVE InOnePlace
      BY DEF InOnePlace
    <2>1. Len(dast) \in Nat /\ next = Len(dast) + 1 /\ sast_only = SastPositions \ Matched
      BY ReportIsSeq DEF IInv, TypeOK
    <2>2. \A d \in DastPositions : d \in 1..(next - 1)
      BY <2>1 DEF DastPositions
    <2>3. \A d \in DastPositions : d \in dast_only <=> ~ \E p \in correlated : p[1] = d
      BY <2>2 DEF IInv, Sorted
    <2>4. \A s \in SastPositions : s \in sast_only <=> ~ \E p \in correlated : p[2] = s
      BY <2>1 DEF Matched
    <2>5. QED
      BY <2>3, <2>4 DEF IInv, OneToOne, InOnePlace
  <1>2. QED
    BY <1>1, Invariance, PTL

\* What correlate owes its caller holds for reports of every length: besides the
\* partition, that equal findings are served in their order (unmatched_candidates[0]).
THEOREM ServedInOrder == Spec => []Inv
  <1>1. IInv /\ InOnePlace => Inv
    BY DEF Inv
  <1>2. QED
    BY <1>1, Invariance, ListedOnce, PTL

\* Every step of correlate is a join of two findings that may be joined, the end
\* of a matching to which none can be added, or no step of the matching.
THEOREM Refinement == Spec => IsMatching
  <1> DEFINE Left == [i \in DastPositions |->
                        <<Upper[dast[i].method], dast[i].path_template, dast[i].cwe>>]
             Right == [i \in SastPositions |->
                        <<Upper[sast[i].method], sast[i].path_template, sast[i].cwe>>]
  <1>k. ASSUME dast \in Report, sast \in Report
        PROVE  /\ Left \in Seq(Key) /\ Len(Left) = Len(dast)
               /\ Right \in Seq(Key) /\ Len(Right) = Len(sast)
    <2>1. /\ Len(dast) \in Nat /\ \A i \in DastPositions : dast[i] \in Finding
          /\ Len(sast) \in Nat /\ \A i \in SastPositions : sast[i] \in Finding
      BY <1>k, ReportIsSeq DEF DastPositions, SastPositions
    <2>2. /\ \A i \in DastPositions : Left[i] \in Key
          /\ \A i \in SastPositions : Right[i] \in Key
      BY <2>1, KeyInKeys DEF _key
    <2>3. Left \in [1..Len(dast) -> Key] /\ Right \in [1..Len(sast) -> Key]
      BY <2>2, Zenon DEF DastPositions, SastPositions
    <2>4. QED
      BY <2>1, <2>3
  <1>1. Init => Joined!Init
    BY <1>k DEF Init, Joined!Init
  <1>2. IInv /\ [Next]_vars => [Joined!Next]_(Joined!vars)
    <2> SUFFICES ASSUME IInv, [Next]_vars PROVE [Joined!Next]_(Joined!vars)
      OBVIOUS
    <2>l. /\ Len(Left) = Len(dast) /\ Len(Right) = Len(sast)
          /\ Len(dast) \in Nat /\ Len(sast) \in Nat
      BY <1>k, ReportIsSeq DEF IInv, TypeOK
    <2>k. /\ \A d \in DastPositions : Left[d] = _key(dast[d])
          /\ \A s \in SastPositions : Right[s] = _key(sast[s])
      BY DEF _key
    <2>j. Joined!Joinable =
            {p \in DastPositions \X SastPositions :
               /\ _key(dast[p[1]]) = _key(sast[p[2]])
               /\ \A q \in correlated : q[1] # p[1] /\ q[2] # p[2]}
      <3>1. 1..Len(Left) = DastPositions /\ 1..Len(Right) = SastPositions
        BY <2>l DEF DastPositions, SastPositions
      <3>2. \A p \in DastPositions \X SastPositions :
              Left[p[1]] = _key(dast[p[1]]) /\ Right[p[2]] = _key(sast[p[2]])
        BY <2>k
      <3> HIDE DEF Left, Right
      <3>3. Joined!Joinable =
              {p \in (1..Len(Left)) \X (1..Len(Right)) :
                 /\ Left[p[1]] = Right[p[2]]
                 /\ \A q \in correlated : q[1] # p[1] /\ q[2] # p[2]}
        BY Zenon DEF Joined!Joinable, Left, Right
      <3>4. Joined!Joinable =
              {p \in DastPositions \X SastPositions :
                 /\ Left[p[1]] = Right[p[2]]
                 /\ \A q \in correlated : q[1] # p[1] /\ q[2] # p[2]}
        BY <3>1, <3>3, Zenon
      <3> DEFINE Free(p) == \A q \in correlated : q[1] # p[1] /\ q[2] # p[2]
                 LR == {p \in DastPositions \X SastPositions :
                          Left[p[1]] = Right[p[2]] /\ Free(p)}
                 KK == {p \in DastPositions \X SastPositions :
                          _key(dast[p[1]]) = _key(sast[p[2]]) /\ Free(p)}
      <3> HIDE DEF Free
      <3>5. \A p : p \in LR <=> p \in KK
        BY <3>2
      <3>6. LR = KK
        BY <3>5, Zenon
      <3> USE DEF Free
      <3>7. QED
        BY <3>4, <3>6, Zenon
    <2>1. CASE Correlated
      <3>1. PICK s \in Unmatched(next) : correlated' = correlated \cup {<<next, s>>}
        BY <2>1 DEF Correlated
      <3>2. /\ next \in DastPositions /\ s \in SastPositions /\ s \notin Matched
            /\ _key(sast[s]) = _key(dast[next])
            /\ ~returned /\ UNCHANGED <<dast, sast, returned>>
        BY <2>1 DEF Correlated, Unmatched
      <3>3. \A q \in correlated : q[1] # next /\ q[2] # s
        BY <3>2, ReportIsSeq DEF IInv, TypeOK, Pairs, DastPositions, Sorted, Matched
      <3>4. <<next, s>> \in Joined!Joinable
        <4> DEFINE p == <<next, s>>
        <4>1. p \in DastPositions \X SastPositions
          BY <3>2
        <4>2. p[1] = next /\ p[2] = s
          OBVIOUS
        <4>3. \A q \in correlated : q[1] # p[1] /\ q[2] # p[2]
          BY <4>2, <3>3
        <4>4. _key(dast[p[1]]) = _key(sast[p[2]])
          BY <4>2, <3>2
        <4> HIDE DEF p
        <4>5. p \in Joined!Joinable
          BY <2>j, <4>1, <4>3, <4>4, Zenon
        <4>6. QED
          BY <4>5 DEF p
      <3>5. UNCHANGED <<Left, Right>>
        BY <3>2 DEF DastPositions, SastPositions
      <3>6. QED
        BY <3>1, <3>2, <3>4, <3>5 DEF Joined!Join, Joined!Next
    <2>2. CASE DastOnly
      BY <2>2 DEF DastOnly, DastPositions, SastPositions, Joined!vars
    <2>3. CASE Return
      <3>1. /\ next \notin DastPositions /\ ~returned /\ returned' = TRUE
            /\ UNCHANGED <<dast, sast, correlated>>
        BY <2>3 DEF Return
      <3>2. \A d \in DastPositions : d \in 1..(next - 1)
        <4>1. Len(dast) \in Nat /\ next \in 1..(Len(dast) + 1)
          BY ReportIsSeq DEF IInv, TypeOK
        <4>2. QED
          BY <4>1, <3>1 DEF DastPositions
      <3>3. Joined!Joinable = {}
        <4> SUFFICES ASSUME NEW d \in DastPositions, NEW s \in SastPositions,
                            _key(dast[d]) = _key(sast[s]),
                            \A q \in correlated : q[1] # d /\ q[2] # s
                     PROVE  FALSE
          BY <2>j
        <4>1. d \in dast_only
          BY <3>2 DEF IInv, Sorted
        <4>2. s \in Unmatched(d)
          BY DEF Unmatched, Matched
        <4>3. QED
          BY <4>1, <4>2 DEF IInv, NoPartner
      <3>4. UNCHANGED <<Left, Right>>
        BY <3>1 DEF DastPositions, SastPositions
      <3>5. QED
        BY <3>1, <3>3, <3>4 DEF Joined!Close, Joined!Next
    <2>4. CASE UNCHANGED vars
      BY <2>4 DEF vars, DastPositions, SastPositions, Joined!vars
    <2>5. QED
      BY <2>1, <2>2, <2>3, <2>4 DEF Next
  <1>3. QED
    BY <1>1, <1>2, Invariance, PTL DEF Spec, IsMatching, Joined!Spec
==============================================================================
